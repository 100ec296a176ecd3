----------------------------- MODULE PlanProofs -----------------------------
(***************************************************************************)
(* CompatibilityPlan for archives of any size and any content, integers of *)
(* any width (the 32 and 64 bits of the code among them), and whatever the *)
(* rules of the patch set find.                                            *)
(***************************************************************************)
EXTENDS CompatibilityPlan, SequenceLemmas

(***************************************************************************)
(* collect_edits.                                                          *)
(***************************************************************************)
LEMMA FirstEdit ==
    ASSUME NEW E, E \subseteq EditRecords, E # {}
    PROVE  \E e \in E : \A other \in E : ~Before(other, e)
<1> DEFINE Lows == {e.lo : e \in E}
<1>1. Lows \subseteq Nat /\ Lows # {}
  BY DEF EditRecords
<1>2. PICK lo \in Lows : \A y \in Lows : ~(y < lo)
  <2> HIDE DEF Lows
  <2> QED
    BY <1>1, LeastNumber
<1> DEFINE Highs == {e.hi : e \in {e \in E : e.lo = lo}}
<1>3. Highs \subseteq Nat /\ Highs # {}
  BY DEF EditRecords
<1>4. PICK hi \in Highs : \A y \in Highs : ~(y < hi)
  <2> HIDE DEF Highs
  <2> QED
    BY <1>3, LeastNumber
<1>5. PICK e \in E : e.lo = lo /\ e.hi = hi
  BY <1>4
<1>6. ASSUME NEW other \in E, Before(other, e) PROVE FALSE
  <2>1. other.lo < lo \/ (other.lo = lo /\ other.hi < hi)
    BY <1>5, <1>6 DEF Before
  <2>2. other.lo \in Lows /\ (other.lo = lo => other.hi \in Highs)
    OBVIOUS
  <2> HIDE DEF Lows, Highs
  <2> QED
    BY <1>2, <1>4, <2>1, <2>2
<1> QED
  BY <1>5, <1>6

(* A list of some of the edits: each once, in order, none left out that    *)
(* comes before one of them.                                               *)
InOrder(d, n) == \A j \in 1 .. n : \A i \in 1 .. n : i < j => d[i] # d[j] /\ ~Before(d[j], d[i])

Listing(d, n, E) ==
    /\ d \in Seq(E) /\ Len(d) = n
    /\ InOrder(d, n)
    /\ \A i \in 1 .. n : \A other \in E \ Range(d) : ~Before(other, d[i])
    /\ IsFiniteSet(Range(d)) /\ Cardinality(Range(d)) = n

Earliest(rest) == CHOOSE e \in rest : \A other \in rest : ~Before(other, e)

LEMMA ListingGrows ==
    ASSUME NEW E, E \subseteq EditRecords, IsFiniteSet(E),
           NEW n \in Nat, n < Cardinality(E), NEW d, Listing(d, n, E)
    PROVE  /\ Earliest(E \ Range(d)) \in E
           /\ Listing(Append(d, Earliest(E \ Range(d))), n + 1, E)
<1> DEFINE rest == E \ Range(d)
           e == Earliest(rest)
           g == Append(d, e)
<1>1. d \in Seq(E) /\ Len(d) = n /\ IsFiniteSet(Range(d)) /\ Cardinality(Range(d)) = n
  BY DEF Listing
<1>2. rest # {}
  <2>1. Range(d) \subseteq E
    BY <1>1, RangeOfSeq
  <2>2. rest = {} => Range(d) = E
    BY <2>1
  <2> QED
    BY <1>1, <2>2
<1>3. e \in rest /\ \A other \in rest : ~Before(other, e)
  <2>1. \E x \in rest : \A other \in rest : ~Before(other, x)
    BY <1>2, FirstEdit
  <2> HIDE DEF rest
  <2> QED
    BY <2>1 DEF Earliest
<1>4. e \in E /\ e \notin Range(d)
  BY <1>3
<1> HIDE DEF e
<1>5. /\ g \in Seq(E) /\ Len(g) = n + 1 /\ g[n + 1] = e
      /\ \A i \in 1 .. n : g[i] = d[i]
  BY <1>1, <1>4, AppendProperties
<1>6. Range(g) = Range(d) \cup {e}
  <2>1. Range(g) = {g[i] : i \in 1 .. n + 1} /\ Range(d) = {d[i] : i \in 1 .. n}
    BY <1>1, <1>5, RangeEquality
  <2> QED
    BY <1>5, <2>1
<1>7. IsFiniteSet(Range(g)) /\ Cardinality(Range(g)) = n + 1
  BY <1>1, <1>4, <1>6, FS_AddElement
<1>8. \A i \in 1 .. n : d[i] \in Range(d)
  BY <1>1, RangeEquality
<1> HIDE DEF g
<1>9. InOrder(g, n + 1)
  <2> SUFFICES ASSUME NEW j \in 1 .. n + 1, NEW i \in 1 .. n + 1, i < j
               PROVE  g[i] # g[j] /\ ~Before(g[j], g[i])
    BY DEF InOrder
  <2>1. i \in 1 .. n /\ g[i] = d[i]
    BY <1>5
  <2>2. CASE j = n + 1
    <3>1. g[j] = e
      BY <1>5, <2>2
    <3>2. ~Before(e, d[i])
      BY <1>3, <2>1 DEF Listing
    <3> QED
      BY <1>4, <1>8, <2>1, <3>1, <3>2
  <2>3. CASE j # n + 1
    <3>1. j \in 1 .. n /\ g[j] = d[j]
      BY <1>5, <2>3
    <3> QED
      BY <2>1, <3>1 DEF Listing, InOrder
  <2> QED
    BY <2>2, <2>3
<1>10. ASSUME NEW i \in 1 .. n + 1, NEW other \in E \ Range(g) PROVE ~Before(other, g[i])
  <2>1. other \in rest
    BY <1>6
  <2>2. CASE i = n + 1
    BY <1>3, <1>5, <2>1, <2>2
  <2>3. CASE i # n + 1
    <3>1. i \in 1 .. n /\ g[i] = d[i]
      BY <1>5, <2>3
    <3> QED
      BY <2>1, <3>1 DEF Listing
  <2> QED
    BY <2>2, <2>3
<1>11. Listing(g, n + 1, E)
  BY <1>5, <1>7, <1>9, <1>10 DEF Listing
<1> QED
  BY <1>4, <1>11 DEF g, e

(* EditsByRange lists every edit of a resource once, sorted by its range.  *)
LEMMA ListedEdits ==
    ASSUME NEW resource, EditsOf(resource) \subseteq EditRecords, IsFiniteSet(EditsOf(resource))
    PROVE  /\ EditsByRange(resource) \in Seq(EditsOf(resource))
           /\ InOrder(EditsByRange(resource), Len(EditsByRange(resource)))
           /\ Range(EditsByRange(resource)) = EditsOf(resource)
<1> DEFINE E == EditsOf(resource)
           K == Cardinality(E)
<1>0. K \in Nat /\ IsFiniteSet(E) /\ E \subseteq EditRecords
  BY FS_CardinalityType
<1> HIDE DEF E, K
<1> DEFINE Grown(n, d) == IF n < K /\ Listing(d, n, E) THEN Append(d, Earliest(E \ Range(d))) ELSE d
           step == [n \in Nat |-> [d \in Seq(E) |-> Grown(n, d)]]
<1>1. step \in [Nat -> [Seq(E) -> Seq(E)]]
  <2>1. ASSUME NEW n \in Nat, NEW d \in Seq(E) PROVE Grown(n, d) \in Seq(E)
    <3>1. CASE n < K /\ Listing(d, n, E)
      <4>1. Earliest(E \ Range(d)) \in E
        BY <1>0, <3>1, ListingGrows DEF K
      <4> QED
        BY <3>1, <4>1, AppendProperties
    <3>2. CASE ~(n < K /\ Listing(d, n, E))
      BY <3>2
    <3> QED
      BY <3>1, <3>2
  <2> HIDE DEF Grown
  <2> QED
    BY <2>1
<1>2. PICK f : IsRecursion(f, Seq(E), <<>>, step)
  <2>1. <<>> \in Seq(E)
    BY EmptySeq
  <2> HIDE DEF step
  <2> QED
    BY <1>1, <2>1, Recursion
<1>3. f[0] = <<>> /\ \A n \in Nat : f[n] \in Seq(E) /\ f[n + 1] = Grown(n, f[n])
  <2>1. f[0] = <<>> /\ \A n \in Nat : f[n] \in Seq(E) /\ f[n + 1] = step[n][f[n]]
    BY <1>2 DEF IsRecursion
  <2> HIDE DEF Grown
  <2> QED
    BY <2>1
<1> DEFINE P == {n \in Nat : n <= K => Listing(f[n], n, E)}
<1>4. 0 \in P
  <2>1. Listing(<<>>, 0, E)
    <3>1. <<>> \in Seq(E) /\ Len(<<>>) = 0
      BY EmptySeq
    <3>2. Range(<<>>) = {}
      BY EmptyRange
    <3> QED
      BY <3>1, <3>2, FS_EmptySet, SMTT(30) DEF Listing, InOrder
  <2> QED
    BY <1>3, <2>1
<1>5. ASSUME NEW n \in Nat, n \in P PROVE n + 1 \in P
  <2> SUFFICES ASSUME n + 1 <= K PROVE Listing(f[n + 1], n + 1, E)
    OBVIOUS
  <2>1. n < K /\ Listing(f[n], n, E)
    BY <1>0, <1>5
  <2>2. f[n + 1] = Append(f[n], Earliest(E \ Range(f[n])))
    BY <1>3, <2>1
  <2>3. Listing(Append(f[n], Earliest(E \ Range(f[n]))), n + 1, E)
    BY <1>0, <2>1, ListingGrows DEF K
  <2> QED
    BY <2>2, <2>3
<1>6. \A n \in 0 .. K : Listing(f[n], n, E)
  <2>1. Nat \subseteq P
    <3> HIDE DEF P
    <3> QED
      BY <1>4, <1>5, Induction
  <2> QED
    BY <1>0, <2>1
<1> DEFINE Lists(g) == g = [n \in 0 .. K |->
                              IF n = 0 THEN <<>>
                              ELSE Append(g[n - 1], Earliest(E \ Range(g[n - 1])))]
           h == [n \in 0 .. K |-> f[n]]
<1>7. Lists(h)
  <2>1. ASSUME NEW n \in 0 .. K, n # 0
        PROVE  f[n] = Append(h[n - 1], Earliest(E \ Range(h[n - 1])))
    <3>1. n - 1 \in Nat /\ n - 1 \in 0 .. K /\ n - 1 < K /\ (n - 1) + 1 = n
      BY <1>0, <2>1
    <3>2. h[n - 1] = f[n - 1]
      BY <3>1
    <3>3. f[n] = Grown(n - 1, f[n - 1]) /\ Listing(f[n - 1], n - 1, E)
      BY <1>3, <1>6, <3>1
    <3> QED
      BY <3>1, <3>2, <3>3
  <2>2. h[0] = <<>>
    BY <1>0, <1>3
  <2> QED
    BY <1>3, <2>1
<1> DEFINE listed == CHOOSE g : Lists(g)
<1>8. Lists(listed)
  <2> HIDE DEF Lists, h
  <2> QED
    BY <1>7
<1>9. EditsByRange(resource) = listed[K]
  BY DEF EditsByRange, Earliest, E, K
<1> HIDE DEF listed
<1> DEFINE R == {n \in Nat : n <= K => listed[n] = f[n]}
<1>10. 0 \in R
  BY <1>0, <1>3, <1>8
<1>11. ASSUME NEW n \in Nat, n \in R PROVE n + 1 \in R
  <2> SUFFICES ASSUME n + 1 <= K PROVE listed[n + 1] = f[n + 1]
    OBVIOUS
  <2>1. n + 1 \in 0 .. K /\ n < K /\ n + 1 # 0 /\ (n + 1) - 1 = n /\ n \in 0 .. K
    BY <1>0
  <2>2. listed[n + 1] = Append(listed[n], Earliest(E \ Range(listed[n])))
    BY <1>8, <2>1
  <2>3. listed[n] = f[n]
    BY <1>11, <2>1
  <2>4. f[n + 1] = Append(f[n], Earliest(E \ Range(f[n])))
    BY <1>3, <1>6, <2>1
  <2> QED
    BY <2>2, <2>3, <2>4
<1>12. listed[K] = f[K]
  <2>1. Nat \subseteq R
    <3> HIDE DEF R
    <3> QED
      BY <1>10, <1>11, Induction
  <2> QED
    BY <1>0, <2>1
<1>13. Listing(EditsByRange(resource), K, E)
  BY <1>0, <1>6, <1>9, <1>12
<1>14. Range(EditsByRange(resource)) = E
  <2> DEFINE c == Range(EditsByRange(resource))
  <2>1. c \in SUBSET E
    BY <1>13, RangeOfSeq DEF Listing
  <2>2. Cardinality(E) = Cardinality(c)
    BY <1>13 DEF Listing, K
  <2>3. IsFiniteSet(E)
    BY <1>0
  <2> HIDE DEF c
  <2>4. c = E
    BY <2>1, <2>2, <2>3, FS_Subset
  <2> QED
    BY <2>4 DEF c
<1> QED
  BY <1>13, <1>14 DEF Listing, E

(***************************************************************************)
(* The sorted vector, equal edits side by side, is listed without repeats. *)
(***************************************************************************)
Copies(k, e) == [i \in 1 .. k |-> e]

EndsWith(s, e) == s # <<>> /\ s[Len(s)] = e

LEMMA DedupAppend ==
    ASSUME NEW S, NEW s \in Seq(S), NEW e \in S
    PROVE  Dedup(Append(s, e)) =
             IF EndsWith(s, e) THEN Dedup(s) ELSE Append(Dedup(s), e)
<1> DEFINE t == Append(s, e)
           n == Len(s)
           p == [i \in DOMAIN s |-> IF i > 1 /\ s[i] = s[i - 1] THEN <<>> ELSE <<s[i]>>]
           q == [i \in DOMAIN t |-> IF i > 1 /\ t[i] = t[i - 1] THEN <<>> ELSE <<t[i]>>]
           piece == IF s # <<>> /\ s[n] = e THEN <<>> ELSE <<e>>
<1>1. /\ t \in Seq(S) /\ Len(t) = n + 1 /\ t[n + 1] = e /\ n \in Nat
      /\ \A i \in 1 .. n : t[i] = s[i]
  BY AppendProperties, LenProperties
<1>2. DOMAIN s = 1 .. n /\ DOMAIN t = 1 .. n + 1 /\ \A i \in 1 .. n : s[i] \in S
  BY <1>1, LenProperties
<1>3. Dedup(s) = FlattenSeq(p) /\ Dedup(t) = FlattenSeq(q)
  BY DEF Dedup
<1>4. p \in Seq(Seq(S)) /\ Len(p) = n
  <2>1. \A i \in 1 .. n : p[i] \in Seq(S)
    BY <1>2
  <2>2. p \in [1 .. n -> Seq(S)]
    BY <1>2, <2>1
  <2> HIDE DEF p
  <2> QED
    BY <1>1, <2>2
<1>5. piece \in Seq(S)
  OBVIOUS
<1>6. s = <<>> <=> n = 0
  BY EmptySeq
<1>7. q = Append(p, piece)
  <2> DEFINE r == Append(p, piece)
  <2>1. /\ r \in Seq(Seq(S)) /\ Len(r) = n + 1 /\ r[n + 1] = piece
        /\ \A i \in 1 .. n : r[i] = p[i]
    BY <1>4, <1>5, AppendProperties
  <2>2. ASSUME NEW i \in 1 .. n PROVE q[i] = r[i]
    <3>1. t[i] = s[i] /\ (i > 1 => t[i - 1] = s[i - 1])
      BY <1>1
    <3> QED
      BY <1>1, <1>2, <2>1, <3>1
  <2>3. q[n + 1] = r[n + 1]
    <3>1. n > 0 => n \in 1 .. n /\ t[n] = s[n]
      BY <1>1
    <3>2. q[n + 1] = IF n + 1 > 1 /\ t[n + 1] = t[(n + 1) - 1] THEN <<>> ELSE <<t[n + 1]>>
      <4>1. n + 1 \in DOMAIN t
        BY <1>1, <1>2
      <4> HIDE DEF t, n
      <4> QED
        BY <4>1
    <3>3. (n + 1) - 1 = n /\ (n + 1 > 1 <=> n > 0) /\ t[n + 1] = e
      BY <1>1
    <3>4. q[n + 1] = IF n > 0 /\ e = t[n] THEN <<>> ELSE <<e>>
      <4> HIDE DEF q, t, n
      <4> QED
        BY <3>2, <3>3
    <3>5. (s # <<>> /\ s[n] = e) <=> (n > 0 /\ e = t[n])
      <4>1. n \in Nat
        BY <1>1
      <4> HIDE DEF t, n
      <4> QED
        BY <1>6, <3>1, <4>1
    <3>6. q[n + 1] = piece
      <4> HIDE DEF q, t, n
      <4> QED
        BY <3>4, <3>5
    <3> QED
      BY <2>1, <3>6
  <2>4. DOMAIN q = 1 .. n + 1 /\ DOMAIN r = 1 .. n + 1
    BY <1>1, <1>2, <2>1, LenProperties
  <2>5. r = [i \in 1 .. n + 1 |-> r[i]] /\ q = [i \in 1 .. n + 1 |-> q[i]]
    <3>1. r = [i \in 1 .. n + 1 |-> r[i]]
      BY <2>1, <2>4, LenProperties
    <3> QED
      BY <1>2, <3>1
  <2>6. \A i \in 1 .. n + 1 : q[i] = r[i]
    BY <1>1, <2>2, <2>3
  <2> HIDE DEF q, r
  <2> QED
    BY <2>5, <2>6 DEF r
<1>8. FlattenSeq(q) = FlattenSeq(p) \o piece
  <2> HIDE DEF p, q, piece
  <2> QED
    BY <1>4, <1>5, <1>7, FlattenAppend
<1>9. FlattenSeq(p) \in Seq(S)
  <2> HIDE DEF p
  <2> QED
    BY <1>4, FlattenType
<1> HIDE DEF p, q
<1>10. FlattenSeq(p) \o <<>> = FlattenSeq(p) /\ FlattenSeq(p) \o <<e>> = Append(FlattenSeq(p), e)
  BY <1>9
<1> QED
  BY <1>3, <1>8, <1>10 DEF EndsWith

LEMMA DedupEmpty == Dedup(<<>>) = <<>>
<1>1. DOMAIN <<>> = {}
  OBVIOUS
<1>2. [i \in DOMAIN <<>> |-> IF i > 1 /\ <<>>[i] = <<>>[i - 1] THEN <<>> ELSE << <<>>[i] >>] = <<>>
  BY <1>1
<1> QED
  BY <1>2, FlattenEmpty DEF Dedup

(* t is s, and then e once or several times. *)
AddsOnce(t, s, e, S) ==
    Dedup(t) = Append(Dedup(s), e) /\ t \in Seq(S) /\ EndsWith(t, e)

(* One edit, several times over, adds itself once. *)
LEMMA DedupCopies ==
    ASSUME NEW S, NEW s \in Seq(S), NEW e \in S, ~EndsWith(s, e),
           NEW k \in Nat \ {0}
    PROVE  AddsOnce(s \o Copies(k, e), s, e, S)
<1> DEFINE T(n) == s \o [i \in 1 .. n |-> e]
           Good(n) == /\ Dedup(T(n)) = Append(Dedup(s), e)
                      /\ T(n) \in Seq(S) /\ EndsWith(T(n), e)
           P == {n \in Nat : Good(n + 1)}
<1>1. T(1) = Append(s, e)
  <2>1. [i \in 1 .. 1 |-> e] = <<e>>
    OBVIOUS
  <2> QED
    BY <2>1
<1>2. ASSUME NEW n \in Nat PROVE T(n + 1) = Append(T(n), e)
  <2>1. [i \in 1 .. n |-> e] \in Seq(S)
    OBVIOUS
  <2>2. [i \in 1 .. n + 1 |-> e] = Append([i \in 1 .. n |-> e], e)
    BY <2>1
  <2> QED
    BY <2>1, <2>2
<1>3. ASSUME NEW u \in Seq(S) PROVE Append(u, e) \in Seq(S) /\ EndsWith(Append(u, e), e)
  <2>1. Append(u, e) \in Seq(S) /\ Len(Append(u, e)) = Len(u) + 1
        /\ Append(u, e)[Len(u) + 1] = e /\ Len(u) \in Nat
    BY AppendProperties, LenProperties
  <2>2. Len(<<>>) = 0 /\ Len(u) + 1 # 0
    BY <2>1, EmptySeq
  <2>3. Append(u, e) # <<>>
    BY <2>1, <2>2, Zenon
  <2> QED
    BY <2>1, <2>3 DEF EndsWith
<1> HIDE DEF T
<1>4. 0 \in P
  <2>1. Dedup(Append(s, e)) = Append(Dedup(s), e)
    BY DedupAppend
  <2>2. Append(s, e) \in Seq(S) /\ EndsWith(Append(s, e), e)
    BY <1>3
  <2>3. Good(1)
    BY <1>1, <2>1, <2>2, Zenon
  <2>4. 0 + 1 = 1
    OBVIOUS
  <2> HIDE DEF Good
  <2> QED
    BY <2>3, <2>4
<1>5. ASSUME NEW n \in Nat, n \in P PROVE n + 1 \in P
  <2>1. n + 1 \in Nat /\ Good(n + 1)
    BY <1>5
  <2>2. T(n + 2) = Append(T(n + 1), e)
    <3>1. (n + 1) + 1 = n + 2
      BY <2>1
    <3> QED
      BY <1>2, <2>1, <3>1
  <2>3. Dedup(Append(T(n + 1), e)) = Dedup(T(n + 1))
    BY <2>1, DedupAppend
  <2>4. Append(T(n + 1), e) \in Seq(S) /\ EndsWith(Append(T(n + 1), e), e)
    BY <1>3, <2>1
  <2>5. Dedup(T(n + 1)) = Append(Dedup(s), e)
    BY <2>1
  <2>6. Good(n + 2)
    BY <2>2, <2>3, <2>4, <2>5, Zenon
  <2>7. (n + 1) + 1 = n + 2
    BY <2>1
  <2> HIDE DEF Good
  <2> QED
    BY <2>1, <2>6, <2>7
<1>6. Nat \subseteq P
  <2> HIDE DEF P
  <2> QED
    BY <1>4, <1>5, Induction
<1>7. k - 1 \in Nat /\ (k - 1) + 1 = k
  OBVIOUS
<1>8. Good(k)
  BY <1>6, <1>7
<1>9. s \o Copies(k, e) = T(k)
  BY DEF T, Copies
<1> QED
  BY <1>8, <1>9, Zenon DEF AddsOnce
LEMMA Prefix ==
    ASSUME NEW T, NEW n \in Nat, NEW w, \A i \in 1 .. n + 1 : w[i] \in T
    PROVE  [i \in 1 .. n + 1 |-> w[i]] = Append([i \in 1 .. n |-> w[i]], w[n + 1])
<1> DEFINE r == [i \in 1 .. n |-> w[i]]
           q == [i \in 1 .. n + 1 |-> w[i]]
           a == Append(r, w[n + 1])
<1>1. r \in Seq(T) /\ q \in Seq(T) /\ w[n + 1] \in T /\ Len(r) = n /\ Len(q) = n + 1
  OBVIOUS
<1>2. a \in Seq(T) /\ Len(a) = n + 1 /\ a[n + 1] = w[n + 1] /\ \A i \in 1 .. n : a[i] = r[i]
  <2> HIDE DEF r
  <2> QED
    BY <1>1, AppendProperties
<1>3. \A i \in 1 .. n + 1 : a[i] = q[i]
  <2> SUFFICES ASSUME NEW i \in 1 .. n + 1 PROVE a[i] = q[i]
    OBVIOUS
  <2>1. CASE i = n + 1
    <3>1. q[i] = w[n + 1]
      BY <2>1
    <3> HIDE DEF a, q
    <3> QED
      BY <1>2, <2>1, <3>1
  <2>2. CASE i # n + 1
    <3>1. i \in 1 .. n /\ r[i] = w[i] /\ q[i] = w[i]
      BY <2>2
    <3> HIDE DEF a, q, r
    <3> QED
      BY <1>2, <3>1
  <2> QED
    BY <2>1, <2>2
<1>4. DOMAIN a = 1 .. n + 1 /\ a = [i \in 1 .. n + 1 |-> a[i]]
  <2> HIDE DEF a
  <2> QED
    BY <1>2, LenProperties
<1> HIDE DEF a
<1>5. a = q
  BY <1>3, <1>4
<1> QED
  BY <1>5 DEF a

(* What the rules ask for several times is edited once. *)
LEMMA DedupRepeated ==
    ASSUME NEW E, NEW resource, NEW d \in Seq(E),
           \A j \in 1 .. Len(d) : \A i \in 1 .. Len(d) : i < j => d[i] # d[j],
           \A e \in E : Cardinality(Askers(resource, e)) \in Nat \ {0}
    PROVE  Dedup(Repeated(resource, d)) = d
<1> DEFINE copies == [i \in 1 .. Len(d) |-> CopiesOf(resource, d[i])]
           N == Len(d)
           c(n) == [i \in 1 .. n |-> d[i]]
           p(n) == [i \in 1 .. n |-> copies[i]]
           R(n) == FlattenSeq(p(n))
           Good(n) == /\ R(n) \in Seq(E) /\ Dedup(R(n)) = c(n)
                      /\ n = 0 => R(n) = <<>>
                      /\ n > 0 => EndsWith(R(n), d[n])
           P == {n \in Nat : n <= N => Good(n)}
<1>1. N \in Nat /\ d = c(N) /\ DOMAIN d = 1 .. N /\ \A i \in 1 .. N : d[i] \in E
  BY LenProperties
<1>2. \A i \in 1 .. N : copies[i] \in Seq(E)
  <2> SUFFICES ASSUME NEW i \in 1 .. N PROVE CopiesOf(resource, d[i]) \in Seq(E)
    OBVIOUS
  <2>1. d[i] \in E /\ Cardinality(Askers(resource, d[i])) \in Nat
    BY <1>1
  <2> DEFINE k == Cardinality(Askers(resource, d[i]))
             e == d[i]
  <2>2. CopiesOf(resource, e) = [j \in 1 .. k |-> e]
    BY DEF CopiesOf
  <2>3. k \in Nat /\ e \in E
    BY <2>1
  <2> HIDE DEF k, e
  <2>4. CopiesOf(resource, e) \in Seq(E)
    BY <2>2, <2>3
  <2> QED
    BY <2>4 DEF e
<1>3. Repeated(resource, d) = R(N)
  <2>1. p(N) = [i \in DOMAIN d |-> CopiesOf(resource, d[i])]
    BY <1>1
  <2> QED
    BY <2>1 DEF Repeated
<1>4. 0 \in P
  <2>1. p(0) = <<>> /\ c(0) = <<>>
    OBVIOUS
  <2>2. R(0) = <<>>
    BY <2>1, FlattenEmpty
  <2> HIDE DEF R, c
  <2>3. R(0) \in Seq(E) /\ Dedup(R(0)) = c(0)
    BY <2>1, <2>2, DedupEmpty, EmptySeq
  <2>4. ~(0 > 0)
    OBVIOUS
  <2>5. Good(0)
    BY <2>2, <2>3, <2>4, Zenon
  <2> HIDE DEF Good
  <2> QED
    BY <2>5
<1>5. ASSUME NEW n \in Nat, n \in P PROVE n + 1 \in P
  <2> SUFFICES ASSUME n + 1 <= N PROVE Good(n + 1)
    OBVIOUS
  <2> DEFINE e == d[n + 1]
             k == Cardinality(Askers(resource, e))
  <2>1. Good(n) /\ n + 1 \in 1 .. N
    BY <1>1, <1>5
  <2>2. e \in E /\ k \in Nat \ {0}
    BY <1>1, <2>1
  <2>3. p(n + 1) = Append(p(n), copies[n + 1])
    <3>1. \A i \in 1 .. n + 1 : copies[i] \in Seq(E)
      BY <1>1, <1>2, <2>1
    <3> HIDE DEF copies
    <3> QED
      BY <3>1, Prefix
  <2>4. p(n) \in Seq(Seq(E)) /\ copies[n + 1] \in Seq(E)
    <3>1. \A i \in 1 .. n : copies[i] \in Seq(E)
      BY <1>1, <1>2, <2>1
    <3>2. copies[n + 1] \in Seq(E)
      BY <1>2, <2>1
    <3> HIDE DEF copies
    <3> QED
      BY <3>1, <3>2
  <2>5. copies[n + 1] = Copies(k, e)
    <3>1. copies[n + 1] = CopiesOf(resource, e)
      BY <2>1
    <3> QED
      BY <3>1 DEF CopiesOf, Copies
  <2>6. R(n + 1) = R(n) \o copies[n + 1]
    <3> HIDE DEF p, copies
    <3> QED
      BY <2>3, <2>4, FlattenAppend
  <2>7. c(n + 1) = Append(c(n), e)
    <3>1. \A i \in 1 .. n + 1 : d[i] \in E
      BY <1>1, <2>1
    <3> QED
      BY <3>1, Prefix
  <2>8. ~EndsWith(R(n), e)
    <3>1. CASE n = 0
      <4> HIDE DEF R
      <4> QED
        BY <2>1, <3>1 DEF EndsWith
    <3>2. CASE n # 0
      <4>1. n > 0 /\ n \in 1 .. N /\ n < n + 1
        BY <1>1, <2>1, <3>2
      <4>2. d[n] # e
        BY <2>1, <4>1
      <4>3. EndsWith(R(n), d[n])
        BY <2>1, <4>1, Zenon
      <4> HIDE DEF R
      <4> QED
        BY <4>2, <4>3 DEF EndsWith
    <3> QED
      BY <3>1, <3>2
  <2> DEFINE s == R(n)
  <2>9. s \in Seq(E) /\ Dedup(s) = c(n) /\ ~EndsWith(s, e)
    BY <2>1, <2>8, Zenon
  <2> HIDE DEF s, e, k
  <2> DEFINE t == s \o Copies(k, e)
  <2>10. Dedup(t) = Append(Dedup(s), e) /\ t \in Seq(E) /\ EndsWith(t, e)
    <3>1. AddsOnce(t, s, e, E)
      BY <2>2, <2>9, DedupCopies
    <3> HIDE DEF t
    <3> QED
      BY <3>1 DEF AddsOnce
  <2>11. R(n + 1) = t
    BY <2>5, <2>6, Zenon DEF s
  <2>12. Dedup(R(n + 1)) = c(n + 1)
    BY <2>7, <2>9, <2>10, <2>11, Zenon
  <2>13. n + 1 # 0
    OBVIOUS
  <2> HIDE DEF t
  <2>14. R(n + 1) \in Seq(E) /\ EndsWith(R(n + 1), d[n + 1])
    BY <2>10, <2>11, Zenon DEF e
  <2> HIDE DEF R, c
  <2> QED
    BY <2>12, <2>13, <2>14
<1>6. N \in P
  <2>1. Nat \subseteq P
    <3> HIDE DEF P
    <3> QED
      BY <1>4, <1>5, Induction
  <2> HIDE DEF P
  <2> QED
    BY <1>1, <2>1
<1>7. Dedup(R(N)) = c(N)
  <2>1. Good(N)
    <3> HIDE DEF Good
    <3> QED
      BY <1>1, <1>6
  <2> QED
    BY <2>1, Zenon
<1> QED
  BY <1>1, <1>3, <1>7, Zenon

(* So does CollectEdits, which lists what the rules ask for and dedups it.  *)
LEMMA CollectedEdits ==
    ASSUME NEW resource, EditsOf(resource) \subseteq EditRecords, IsFiniteSet(EditsOf(resource)),
           \A e \in EditsOf(resource) : IsFiniteSet(Askers(resource, e))
    PROVE  /\ CollectEdits(resource) \in Seq(EditsOf(resource))
           /\ InOrder(CollectEdits(resource), Len(CollectEdits(resource)))
           /\ Range(CollectEdits(resource)) = EditsOf(resource)
<1> DEFINE E == EditsOf(resource)
           d == EditsByRange(resource)
<1>1. d \in Seq(E) /\ InOrder(d, Len(d)) /\ Range(d) = E
  BY ListedEdits
<1>2. \A j \in 1 .. Len(d) : \A i \in 1 .. Len(d) : i < j => d[i] # d[j]
  <2> HIDE DEF d
  <2> QED
    BY <1>1 DEF InOrder
<1>3. ASSUME NEW e \in E PROVE Cardinality(Askers(resource, e)) \in Nat \ {0}
  <2>1. PICK f \in Features : \E site \in resource.sites[f] : e \in site.edits
    BY DEF EditsOf
  <2>2. PICK site \in resource.sites[f] : e \in site.edits
    BY <2>1
  <2>3. <<f, site>> \in Askers(resource, e)
    BY <2>2 DEF Askers
  <2>4. IsFiniteSet(Askers(resource, e))
    OBVIOUS
  <2> QED
    BY <2>3, <2>4, FS_CardinalityType, FS_EmptySet
<1>4. Dedup(Repeated(resource, d)) = d
  <2> HIDE DEF d, E
  <2> QED
    BY <1>1, <1>2, <1>3, DedupRepeated
<1>5. CollectEdits(resource) = d
  BY <1>4 DEF CollectEdits
<1> QED
  BY <1>1, <1>5

(***************************************************************************)
(* edit_conflicts looks at neighbours only, and that is enough.            *)
(***************************************************************************)
Ordered(s) == \A j \in 1 .. Len(s) : \A i \in 1 .. Len(s) : i < j => s[i].hi <= s[j].lo

LEMMA NeighboursSuffice ==
    ASSUME NEW E, E \subseteq EditRecords, \A e \in E : e.lo < e.hi,
           NEW s \in Seq(E), ~EditConflicts(s)
    PROVE  Ordered(s)
<1> DEFINE n == Len(s)
           P == {j \in Nat : j \in 1 .. n => \A i \in 1 .. n : i < j => s[i].hi <= s[j].lo}
<1>1. n \in Nat
  BY LenProperties
<1>2. \A i \in 1 .. n : s[i].lo \in Nat /\ s[i].hi \in Nat /\ s[i].lo < s[i].hi
  <2>1. \A i \in 1 .. n : s[i] \in E
    BY ElementOfSeq
  <2> QED
    BY <2>1 DEF EditRecords
<1>3. \A i \in 1 .. n - 1 : ~(s[i + 1].lo < s[i].hi)
  BY DEF EditConflicts
<1> HIDE DEF n
<1>4. 0 \in P
  OBVIOUS
<1>5. ASSUME NEW j \in Nat, j \in P PROVE j + 1 \in P
  <2> SUFFICES ASSUME j + 1 \in 1 .. n, NEW i \in 1 .. n, i < j + 1
               PROVE  s[i].hi <= s[j + 1].lo
    OBVIOUS
  <2>1. j \in 1 .. n /\ j \in 1 .. n - 1 /\ i <= j
    BY <1>1
  <2>2. s[j].hi <= s[j + 1].lo
    BY <1>2, <1>3, <2>1
  <2>3. CASE i = j
    BY <2>2, <2>3
  <2>4. CASE i # j
    <3>1. s[i].hi <= s[j].lo
      BY <1>5, <2>1, <2>4
    <3> HIDE DEF P
    <3> QED
      BY <1>2, <2>1, <2>2, <3>1
  <2> QED
    BY <2>3, <2>4
<1>6. Nat \subseteq P
  <2> HIDE DEF P
  <2> QED
    BY <1>4, <1>5, Induction
<1>7. \A j \in 1 .. n : \A i \in 1 .. n : i < j => s[i].hi <= s[j].lo
  BY <1>1, <1>6
<1> QED
  BY <1>7 DEF Ordered, n

LEMMA ConflictsOverlap ==
    ASSUME NEW E, E \subseteq EditRecords, \A e \in E : e.lo < e.hi,
           NEW s \in Seq(E), InOrder(s, Len(s)), EditConflicts(s)
    PROVE  \E a, b \in E : Overlap(a, b)
<1>1. PICK i \in 1 .. Len(s) - 1 : s[i + 1].lo < s[i].hi
  BY DEF EditConflicts
<1>2. Len(s) \in Nat
  BY LenProperties
<1>3. i \in 1 .. Len(s) /\ i + 1 \in 1 .. Len(s) /\ i < i + 1
  BY <1>2
<1>4. s[i] \in E /\ s[i + 1] \in E
  BY <1>3, ElementOfSeq
<1>5. s[i] # s[i + 1] /\ ~Before(s[i + 1], s[i])
  BY <1>3 DEF InOrder
<1>6. s[i].lo \in Nat /\ s[i + 1].lo \in Nat /\ s[i + 1].hi \in Nat /\ s[i + 1].lo < s[i + 1].hi
  BY <1>4 DEF EditRecords
<1>7. s[i].lo < s[i + 1].hi
  BY <1>5, <1>6 DEF Before
<1>8. Overlap(s[i], s[i + 1])
  BY <1>1, <1>5, <1>7 DEF Overlap
<1> QED
  BY <1>4, <1>8

(***************************************************************************)
(* apply_sorted_edits.  Simultaneous joins one piece of text for each byte *)
(* of the original: the byte itself unless an edit covers it, after the    *)
(* text of the edit that starts before it.                                 *)
(***************************************************************************)
PieceOf(content, edits, i) ==
    LET at == {e \in edits : e.lo = i - 1}
    IN  (IF at = {} THEN <<>> ELSE (CHOOSE e \in at : TRUE).text)
        \o (IF \E e \in edits : e.lo < i /\ i <= e.hi THEN <<>> ELSE <<content[i]>>)

Pieces(content, edits) == [i \in 1 .. Len(content) |-> PieceOf(content, edits, i)]

Applicable(E, n) == /\ E \subseteq EditRecords
                    /\ \A e \in E : e.lo < e.hi /\ e.hi <= n
                    /\ \A a, b \in E : a # b => a.hi <= b.lo \/ b.hi <= a.lo

LEMMA PieceTypes ==
    ASSUME NEW content \in Seq(STRING), NEW E, Applicable(E, Len(content)),
           NEW i \in 1 .. Len(content)
    PROVE  /\ <<content[i]>> \in Seq(STRING)
           /\ \A e \in E : e.text \in Seq(STRING)
<1>1. content[i] \in STRING
  BY ElementOfSeq
<1> QED
  BY <1>1 DEF Applicable, EditRecords

LEMMA PlainPiece ==
    ASSUME NEW content \in Seq(STRING), NEW E, Applicable(E, Len(content)),
           NEW i \in 1 .. Len(content), ~\E e \in E : e.lo < i /\ i <= e.hi
    PROVE  Pieces(content, E)[i] = <<content[i]>>
<1> DEFINE at == {e \in E : e.lo = i - 1}
<1>1. at = {}
  <2> SUFFICES ASSUME NEW e \in E, e.lo = i - 1 PROVE FALSE
    OBVIOUS
  <2>1. e.lo \in Nat /\ e.hi \in Nat /\ e.lo < e.hi /\ i \in Int
    BY LenProperties DEF Applicable, EditRecords
  <2>2. e.lo < i /\ i <= e.hi
    BY <2>1
  <2> QED
    BY <2>2
<1>2. Pieces(content, E)[i] = <<>> \o <<content[i]>>
  BY <1>1 DEF Pieces, PieceOf
<1>3. <<content[i]>> \in Seq(STRING)
  BY PieceTypes
<1> QED
  BY <1>2, <1>3, ConcatEmptySeq

LEMMA EditedPiece ==
    ASSUME NEW content \in Seq(STRING), NEW E, Applicable(E, Len(content)),
           NEW i \in 1 .. Len(content), NEW e \in E, e.lo = i - 1
    PROVE  Pieces(content, E)[i] = e.text
<1> DEFINE at == {x \in E : x.lo = i - 1}
<1>0. e.lo \in Nat /\ e.hi \in Nat /\ e.lo < e.hi /\ i \in Int
  BY LenProperties DEF Applicable, EditRecords
<1>1. at = {e}
  <2> SUFFICES ASSUME NEW x \in E, x.lo = i - 1, x # e PROVE FALSE
    OBVIOUS
  <2>1. x.hi \in Nat /\ x.lo < x.hi
    BY DEF Applicable, EditRecords
  <2>2. x.hi <= e.lo \/ e.hi <= x.lo
    BY DEF Applicable
  <2> QED
    BY <1>0, <2>1, <2>2
<1>2. (CHOOSE x \in at : TRUE) = e /\ at # {}
  BY <1>1
<1>3. \E x \in E : x.lo < i /\ i <= x.hi
  BY <1>0
<1>4. Pieces(content, E)[i] = e.text \o <<>>
  BY <1>2, <1>3 DEF Pieces, PieceOf
<1>5. e.text \in Seq(STRING)
  BY PieceTypes
<1> QED
  BY <1>4, <1>5, ConcatEmptySeq

LEMMA CoveredPiece ==
    ASSUME NEW content \in Seq(STRING), NEW E, Applicable(E, Len(content)),
           NEW i \in 1 .. Len(content), NEW e \in E, e.lo < i - 1, i <= e.hi
    PROVE  Pieces(content, E)[i] = <<>>
<1> DEFINE at == {x \in E : x.lo = i - 1}
<1>0. e.lo \in Nat /\ e.hi \in Nat /\ i \in Int
  BY LenProperties DEF Applicable, EditRecords
<1>1. at = {}
  <2> SUFFICES ASSUME NEW x \in E, x.lo = i - 1 PROVE FALSE
    OBVIOUS
  <2>1. x.hi \in Nat /\ x.lo < x.hi /\ x # e
    BY <1>0 DEF Applicable, EditRecords
  <2>2. x.hi <= e.lo \/ e.hi <= x.lo
    BY <2>1 DEF Applicable
  <2> QED
    BY <1>0, <2>1, <2>2
<1>2. e.lo < i /\ i <= e.hi
  BY <1>0
<1>3. Pieces(content, E)[i] = <<>> \o <<>>
  BY <1>1, <1>2 DEF Pieces, PieceOf
<1>4. <<>> \in Seq(STRING)
  BY EmptySeq
<1> QED
  BY <1>3, <1>4, ConcatEmptySeq

LEMMA PiecesType ==
    ASSUME NEW content \in Seq(STRING), NEW E, Applicable(E, Len(content))
    PROVE  Pieces(content, E) \in Seq(Seq(STRING)) /\ Len(Pieces(content, E)) = Len(content)
<1> DEFINE n == Len(content)
           p == Pieces(content, E)
<1>1. n \in Nat
  BY LenProperties
<1>2. ASSUME NEW i \in 1 .. n PROVE p[i] \in Seq(STRING)
  <2>1. CASE ~\E e \in E : e.lo < i /\ i <= e.hi
    BY <2>1, PlainPiece, PieceTypes
  <2>2. CASE \E e \in E : e.lo < i /\ i <= e.hi
    <3>1. PICK e \in E : e.lo < i /\ i <= e.hi
      BY <2>2
    <3>2. e.lo \in Nat /\ i \in Nat
      BY <1>1 DEF Applicable, EditRecords
    <3>3. CASE e.lo = i - 1
      BY <3>3, EditedPiece, PieceTypes
    <3>4. CASE e.lo # i - 1
      <4>1. e.lo < i - 1
        BY <3>1, <3>2, <3>4
      <4> QED
        BY <3>1, <4>1, CoveredPiece, EmptySeq
    <3> QED
      BY <3>3, <3>4
  <2> QED
    BY <2>1, <2>2
<1>3. p = [i \in 1 .. n |-> PieceOf(content, E, i)]
  BY DEF Pieces
<1> HIDE DEF n, p
<1>4. \A i \in 1 .. n : PieceOf(content, E, i) \in Seq(STRING)
  BY <1>2, <1>3
<1> DEFINE Q == Seq(STRING)
<1>5. p \in Seq(Q) /\ Len(p) = n
  <2> HIDE DEF Q
  <2>1. p \in [1 .. n -> Q]
    BY <1>3, <1>4 DEF Q
  <2> QED
    BY <1>1, <2>1
<1> QED
  BY <1>5 DEF n, p

(* The pieces of an edit's range join to its text, those of a stretch      *)
(* without edits to the stretch.                                           *)
EditJoined(f, e) == f[e.hi] = f[e.lo] \o e.text

Clear(E, a, b) == \A e \in E : e.hi <= a \/ b <= e.lo

LEMMA EditRun ==
    ASSUME NEW content \in Seq(STRING), NEW E, Applicable(E, Len(content)),
           NEW f, IsFlattening(f, Len(content), Pieces(content, E), Seq(STRING)),
           NEW e \in E
    PROVE  EditJoined(f, e)
<1> DEFINE n == Len(content)
           p == Pieces(content, E)
           m == e.lo + 1
<1>1. n \in Nat
  BY LenProperties
<1>2. e.lo \in Nat /\ e.hi \in Nat /\ e.lo < e.hi /\ e.hi <= n
  BY DEF Applicable, EditRecords
<1>3. m \in 1 .. n /\ m \in 0 .. n /\ e.lo = m - 1 /\ e.hi \in m .. n
  BY <1>1, <1>2
<1>4. p[m] = e.text
  BY <1>3, EditedPiece
<1>5. f[m] = f[e.lo] \o p[m]
  BY <1>3 DEF IsFlattening
<1>6. ASSUME NEW i \in m + 1 .. e.hi PROVE p[i] = <<>>
  <2>1. i \in 1 .. n /\ e.lo < i - 1 /\ i <= e.hi
    BY <1>1, <1>2
  <2> QED
    BY <2>1, CoveredPiece
<1>7. f[e.hi] = f[m]
  <2>1. IsFlattening(f, n, p, Seq(STRING))
    OBVIOUS
  <2> DEFINE b == e.hi
  <2>2. b \in m .. n /\ \A i \in m + 1 .. b : p[i] = <<>>
    BY <1>3, <1>6
  <2> HIDE DEF n, p, m, b
  <2>3. f[b] = f[m]
    BY <1>1, <1>3, <2>1, <2>2, FlatteningStays
  <2> QED
    BY <2>3 DEF b
<1> QED
  BY <1>4, <1>5, <1>7 DEF EditJoined

LEMMA GapRun ==
    ASSUME NEW content \in Seq(STRING), NEW E, Applicable(E, Len(content)),
           NEW f, IsFlattening(f, Len(content), Pieces(content, E), Seq(STRING)),
           NEW a \in 0 .. Len(content), NEW b \in a .. Len(content),
           Clear(E, a, b)
    PROVE  Extends(f, content, a, b)
<1> DEFINE n == Len(content)
           p == Pieces(content, E)
<1>1. n \in Nat /\ n <= Len(content)
  BY LenProperties
<1>2. ASSUME NEW i \in a + 1 .. b PROVE p[i] = <<content[i]>>
  <2>1. i \in 1 .. n /\ a < i /\ i <= b /\ i \in Nat /\ a \in Nat /\ b \in Nat
    BY <1>1
  <2>2. ASSUME NEW e \in E, e.lo < i, i <= e.hi PROVE FALSE
    <3>1. e.lo \in Nat /\ e.hi \in Nat
      BY DEF Applicable, EditRecords
    <3> QED
      BY <2>1, <2>2, <3>1 DEF Clear
  <2> QED
    BY <2>1, <2>2, PlainPiece
<1>3. IsFlattening(f, n, p, Seq(STRING)) /\ a \in 0 .. n /\ b \in a .. n
  OBVIOUS
<1>4. Copied(p, content, a, b)
  BY <1>2 DEF Copied
<1> HIDE DEF n, p
<1>5. n \in Nat
  BY <1>1
<1> QED
  BY <1>1, <1>3, <1>4, <1>5, FlatteningCopies

(***************************************************************************)
(* Where the edits are applied up to after the n-th of a list.             *)
(***************************************************************************)
EndOf(s, n) == IF n = 0 THEN 0 ELSE s[n].hi

SortedEdits(s, E) == s \in Seq(E) /\ Range(s) = E /\ Ordered(s)

LEMMA EndsAreApart ==
    ASSUME NEW L \in Nat, NEW E, Applicable(E, L), NEW s, SortedEdits(s, E)
    PROVE  /\ Len(s) \in Nat
           /\ \A i \in 1 .. Len(s) : s[i] \in E
           /\ \A n \in 0 .. Len(s) : EndOf(s, n) \in 0 .. L
           /\ \A n \in 1 .. Len(s) : \A e \in E : e.hi <= EndOf(s, n - 1) \/ s[n].lo <= e.lo
           /\ \A n \in 1 .. Len(s) : EndOf(s, n - 1) <= s[n].lo
           /\ \A e \in E : e.hi <= EndOf(s, Len(s))
<1> DEFINE N == Len(s)
<1>1. N \in Nat /\ \A i \in 1 .. N : s[i] \in E
  BY LenProperties, ElementOfSeq DEF SortedEdits
<1>2. \A e \in E : e.lo \in Nat /\ e.hi \in Nat /\ e.lo < e.hi /\ e.hi <= L
  BY DEF Applicable, EditRecords
<1>3. \A e \in E : \E i \in 1 .. N : e = s[i]
  BY RangeEquality DEF SortedEdits
<1>4. \A j \in 1 .. N : \A i \in 1 .. N : i < j => s[i].hi <= s[j].lo
  BY DEF SortedEdits, Ordered
<1> HIDE DEF N
<1>5. \A n \in 0 .. N : EndOf(s, n) \in 0 .. L
  BY <1>1, <1>2 DEF EndOf
<1>6. ASSUME NEW n \in 1 .. N PROVE EndOf(s, n - 1) <= s[n].lo
  <2>1. CASE n = 1
    BY <1>1, <1>2, <2>1 DEF EndOf
  <2>2. CASE n # 1
    <3>1. n - 1 \in 1 .. N /\ n - 1 # 0 /\ n - 1 < n
      BY <1>1, <2>2
    <3> QED
      BY <1>4, <3>1 DEF EndOf
  <2> QED
    BY <2>1, <2>2
<1>7. ASSUME NEW n \in 0 .. N, NEW i \in 1 .. n PROVE s[i].hi <= EndOf(s, n)
  <2>1. n # 0 /\ n \in 1 .. N /\ i \in 1 .. N
    BY <1>1
  <2>2. CASE i = n
    BY <1>1, <1>2, <2>1, <2>2 DEF EndOf
  <2>3. CASE i # n
    <3>1. s[i].hi <= s[n].lo
      BY <1>4, <2>1, <2>3
    <3> QED
      BY <1>1, <1>2, <2>1, <3>1 DEF EndOf
  <2> QED
    BY <2>2, <2>3
<1>8. ASSUME NEW n \in 1 .. N, NEW e \in E PROVE e.hi <= EndOf(s, n - 1) \/ s[n].lo <= e.lo
  <2>1. PICK i \in 1 .. N : e = s[i]
    BY <1>3
  <2>2. CASE i < n
    <3>1. n - 1 \in 0 .. N /\ i \in 1 .. n - 1
      BY <1>1, <2>2
    <3> QED
      BY <1>7, <2>1, <3>1
  <2>3. CASE i = n
    BY <1>1, <1>2, <2>1, <2>3
  <2>4. CASE i > n
    <3>1. s[n].hi <= s[i].lo
      BY <1>4, <2>4
    <3> QED
      BY <1>1, <1>2, <2>1, <3>1
  <2> QED
    BY <1>1, <2>2, <2>3, <2>4
<1>9. ASSUME NEW e \in E PROVE e.hi <= EndOf(s, N)
  <2>1. PICK i \in 1 .. N : e = s[i]
    BY <1>3
  <2>2. N \in 0 .. N
    BY <1>1
  <2> QED
    BY <1>7, <2>1, <2>2
<1> QED
  BY <1>1, <1>5, <1>6, <1>8, <1>9 DEF N

LEMMA AppliedEdits ==
    ASSUME NEW content \in Seq(STRING), NEW E, Applicable(E, Len(content)),
           NEW s, SortedEdits(s, E), \A e \in E : ValidRange(content, e)
    PROVE  /\ ApplySortedEdits(content, s).ok
           /\ ApplySortedEdits(content, s).output = Simultaneous(content, E)
<1> DEFINE L == Len(content)
           N == Len(s)
           p == Pieces(content, E)
<1>1. L \in Nat
  BY LenProperties
<1>2. p \in Seq(Seq(STRING)) /\ Len(p) = L
  BY PiecesType
<1>3. PICK f : IsFlattening(f, L, p, Seq(STRING)) /\ FlattenSeq(p) = f[L]
  BY <1>2, FlattenOf
<1>4. Simultaneous(content, E) = f[L]
  BY <1>3 DEF Simultaneous, Pieces, PieceOf
<1>5. /\ N \in Nat
      /\ \A i \in 1 .. N : s[i] \in E
      /\ \A n \in 0 .. N : EndOf(s, n) \in 0 .. L
      /\ \A n \in 1 .. N : \A e \in E : e.hi <= EndOf(s, n - 1) \/ s[n].lo <= e.lo
      /\ \A n \in 1 .. N : EndOf(s, n - 1) <= s[n].lo
      /\ \A e \in E : e.hi <= EndOf(s, N)
  BY <1>1, EndsAreApart
<1> DEFINE Result(n) == [ok |-> TRUE, end |-> EndOf(s, n), output |-> f[EndOf(s, n)]]
(* Applying the n-th edit. *)
<1>6. ASSUME NEW n \in 1 .. N
      PROVE  ApplyEdit(content, Result(n - 1), s[n]) = Result(n)
  <2> DEFINE a == EndOf(s, n - 1)
             e == s[n]
  <2>1. n - 1 \in 0 .. N /\ n # 0
    BY <1>5
  <2>2. e \in E /\ a \in 0 .. L /\ a <= e.lo /\ e.lo \in Nat /\ e.hi \in Nat /\ e.lo < e.hi /\ e.hi <= L
    BY <1>5, <2>1 DEF Applicable, EditRecords
  <2>3. e.lo \in a .. L
    BY <1>1, <2>2
  <2>4. Clear(E, a, e.lo)
    BY <1>5 DEF Clear
  <2> HIDE DEF a, e
  <2>a. Extends(f, content, a, e.lo)
    BY <1>3, <2>2, <2>3, <2>4, GapRun
  <2>b. EditJoined(f, e)
    BY <1>3, <2>2, EditRun
  <2>5. f[e.lo] = f[a] \o SubSeq(content, a + 1, e.lo)
    BY <2>a DEF Extends
  <2>6. f[e.hi] = f[e.lo] \o e.text
    BY <2>b DEF EditJoined
  <2>7. ValidRange(content, e) /\ ~(e.lo < a)
    BY <1>1, <2>2
  <2>8. f[e.hi] = f[a] \o SubSeq(content, a + 1, e.lo) \o e.text
    BY <2>5, <2>6
  <2> DEFINE r == [ok |-> TRUE, end |-> a, output |-> f[a]]
  <2>9. ApplyEdit(content, r, e)
          = [ok |-> TRUE, end |-> e.hi, output |-> f[a] \o SubSeq(content, a + 1, e.lo) \o e.text]
    BY <2>7 DEF ApplyEdit
  <2>10. ApplyEdit(content, r, e) = [ok |-> TRUE, end |-> e.hi, output |-> f[e.hi]]
    BY <2>8, <2>9
  <2>11. Result(n - 1) = r
    BY DEF a
  <2>12. EndOf(s, n) = e.hi
    BY <2>1 DEF EndOf, e
  <2> HIDE DEF r
  <2> QED
    BY <2>10, <2>11, <2>12 DEF e
<1> HIDE DEF L, N, p
<1> DEFINE None == [ok |-> TRUE, end |-> 0, output |-> <<>>]
           Applies(g) == g = [n \in 0 .. N |-> IF n = 0 THEN None
                                               ELSE ApplyEdit(content, g[n - 1], s[n])]
           h == [n \in 0 .. N |-> Result(n)]
<1>7. Result(0) = None
  <2>1. f[0] = <<>>
    BY <1>3 DEF IsFlattening
  <2> QED
    BY <2>1 DEF EndOf
<1>8. Applies(h)
  <2> HIDE DEF None, Result
  <2>1. ASSUME NEW n \in 0 .. N
        PROVE  Result(n) = IF n = 0 THEN None ELSE ApplyEdit(content, h[n - 1], s[n])
    <3>1. CASE n = 0
      BY <1>7, <3>1
    <3>2. CASE n # 0
      <4>1. n \in 1 .. N /\ n - 1 \in 0 .. N
        BY <1>5, <3>2
      <4>2. h[n - 1] = Result(n - 1)
        BY <4>1
      <4> QED
        BY <1>6, <3>2, <4>1, <4>2
    <3> QED
      BY <3>1, <3>2
  <2> QED
    BY <2>1
<1> DEFINE done == CHOOSE g : Applies(g)
<1>9. Applies(done)
  <2> HIDE DEF Applies, h
  <2> QED
    BY <1>8
<1>10. ApplySortedEdits(content, s)
         = [ok |-> done[N].ok, output |-> done[N].output \o SubSeq(content, done[N].end + 1, L)]
  BY DEF ApplySortedEdits, N, L
<1> HIDE DEF done
<1> DEFINE R == {n \in Nat : n <= N => done[n] = Result(n)}
<1>11. 0 \in R
  <2> HIDE DEF Result, None
  <2> QED
    BY <1>5, <1>7, <1>9
<1>12. ASSUME NEW n \in Nat, n \in R PROVE n + 1 \in R
  <2> SUFFICES ASSUME n + 1 <= N PROVE done[n + 1] = Result(n + 1)
    <3> HIDE DEF Result
    <3> QED
      OBVIOUS
  <2>1. n + 1 \in 1 .. N /\ n + 1 \in 0 .. N /\ n + 1 # 0 /\ (n + 1) - 1 = n /\ n <= N
    BY <1>5
  <2> HIDE DEF Result, None
  <2>2. done[n + 1] = ApplyEdit(content, done[(n + 1) - 1], s[n + 1])
    BY <1>9, <2>1
  <2>3. done[n] = Result(n)
    BY <1>12, <2>1
  <2>4. ApplyEdit(content, Result((n + 1) - 1), s[n + 1]) = Result(n + 1)
    BY <1>6, <2>1
  <2> HIDE DEF R, Applies
  <2> QED
    BY <2>1, <2>2, <2>3, <2>4
<1>13. done[N] = Result(N)
  <2>1. Nat \subseteq R
    <3> HIDE DEF R
    <3> QED
      BY <1>11, <1>12, Induction
  <2> HIDE DEF Result
  <2> QED
    BY <1>5, <2>1
<1>14. f[L] = f[EndOf(s, N)] \o SubSeq(content, EndOf(s, N) + 1, L)
  <2> DEFINE a == EndOf(s, N)
  <2>1. a \in 0 .. L /\ L \in a .. L /\ Clear(E, a, L)
    BY <1>1, <1>5 DEF Clear
  <2> HIDE DEF a
  <2>2. Extends(f, content, a, L)
    BY <1>3, <2>1, GapRun DEF L, p
  <2> QED
    BY <2>2 DEF a, Extends
<1>15. done[N].ok /\ done[N].end = EndOf(s, N) /\ done[N].output = f[EndOf(s, N)]
  BY <1>13
<1> HIDE DEF Result
<1>16. ApplySortedEdits(content, s)
         = [ok |-> TRUE, output |-> f[EndOf(s, N)] \o SubSeq(content, EndOf(s, N) + 1, L)]
  <2>1. done[N].ok = TRUE
    BY <1>13 DEF Result
  <2> QED
    BY <1>10, <1>15, <2>1
<1>17. ApplySortedEdits(content, s) = [ok |-> TRUE, output |-> f[L]]
  BY <1>14, <1>16
<1>18. ApplySortedEdits(content, s).ok /\ ApplySortedEdits(content, s).output = f[L]
  BY <1>17
<1> QED
  BY <1>4, <1>18

(***************************************************************************)
(* finish, of the resources that scan collects.                            *)
(***************************************************************************)
WellFormed(resource) ==
    /\ resource.content \in Seq(STRING)
    /\ EditsOf(resource) \subseteq EditRecords
    /\ IsFiniteSet(EditsOf(resource))
    /\ \A e \in EditsOf(resource) : IsFiniteSet(Askers(resource, e))

Patched(resource) == Simultaneous(resource.content, EditsOf(resource))

LEMMA EditsAreValid ==
    ASSUME NEW resource, ~AnyInvalid(resource.content, resource.sites)
    PROVE  \A e \in EditsOf(resource) : ValidRange(resource.content, e)
BY DEF AnyInvalid, InvalidSite, EditsOf

LEMMA ConflictingResource ==
    ASSUME NEW resource, WellFormed(resource), ~AnyInvalid(resource.content, resource.sites),
           EditConflicts(CollectEdits(resource))
    PROVE  \E a, b \in EditsOf(resource) : Overlap(a, b)
<1> DEFINE E == EditsOf(resource)
           s == CollectEdits(resource)
<1>1. \A e \in E : e.lo < e.hi
  BY EditsAreValid DEF ValidRange
<1>2. E \subseteq EditRecords /\ s \in Seq(E) /\ InOrder(s, Len(s))
  BY CollectedEdits DEF WellFormed
<1> HIDE DEF E, s
<1>3. EditConflicts(s)
  BY DEF s
<1>4. \E a, b \in E : Overlap(a, b)
  BY <1>1, <1>2, <1>3, ConflictsOverlap
<1> QED
  BY <1>4 DEF E

LEMMA PatchedResourceText ==
    ASSUME NEW resource, WellFormed(resource), ~AnyInvalid(resource.content, resource.sites),
           ~EditConflicts(CollectEdits(resource))
    PROVE  LET applied == ApplySortedEdits(resource.content, CollectEdits(resource))
           IN  applied.ok /\ applied.output = Patched(resource)
<1> DEFINE E == EditsOf(resource)
           s == CollectEdits(resource)
           content == resource.content
<1>1. \A e \in E : ValidRange(content, e)
  BY EditsAreValid
<1>2. E \subseteq EditRecords /\ s \in Seq(E) /\ Range(s) = E /\ content \in Seq(STRING)
  BY CollectedEdits DEF WellFormed
<1>3. ~EditConflicts(s)
  OBVIOUS
<1>p. Patched(resource) = Simultaneous(content, E)
  BY DEF Patched
<1> HIDE DEF E, s, content
<1>4. \A e \in E : e.lo < e.hi /\ e.hi <= Len(content)
  BY <1>1 DEF ValidRange
<1>5. Ordered(s)
  BY <1>2, <1>3, <1>4, NeighboursSuffice
<1>6. ASSUME NEW a \in E, NEW b \in E, a # b PROVE a.hi <= b.lo \/ b.hi <= a.lo
  <2>1. Len(s) \in Nat /\ \E i, j \in 1 .. Len(s) : a = s[i] /\ b = s[j]
    BY <1>2, RangeEquality, LenProperties
  <2>2. PICK i \in 1 .. Len(s), j \in 1 .. Len(s) : a = s[i] /\ b = s[j]
    BY <2>1
  <2>3. i < j \/ j < i
    BY <1>6, <2>1, <2>2
  <2> QED
    BY <1>5, <2>2, <2>3 DEF Ordered
<1>7. Applicable(E, Len(content))
  BY <1>2, <1>4, <1>6 DEF Applicable
<1>8. SortedEdits(s, E)
  BY <1>2, <1>5 DEF SortedEdits
<1>9. /\ ApplySortedEdits(content, s).ok
      /\ ApplySortedEdits(content, s).output = Simultaneous(content, E)
  BY <1>1, <1>2, <1>7, <1>8, AppliedEdits
<1> QED
  BY <1>9, <1>p DEF content, s

(* Why a plan may be unsafe, and what one that is not consists of.         *)
Unpatched(resource) ==
    VerificationFails(resource.sites, DetectResource(Patched(resource)), Patched(resource))

Blocked(scanned) ==
    \/ \E f \in Core : ~Found(scanned, f)
    \/ \E k \in DOMAIN scanned :
        \/ AnyInvalid(scanned[k].content, scanned[k].sites)
        \/ \E a, b \in EditsOf(scanned[k]) : Overlap(a, b)
        \/ Unpatched(scanned[k])

Planned(scanned) ==
    [ok |-> TRUE, status |-> InitialStatus(scanned),
     resources |-> [k \in DOMAIN scanned |-> PatchedResource(scanned[k], Patched(scanned[k]))]]

(* The planner blocks a plan only for a reason, and otherwise delivers for *)
(* each resource its text with all its edits made at once, which is seen   *)
(* as patched.                                                             *)
THEOREM FinishIsSound ==
    ASSUME NEW scanned, \A k \in DOMAIN scanned : WellFormed(scanned[k])
    PROVE  \/ Finish(scanned) = BlockedPlan /\ Blocked(scanned)
           \/ /\ Finish(scanned) = Planned(scanned)
              /\ InitialStatus(scanned) # "unsafe"
              /\ \A k \in DOMAIN scanned : ~Unpatched(scanned[k])
<1> DEFINE edits == [k \in DOMAIN scanned |-> CollectEdits(scanned[k])]
           applied == [k \in DOMAIN scanned |-> ApplySortedEdits(scanned[k].content, edits[k])]
           status == InitialStatus(scanned)
           conflict == \E k \in DOMAIN scanned : EditConflicts(edits[k])
           error == \E k \in DOMAIN scanned : ~applied[k].ok
           fails == \E k \in DOMAIN scanned :
                      VerificationFails(scanned[k].sites, DetectResource(applied[k].output),
                                        applied[k].output)
           result == [ok |-> TRUE, status |-> status,
                      resources |-> [k \in DOMAIN scanned |->
                                       PatchedResource(scanned[k], applied[k].output)]]
<1>1. Finish(scanned) = IF status = "unsafe" \/ conflict THEN BlockedPlan
                          ELSE IF error THEN [BlockedPlan EXCEPT !.ok = FALSE]
                          ELSE IF fails THEN BlockedPlan ELSE result
  BY DEF Finish
<1>2. CASE status = "unsafe"
  <2>1. \/ \E f \in Core : ~Found(scanned, f)
        \/ \E k \in DOMAIN scanned : AnyInvalid(scanned[k].content, scanned[k].sites)
    BY <1>2 DEF InitialStatus
  <2>2. Blocked(scanned)
    BY <2>1 DEF Blocked
  <2> QED
    BY <1>1, <1>2, <2>2
<1>3. CASE status # "unsafe"
  <2>1. \A k \in DOMAIN scanned : ~AnyInvalid(scanned[k].content, scanned[k].sites)
    BY <1>3 DEF InitialStatus
  <2>2. CASE conflict
    <3>1. PICK k \in DOMAIN scanned : EditConflicts(CollectEdits(scanned[k]))
      BY <2>2
    <3>2. \E a, b \in EditsOf(scanned[k]) : Overlap(a, b)
      BY <2>1, <3>1, ConflictingResource
    <3>3. Blocked(scanned)
      BY <3>2 DEF Blocked
    <3> HIDE DEF conflict, error, fails, result
    <3> QED
      BY <1>1, <2>2, <3>3
  <2>3. CASE ~conflict
    <3>1. \A k \in DOMAIN scanned : applied[k].ok /\ applied[k].output = Patched(scanned[k])
      <4> TAKE k \in DOMAIN scanned
      <4>1. ~EditConflicts(CollectEdits(scanned[k]))
        BY <2>3
      <4>2. applied[k] = ApplySortedEdits(scanned[k].content, CollectEdits(scanned[k]))
        OBVIOUS
      <4> HIDE DEF applied
      <4> QED
        BY <2>1, <4>1, <4>2, PatchedResourceText
    <3>2. ~error
      BY <3>1
    <3>3. fails <=> \E k \in DOMAIN scanned : Unpatched(scanned[k])
      BY <3>1 DEF Unpatched
    <3>4. result = Planned(scanned)
      <4> HIDE DEF applied
      <4> QED
        BY <3>1 DEF Planned
    <3>5. fails => Blocked(scanned)
      BY <3>3 DEF Blocked
    <3> HIDE DEF conflict, error, fails, result
    <3> QED
      BY <1>1, <1>3, <2>3, <3>2, <3>3, <3>4, <3>5
  <2> QED
    BY <2>2, <2>3
<1> QED
  BY <1>2, <1>3


(***************************************************************************)
(* Reading the archive.                                                    *)
(***************************************************************************)
(* A sum that does not fit is no number, and stays none. *)
LEMMA SumIsExact ==
    ASSUME NEW a \in Nat, NEW b \in Nat
    PROVE  /\ CheckedAdd(a, b) \in Nat
           /\ CheckedAdd(a, b) < U64 => CheckedAdd(a, b) = a + b
           /\ a >= U64 => CheckedAdd(a, b) >= U64
BY WidthAssumption DEF CheckedAdd, NoNumber

(* The data of an archive that opens starts inside it. *)
LEMMA DataInside ==
    ASSUME NEW a, IsArchive(a), OpenHeader(a) = "opened"
    PROVE  DataOffset(a) \in Nat /\ DataOffset(a) <= a.size
BY WidthAssumption DEF OpenHeader, HeaderSizeValid, DataOffset, PicklePrefix, IsArchive

(* Whatever offset and size an entry has, flatten_files lets it pass only  *)
(* if the bytes that read_packed_file asks for lie inside the archive: no  *)
(* sum on the way wraps.                                                   *)
THEOREM ReadsInside ==
    ASSUME NEW a, IsArchive(a), OpenHeader(a) = "opened",
           NEW entry, entry.offset \in 0 .. U64, entry.size \in 0 .. U64,
           ValidEntry(a, entry), ~entry.link, ~entry.unpacked
    PROVE  /\ ReadStart(a, entry) = DataOffset(a) + entry.offset
           /\ ReadStart(a, entry) + entry.size <= a.size
<1> DEFINE start == CheckedAdd(DataOffset(a), entry.offset)
           end == CheckedAdd(start, entry.size)
<1>0. /\ DataOffset(a) \in Nat /\ entry.offset \in Nat /\ entry.size \in Nat
      /\ U64 \in Nat /\ a.size \in Nat /\ a.size < U64
  BY DataInside, WidthAssumption DEF IsArchive
<1>1. end <= a.size
  BY DEF ValidEntry, EntryEnd
<1>2. start \in Nat /\ end \in Nat
  BY <1>0, SumIsExact
<1>3. end = start + entry.size
  <2>1. end < U64
    BY <1>0, <1>1, <1>2
  <2> QED
    BY <1>0, <1>2, <2>1, SumIsExact
<1>4. start = DataOffset(a) + entry.offset
  <2>1. start < U64
    BY <1>0, <1>1, <1>2, <1>3
  <2> QED
    BY <1>0, <2>1, SumIsExact
<1> QED
  BY <1>1, <1>3, <1>4 DEF ReadStart

(* header_json takes no slice outside the pickle, whatever its lengths.    *)
THEOREM HeaderInside ==
    ASSUME NEW a, IsArchive(a)
    PROVE  OpenHeader(a) # "panic"
<1>1. CASE HeaderLengthsValid(a)
  <2>1. ~(PicklePrefix + a.jsonSize > a.headerSize)
    BY <1>1, WidthAssumption DEF HeaderLengthsValid, IsArchive, PicklePrefix
  <2> QED
    BY <2>1 DEF OpenHeader
<1>2. CASE ~HeaderLengthsValid(a)
  BY <1>2 DEF OpenHeader
<1> QED
  BY <1>1, <1>2

(***************************************************************************)
(* Suffixes of paths.                                                      *)
(***************************************************************************)
LEMMA SuffixParts ==
    ASSUME NEW p \in Seq(STRING), NEW s \in PathSuffixes(p)
    PROVE  /\ s \in Seq(STRING) /\ Len(s) \in 1 .. Len(p) /\ s # <<>>
           /\ s = SubSeq(p, Len(p) - Len(s) + 1, Len(p))
           /\ \A i \in 1 .. Len(s) : s[i] = p[Len(p) - Len(s) + i]
<1> DEFINE n == Len(p)
<1>1. n \in Nat
  BY LenProperties
<1>2. PICK k \in 1 .. n : s = SubSeq(p, k, n)
  BY DEF PathSuffixes
<1>3. \A i \in k .. n : p[i] \in STRING
  <2>1. \A i \in k .. n : i \in 1 .. n
    BY <1>1
  <2> QED
    BY <2>1, ElementOfSeq
<1>4. k \in Int /\ n \in Int /\ k <= n
  BY <1>1
<1> HIDE DEF n
<1>5. s \in Seq(STRING) /\ Len(s) = n - k + 1 /\ \A i \in 1 .. n - k + 1 : s[i] = p[k + i - 1]
  BY <1>2, <1>3, <1>4, SubSeqProperties
<1>6. Len(s) \in 1 .. n /\ k = n - Len(s) + 1
  BY <1>1, <1>4, <1>5
<1>7. s # <<>>
  BY <1>6, EmptySeq
<1>8. \A i \in 1 .. Len(s) : s[i] = p[n - Len(s) + i]
  <2> TAKE i \in 1 .. Len(s)
  <2>1. i \in 1 .. n - k + 1 /\ k + i - 1 = n - Len(s) + i
    BY <1>1, <1>4, <1>5
  <2> QED
    BY <1>5, <2>1
<1> QED
  BY <1>2, <1>5, <1>6, <1>7, <1>8 DEF n

LEMMA SuffixFrom ==
    ASSUME NEW p \in Seq(STRING), NEW s \in Seq(STRING), Len(s) \in 1 .. Len(p),
           \A i \in 1 .. Len(s) : s[i] = p[Len(p) - Len(s) + i]
    PROVE  s \in PathSuffixes(p)
<1> DEFINE n == Len(p)
           m == Len(s)
           k == n - m + 1
           t == SubSeq(p, k, n)
<1>1. n \in Nat /\ m \in Nat /\ k \in 1 .. n /\ n - k + 1 = m
  BY LenProperties
<1>2. \A i \in k .. n : p[i] \in STRING
  <2>1. \A i \in k .. n : i \in 1 .. n
    BY <1>1
  <2> QED
    BY <2>1, ElementOfSeq
<1>3. k \in Int /\ n \in Int /\ k <= n
  BY <1>1
<1>4. t \in PathSuffixes(p)
  BY <1>1 DEF PathSuffixes
<1>5. t \in Seq(STRING) /\ Len(t) = n - k + 1 /\ \A i \in 1 .. n - k + 1 : t[i] = p[k + i - 1]
  <2> HIDE DEF n, k
  <2> QED
    BY <1>2, <1>3, SubSeqProperties
<1>6. \A i \in 1 .. m : s[i] = t[i]
  <2> TAKE i \in 1 .. m
  <2>1. i \in 1 .. n - k + 1 /\ k + i - 1 = n - m + i
    BY <1>1
  <2>2. s[i] = p[n - m + i]
    OBVIOUS
  <2> HIDE DEF n, m, k, t
  <2> QED
    BY <1>5, <2>1, <2>2
<1>7. Len(t) = m
  BY <1>1, <1>5
<1> HIDE DEF t, n, k
<1>8. s = t
  BY <1>5, <1>6, <1>7, SeqEqual
<1> QED
  BY <1>4, <1>8

LEMMA SuffixIsSuffix ==
    ASSUME NEW p \in Seq(STRING), NEW s \in PathSuffixes(p)
    PROVE  IsSuffix(s, p)
<1> DEFINE n == Len(p)
           m == Len(s)
           a == Reverse(s)
           b == Reverse(p)
<1>1. n \in Nat /\ m \in 1 .. n /\ \A i \in 1 .. m : s[i] = p[n - m + i]
  BY SuffixParts, LenProperties
<1>2. s \in Seq(STRING)
  BY SuffixParts
<1>3. ASSUME NEW q \in Seq(STRING)
      PROVE  /\ Reverse(q) \in Seq(STRING) /\ Len(Reverse(q)) = Len(q)
             /\ \A i \in 1 .. Len(q) : Reverse(q)[i] = q[Len(q) - i + 1]
  <2> DEFINE l == Len(q)
  <2>1. l \in Nat
    BY LenProperties
  <2>2. Reverse(q) = [i \in 1 .. l |-> q[(l - i) + 1]]
    BY DEF Reverse
  <2>3. \A i \in 1 .. l : q[(l - i) + 1] \in STRING
    <3>1. \A i \in 1 .. l : (l - i) + 1 \in 1 .. l
      BY <2>1
    <3> QED
      BY <3>1, ElementOfSeq
  <2> HIDE DEF l
  <2> QED
    BY <2>1, <2>2, <2>3 DEF l
<1>4. a \in Seq(STRING) /\ b \in Seq(STRING) /\ Len(a) = m /\ Len(b) = n
  BY <1>2, <1>3
<1>5. \A i \in 1 .. m : a[i] = b[i]
  <2> TAKE i \in 1 .. m
  <2>1. a[i] = s[m - i + 1]
    BY <1>2, <1>3
  <2>2. i \in 1 .. n /\ m - i + 1 \in 1 .. m /\ n - m + (m - i + 1) = n - i + 1
    BY <1>1
  <2>3. b[i] = p[n - i + 1]
    BY <1>3, <2>2
  <2>4. s[m - i + 1] = p[n - m + (m - i + 1)]
    BY <1>1, <2>2
  <2> QED
    BY <2>1, <2>2, <2>3, <2>4
<1> HIDE DEF a, b, m, n
<1> DEFINE u == SubSeq(a, 1, m)
           v == SubSeq(b, 1, m)
<1>6. \A i \in 1 .. m : a[i] \in STRING /\ b[i] \in STRING
  BY <1>1, <1>4, ElementOfSeq
<1>7. 1 \in Int /\ m \in Int /\ 1 <= m /\ m - 1 + 1 = m
  BY <1>1
<1>8. /\ u \in Seq(STRING) /\ Len(u) = m /\ \A i \in 1 .. m : u[i] = a[1 + i - 1]
      /\ v \in Seq(STRING) /\ Len(v) = m /\ \A i \in 1 .. m : v[i] = b[1 + i - 1]
  BY <1>6, <1>7, SubSeqProperties
<1>9. \A i \in 1 .. m : u[i] = v[i]
  <2>1. \A i \in 1 .. m : 1 + i - 1 = i
    BY <1>1
  <2> QED
    BY <1>5, <1>8, <2>1
<1>10. u = v
  <2> HIDE DEF u, v
  <2> QED
    BY <1>8, <1>9, SeqEqual
<1>11. IsPrefix(a, b)
  BY <1>1, <1>4, <1>10 DEF IsPrefix
<1> QED
  BY <1>11 DEF IsSuffix, a, b

LEMMA SuffixOfSuffix ==
    ASSUME NEW p \in Seq(STRING), NEW s \in PathSuffixes(p), NEW u \in PathSuffixes(s)
    PROVE  u \in PathSuffixes(p)
<1> DEFINE n == Len(p)
           m == Len(s)
           k == Len(u)
<1>1. s \in Seq(STRING) /\ m \in 1 .. n /\ \A i \in 1 .. m : s[i] = p[n - m + i]
  BY SuffixParts
<1>2. u \in Seq(STRING) /\ k \in 1 .. m /\ \A i \in 1 .. k : u[i] = s[m - k + i]
  BY <1>1, SuffixParts
<1>3. n \in Nat
  BY LenProperties
<1>4. \A i \in 1 .. k : u[i] = p[n - k + i]
  <2> TAKE i \in 1 .. k
  <2> HIDE DEF n, m, k
  <2>1. m - k + i \in 1 .. m /\ n - m + (m - k + i) = n - k + i
    BY <1>1, <1>2, <1>3
  <2>2. s[m - k + i] = p[n - m + (m - k + i)]
    BY <1>1, <2>1
  <2> QED
    BY <1>2, <2>1, <2>2
<1>5. k \in 1 .. n
  <2> HIDE DEF n, m, k
  <2> QED
    BY <1>1, <1>2, <1>3
<1> QED
  BY <1>2, <1>4, <1>5, SuffixFrom

LEMMA ShorterSuffix ==
    ASSUME NEW p \in Seq(STRING), NEW s \in PathSuffixes(p), NEW u \in PathSuffixes(p),
           Len(u) <= Len(s)
    PROVE  u \in PathSuffixes(s) /\ (Len(u) = Len(s) => u = s)
<1> DEFINE n == Len(p)
           m == Len(s)
           k == Len(u)
<1>1. /\ s \in Seq(STRING) /\ m \in 1 .. n /\ \A i \in 1 .. m : s[i] = p[n - m + i]
      /\ s = SubSeq(p, n - m + 1, n)
  BY SuffixParts
<1>2. /\ u \in Seq(STRING) /\ k \in 1 .. n /\ \A i \in 1 .. k : u[i] = p[n - k + i]
      /\ u = SubSeq(p, n - k + 1, n)
  BY SuffixParts
<1>3. n \in Nat /\ k <= m
  BY LenProperties
<1>4. \A i \in 1 .. k : u[i] = s[m - k + i]
  <2> TAKE i \in 1 .. k
  <2> HIDE DEF n, m, k
  <2>1. m - k + i \in 1 .. m /\ n - m + (m - k + i) = n - k + i
    BY <1>1, <1>2, <1>3
  <2>2. s[m - k + i] = p[n - m + (m - k + i)]
    BY <1>1, <2>1
  <2> QED
    BY <1>2, <2>1, <2>2
<1>5. k \in 1 .. m
  <2> HIDE DEF n, m, k
  <2> QED
    BY <1>1, <1>2, <1>3
<1>6. u \in PathSuffixes(s)
  BY <1>1, <1>2, <1>4, <1>5, SuffixFrom
<1>7. k = m => u = s
  <2> HIDE DEF n, m, k
  <2> QED
    BY <1>1, <1>2
<1> QED
  BY <1>6, <1>7

(* The paths of the archive's entries. *)
IsPath(p) == p \in Seq(STRING) /\ p # <<>>

LEMMA WholePath == ASSUME NEW p, IsPath(p) PROVE p \in PathSuffixes(p) /\ Len(p) \in Nat \ {0}
<1>1. p \in Seq(STRING) /\ Len(p) \in Nat \ {0}
  BY EmptySeq, LenProperties DEF IsPath
<1>2. Len(p) \in 1 .. Len(p) /\ \A i \in 1 .. Len(p) : Len(p) - Len(p) + i = i
  BY <1>1
<1>3. \A i \in 1 .. Len(p) : p[i] = p[Len(p) - Len(p) + i]
  BY <1>2
<1> QED
  BY <1>1, <1>2, <1>3, SuffixFrom

LEMMA SuffixIsPath == ASSUME NEW p, IsPath(p), NEW s \in PathSuffixes(p) PROVE IsPath(s)
BY SuffixParts DEF IsPath

(* What is left of a safe path is safe. *)
LEMMA SafeSuffix ==
    ASSUME NEW p, IsPath(p), IsSafeRequestPath(p), NEW s \in PathSuffixes(p)
    PROVE  IsSafeRequestPath(s)
<1>1. /\ s # <<>> /\ s \in Seq(STRING) /\ Len(s) \in 1 .. Len(p)
      /\ \A i \in 1 .. Len(s) : s[i] = p[Len(p) - Len(s) + i]
  BY SuffixParts DEF IsPath
<1>2. DOMAIN p = 1 .. Len(p) /\ DOMAIN s = 1 .. Len(s) /\ Len(p) \in Nat
  BY <1>1, LenProperties DEF IsPath
<1>3. \A i \in 1 .. Len(s) : Len(p) - Len(s) + i \in 1 .. Len(p)
  BY <1>1, <1>2
<1>4. \A i \in 1 .. Len(p) : p[i] \notin UnsafeNames \cup {"", ".", ".."}
  BY <1>2 DEF IsSafeRequestPath
<1>5. \A i \in 1 .. Len(s) : s[i] \notin UnsafeNames \cup {"", ".", ".."}
  BY <1>1, <1>3, <1>4
<1> QED
  BY <1>1, <1>2, <1>5 DEF IsSafeRequestPath

(* Of any suffixes of a path there is a longest one, and a shortest one. *)
LEMMA LongestSuffix ==
    ASSUME NEW p, IsPath(p), NEW K, K \subseteq PathSuffixes(p), K # {}
    PROVE  \E s \in K : \A other \in K : Len(other) <= Len(s)
<1> DEFINE T == {Len(p) - Len(s) : s \in K}
<1>1. Len(p) \in Nat /\ \A s \in K : Len(s) \in 1 .. Len(p)
  BY SuffixParts, LenProperties DEF IsPath
<1>2. T \subseteq Nat /\ T # {}
  BY <1>1
<1>3. PICK x \in T : \A y \in T : ~(y < x)
  <2> HIDE DEF T
  <2> QED
    BY <1>2, LeastNumber
<1>4. PICK s \in K : x = Len(p) - Len(s)
  OBVIOUS
<1>5. \A other \in K : ~(Len(p) - Len(other) < Len(p) - Len(s))
  BY <1>3, <1>4
<1> QED
  BY <1>1, <1>5

LEMMA ShortestSuffix ==
    ASSUME NEW p, IsPath(p), NEW K, K \subseteq PathSuffixes(p), K # {}
    PROVE  \E s \in K : \A other \in K : Len(s) <= Len(other)
<1> DEFINE T == {Len(s) : s \in K}
<1>1. \A s \in K : Len(s) \in Nat
  BY SuffixParts, LenProperties DEF IsPath
<1>2. T \subseteq Nat /\ T # {}
  BY <1>1
<1>3. PICK x \in T : \A y \in T : ~(y < x)
  <2> HIDE DEF T
  <2> QED
    BY <1>2, LeastNumber
<1>4. PICK s \in K : x = Len(s)
  OBVIOUS
<1>5. \A other \in K : ~(Len(other) < Len(s))
  BY <1>3, <1>4
<1> QED
  BY <1>1, <1>5

(***************************************************************************)
(* Request paths, of any set of scripts in any archive.                    *)
(***************************************************************************)
ArePaths(paths) == IsFiniteSet(paths) /\ \A p \in paths : IsPath(p)

ArePlanned(paths, targets) == targets \subseteq paths /\ \A t \in targets : IsJavascriptPath(t)

LEMMA RelativeIsSuffix ==
    ASSUME NEW paths, ArePaths(paths), NEW targets, ArePlanned(paths, targets),
           NEW root \in RendererRoots(paths, targets), NEW t \in targets
    PROVE  RelativeToRoot(root, t) \in PathSuffixes(t)
<1>1. IsPath(t)
  BY DEF ArePaths, ArePlanned
<1>2. Len(t) \in Nat \ {0}
  BY <1>1, WholePath
<1>3. Len(root) \in Nat
  <2>1. PICK p \in paths : root = Front(p)
    BY DEF RendererRoots
  <2>2. p \in Seq(STRING) /\ Len(p) \in Nat \ {0}
    BY WholePath DEF ArePaths, IsPath
  <2>3. 1 \in Int /\ Len(p) - 1 \in Int /\ \A i \in 1 .. Len(p) - 1 : i \in 1 .. Len(p)
    BY <2>2
  <2>4. \A i \in 1 .. Len(p) - 1 : p[i] \in STRING
    BY <2>2, <2>3, ElementOfSeq
  <2>5. Front(p) \in Seq(STRING)
    BY <2>3, <2>4, SubSeqProperties DEF Front
  <2> QED
    BY <2>1, <2>5, LenProperties
<1>4. Len(root) < Len(t)
  BY <1>2, EmptySeq DEF RendererRoots
<1>5. Len(root) + 1 \in 1 .. Len(t)
  BY <1>2, <1>3, <1>4
<1> QED
  BY <1>5 DEF RelativeToRoot, PathSuffixes

LEMMA PathsAreSuffixes ==
    ASSUME NEW paths, ArePaths(paths), NEW targets, ArePlanned(paths, targets), NEW t \in targets,
           NEW s \in PathsOf(paths, targets, t)
    PROVE  s \in PathSuffixes(t)
BY RelativeIsSuffix DEF PathsOf, UniqueSuffixes

(* A suffix that is counted once belongs to one script. *)
LEMMA CountedOnce ==
    ASSUME NEW paths, ArePaths(paths), NEW s, SuffixCount(paths, s) = 1,
           NEW p \in paths, IsJavascriptPath(p), s \in PathSuffixes(p),
           NEW q \in paths, IsJavascriptPath(q), s \in PathSuffixes(q)
    PROVE  p = q
<1> DEFINE K == {x \in paths : IsJavascriptPath(x) /\ IsSuffix(s, x)}
<1>1. IsSuffix(s, p) /\ IsSuffix(s, q)
  BY SuffixIsSuffix DEF ArePaths, IsPath
<1>2. p \in K /\ q \in K
  BY <1>1
<1>3. IsFiniteSet(K) /\ Cardinality(K) = 1
  BY FS_Subset DEF ArePaths, SuffixCount
<1> HIDE DEF K
<1> QED
  BY <1>2, <1>3, FS_Singleton

RequestPathsFor(paths, targets) == RuntimeRequestPaths(ResourceRequestPaths(paths, targets).map)

(* The map of the session gives each path to the one script it is of. *)
LEMMA RequestPathOf ==
    ASSUME NEW paths, NEW targets, ResourceRequestPaths(paths, targets).ok
    PROVE  LET rp == RequestPathsFor(paths, targets)
           IN  /\ \A s \in DOMAIN rp : rp[s] \in targets /\ s \in PathsOf(paths, targets, rp[s])
               /\ \A t \in targets : \A s \in PathsOf(paths, targets, t) :
                    s \in DOMAIN rp /\ rp[s] = t
<1> DEFINE map == ResourceRequestPaths(paths, targets).map
           rp == RequestPathsFor(paths, targets)
<1>1. DOMAIN map = targets /\ \A t \in targets : map[t] = PathsOf(paths, targets, t)
  BY DEF ResourceRequestPaths
<1>2. ~Ambiguous(paths, targets)
  BY DEF ResourceRequestPaths
<1>3. rp = [p \in UNION {map[t] : t \in DOMAIN map} |-> CHOOSE t \in DOMAIN map : p \in map[t]]
  BY DEF RequestPathsFor, RuntimeRequestPaths
<1> HIDE DEF map, rp
<1>4. ASSUME NEW s \in DOMAIN rp PROVE rp[s] \in targets /\ s \in PathsOf(paths, targets, rp[s])
  <2>1. \E t \in targets : s \in map[t]
    BY <1>1, <1>3
  <2>2. rp[s] \in targets /\ s \in map[rp[s]]
    BY <1>1, <1>3, <2>1
  <2> QED
    BY <1>1, <2>2
<1>5. ASSUME NEW t \in targets, NEW s \in PathsOf(paths, targets, t)
      PROVE  s \in DOMAIN rp /\ rp[s] = t
  <2>1. s \in DOMAIN rp
    BY <1>1, <1>3
  <2>2. rp[s] \in targets /\ s \in PathsOf(paths, targets, rp[s])
    BY <1>4, <2>1
  <2> QED
    BY <1>2, <2>1, <2>2 DEF Ambiguous
<1> QED
  BY <1>4, <1>5 DEF rp

UrlsOf(paths, targets, t) ==
    LET roots == RendererRoots(paths, targets)
    IN  IF roots = {} THEN {t} ELSE {RelativeToRoot(root, t) : root \in roots}

(* What is known of an asked path may be longer than what its script was   *)
(* planned under, but leads to the same script: it has the other as its    *)
(* suffix, and that is counted once.                                       *)
LEMMA PlannedIsServed ==
    ASSUME NEW paths, ArePaths(paths), NEW targets, ArePlanned(paths, targets),
           ResourceRequestPaths(paths, targets).ok,
           NEW t \in targets, NEW u \in UrlsOf(paths, targets, t),
           IsSafeRequestPath(u) \/ UniqueSuffixes(paths, t) # {}
    PROVE  LET rp == RequestPathsFor(paths, targets)
           IN  /\ \E s \in DOMAIN rp : IsSuffix(s, u)
               /\ NormalizeAppResource(u, rp) = t
<1> DEFINE rp == RequestPathsFor(paths, targets)
           known == PathSuffixes(u) \cap DOMAIN rp
           Longest(s) == \A other \in known : Len(other) <= Len(s)
           longest == CHOOSE s \in known : Longest(s)
           mine == PathsOf(paths, targets, t)
           unique == UniqueSuffixes(paths, t)
<1>1. IsPath(t) /\ t \in paths /\ IsJavascriptPath(t)
  BY DEF ArePaths, ArePlanned
<1>2. u \in PathSuffixes(t)
  BY <1>1, WholePath, RelativeIsSuffix DEF UrlsOf
<1>3. IsPath(u) /\ u \in PathSuffixes(u) /\ Len(u) \in Nat /\ t \in Seq(STRING) /\ u \in Seq(STRING)
  BY <1>1, <1>2, SuffixIsPath, WholePath DEF IsPath
<1>4. /\ \A s \in DOMAIN rp : rp[s] \in targets /\ s \in PathsOf(paths, targets, rp[s])
      /\ \A s \in mine : s \in DOMAIN rp /\ rp[s] = t
  BY RequestPathOf
<1>5. NormalizeAppResource(u, rp) = IF known = {} THEN NoResource ELSE rp[longest]
  BY DEF NormalizeAppResource
<1> HIDE DEF rp
<1>6. ASSUME NEW s \in known PROVE IsSuffix(s, u)
  BY <1>3, SuffixIsSuffix
<1>7. ASSUME known # {} PROVE longest \in known /\ Longest(longest)
  <2>1. \E s \in known : Longest(s)
    BY <1>3, <1>7, LongestSuffix
  <2> HIDE DEF known, Longest
  <2> QED
    BY <2>1
<1> SUFFICES known # {} /\ rp[longest] = t
  <2> HIDE DEF longest
  <2> QED
    BY <1>5, <1>6 DEF rp
<1> HIDE DEF longest
<1>8. CASE u \in mine
  <2>1. u \in known
    BY <1>3, <1>4, <1>8
  <2>2. longest \in PathSuffixes(u) /\ Len(u) <= Len(longest)
    BY <1>7, <2>1
  <2>3. Len(longest) \in 1 .. Len(u)
    BY <1>3, <2>2, SuffixParts
  <2>4. longest = u
    BY <1>3, <2>2, <2>3, ShorterSuffix
  <2> QED
    BY <1>4, <1>8, <2>1, <2>4
<1>9. CASE u \notin mine
  <2>1. unique # {}
    <3>1. CASE RendererRoots(paths, targets) = {}
      <4>1. mine # {}
        BY DEF ResourceRequestPaths
      <4> QED
        BY <3>1, <4>1 DEF PathsOf
    <3>2. CASE RendererRoots(paths, targets) # {}
      <4>1. ~IsSafeRequestPath(u)
        BY <1>9, <3>2 DEF PathsOf, UrlsOf
      <4> QED
        BY <4>1
    <3> QED
      BY <3>1, <3>2
  <2>2. unique \subseteq PathSuffixes(t)
    BY DEF UniqueSuffixes
  <2> DEFINE Shortest(s) == \A other \in unique : Len(s) <= Len(other)
  <2>3. PICK v \in unique : Shortest(v)
    <3> HIDE DEF unique
    <3> QED
      BY <1>1, <2>1, <2>2, ShortestSuffix
  <2>4. v \in mine
    BY <2>3 DEF PathsOf
  <2>5. v \in PathSuffixes(t) /\ SuffixCount(paths, v) = 1 /\ IsSafeRequestPath(v)
    BY <2>3 DEF UniqueSuffixes
  <2>6. Len(v) <= Len(u)
    <3> SUFFICES ASSUME ~(Len(v) <= Len(u)) PROVE FALSE
      OBVIOUS
    <3>1. IsPath(v)
      BY <1>1, <2>5, SuffixIsPath
    <3>2. Len(u) <= Len(v)
      <4>1. Len(v) \in Nat
        BY <3>1, WholePath
      <4> QED
        BY <1>3, <4>1
    <3>3. u \in PathSuffixes(v)
      BY <1>2, <1>3, <2>5, <3>2, ShorterSuffix
    <3>4. IsSafeRequestPath(u)
      BY <2>5, <3>1, <3>3, SafeSuffix
    <3>5. RendererRoots(paths, targets) = {}
      BY <1>9, <3>4 DEF PathsOf, UrlsOf
    <3>6. u = t
      BY <3>5 DEF UrlsOf
    <3>7. Len(v) \in 1 .. Len(t)
      BY <1>3, <2>5, SuffixParts
    <3> QED
      BY <1>3, <3>6, <3>7
  <2>7. v \in PathSuffixes(u)
    BY <1>2, <1>3, <2>5, <2>6, ShorterSuffix
  <2>8. v \in known
    BY <1>4, <2>4, <2>7
  <2>9. longest \in PathSuffixes(u) /\ longest \in DOMAIN rp /\ Len(v) <= Len(longest)
    BY <1>7, <2>8
  <2>10. v \in PathSuffixes(longest)
    BY <1>3, <2>7, <2>9, ShorterSuffix
  <2> DEFINE w == rp[longest]
  <2>11. w \in targets /\ longest \in PathsOf(paths, targets, w)
    BY <1>4, <2>9
  <2> HIDE DEF w
  <2>12. longest \in PathSuffixes(w)
    BY <2>11, PathsAreSuffixes
  <2>13. w \in paths /\ IsJavascriptPath(w) /\ w \in Seq(STRING)
    BY <2>11 DEF ArePaths, ArePlanned, IsPath
  <2>14. v \in PathSuffixes(w)
    BY <2>10, <2>12, <2>13, SuffixOfSuffix
  <2>15. w = t
    BY <1>1, <2>5, <2>13, <2>14, CountedOnce
  <2> QED
    BY <2>8, <2>15 DEF w
<1> QED
  BY <1>8, <1>9

LEMMA SharedSuffix ==
    ASSUME NEW paths, ArePaths(paths), NEW targets, ArePlanned(paths, targets),
           ResourceRequestPaths(paths, targets).ok,
           NEW path \in paths \ targets, IsJavascriptPath(path),
           NEW s \in PathSuffixes(path), s \in DOMAIN RequestPathsFor(paths, targets)
    PROVE  \E root \in RendererRoots(paths, targets) :
             s = RelativeToRoot(root, RequestPathsFor(paths, targets)[s])
<1> DEFINE t == RequestPathsFor(paths, targets)[s]
<1>1. t \in targets /\ s \in PathsOf(paths, targets, t)
  BY RequestPathOf
<1> HIDE DEF t
<1>2. s \in PathSuffixes(t)
  BY <1>1, PathsAreSuffixes
<1>3. t \in paths /\ IsJavascriptPath(t) /\ t # path
  BY <1>1 DEF ArePlanned
<1>4. SuffixCount(paths, s) # 1
  BY <1>2, <1>3, CountedOnce
<1>5. s \notin UniqueSuffixes(paths, t)
  BY <1>4 DEF UniqueSuffixes
<1> QED
  BY <1>1, <1>5 DEF PathsOf, t

(***************************************************************************)
(* The inductive invariant.  What flatten_files made of the archive:       *)
(***************************************************************************)
Taken(a) == {e \in Range(a.entries) : ~e.link /\ ValidEntry(a, e)}
FilesOf(a) == {FileOf(e) : e \in Taken(a)}

Reading == /\ OpenHeader(archive) = "opened"
           /\ FlattenFiles(archive).ok
           /\ files = FlattenFiles(archive).files

FilesInv ==
    /\ archive \in Archives
    /\ phase \in {"open", "scan", "planned", "failed"}
    /\ phase \in {"scan", "planned"} => Reading
    /\ Reading \/ files = <<>>
    /\ next \in 1 .. Len(files) + 1
    /\ phase = "open" => next = 1 /\ resources = <<>>
    /\ extent \in Nat /\ extent <= archive.size

(* The resources are the scripts with sites among what was scanned.        *)
IsText(file) == IsScannableEntry(file) /\ file.bytes.utf8

ResourceOf(file) == [content |-> file.bytes.content, sites |-> DetectResource(file.bytes.content)]

ResourcesInv ==
    /\ \A k \in DOMAIN resources : \E i \in 1 .. next - 1 :
        /\ IsText(files[i]) /\ files[i].path = k
        /\ resources[k] = ResourceOf(files[i])
    /\ phase \in {"scan", "planned"} =>
        \A i \in 1 .. next - 1 :
            IsText(files[i]) /\ HasSites(ResourceOf(files[i]).sites) =>
                files[i].path \in DOMAIN resources

(* The plan is what finish makes of them, and the paths are derived for it.*)
PlanInv ==
    /\ plan = BlockedPlan \/ plan = Finish(resources)
    /\ phase \in {"open", "scan"} => plan = BlockedPlan
    /\ phase = "planned" =>
        /\ plan = Finish(resources)
        /\ next > Len(files)
        /\ ResourceRequestPaths(ArchivePaths, Targets).ok
        /\ requestPaths = RequestPathsFor(ArchivePaths, Targets)

IInv == FilesInv /\ ResourcesInv /\ PlanInv

LEMMA FilesType ==
    ASSUME NEW a, IsArchive(a), FlattenFiles(a).ok
    PROVE  FlattenFiles(a).files \in Seq(FilesOf(a))
<1> DEFINE n == Len(a.entries)
           F == FilesOf(a)
           Q == Seq(F)
           piece(i) == IF a.entries[i].link THEN <<>> ELSE <<FileOf(a.entries[i])>>
           ss == [i \in 1 .. n |-> piece(i)]
<1>1. a.entries \in Seq(Range(a.entries)) /\ n \in Nat /\ DOMAIN a.entries = 1 .. n
  BY LenProperties DEF IsArchive
<1>2. ASSUME NEW i \in 1 .. n PROVE piece(i) \in Q
  <2> DEFINE e == a.entries[i]
  <2>1. e \in Range(a.entries)
    BY <1>1, ElementOfSeq
  <2>2. ValidEntry(a, e)
    BY <1>1 DEF FlattenFiles
  <2> HIDE DEF e
  <2>3. ~e.link => FileOf(e) \in F
    BY <2>1, <2>2 DEF FilesOf, Taken
  <2> DEFINE file == FileOf(e)
  <2>4. piece(i) = IF e.link THEN <<>> ELSE <<file>>
    BY DEF e
  <2> HIDE DEF file, F, piece
  <2>5. <<>> \in Q /\ (~e.link => <<file>> \in Q)
    BY <2>3 DEF file
  <2> QED
    BY <2>4, <2>5
<1>3. ss \in Seq(Q)
  <2> HIDE DEF piece, Q, n
  <2> QED
    BY <1>1, <1>2
<1>4. FlattenFiles(a).files = FlattenSeq(ss)
  BY <1>1 DEF FlattenFiles
<1> HIDE DEF ss, F
<1> QED
  BY <1>3, <1>4, FlattenType DEF F

(* A name that validate_entry_name lets pass is one path segment, so that  *)
(* no path is empty.                                                       *)
LEMMA EntryPath ==
    ASSUME NEW a, IsArchive(a), NEW e \in Taken(a)
    PROVE  IsEntry(e) /\ IsPath(PathOf(e))
<1>1. PICK i \in DOMAIN a.entries : e = a.entries[i]
  BY DEF Taken, Range
<1>2. IsEntry(e) /\ ValidEntry(a, e)
  BY <1>1 DEF IsArchive, Taken
<1> DEFINE names == e.names
           Q == Seq(STRING)
<1>3. names \in Seq(Q) /\ names # <<>>
  BY <1>2 DEF IsEntry
<1>4. \A j \in DOMAIN names : Len(names[j]) = 1
  BY <1>2 DEF ValidEntry, ValidName
<1>5. PathOf(e) = FlattenSeq(names)
  BY DEF PathOf
<1> HIDE DEF names
<1>6. PathOf(e) \in Seq(STRING)
  BY <1>3, <1>5, FlattenType
<1>7. PathOf(e) = Head(names) \o FlattenSeq(Tail(names))
  BY <1>3, <1>5, FlattenHead
<1>8. Tail(names) \in Seq(Q) /\ Head(names) \in Q /\ Len(Head(names)) = 1
  <2> HIDE DEF Q
  <2>1. Len(names) \in Nat \ {0} /\ DOMAIN names = 1 .. Len(names)
    BY <1>3, EmptySeq, LenProperties
  <2>2. Head(names) = names[1] /\ 1 \in DOMAIN names
    BY <1>3, <2>1
  <2> QED
    BY <1>3, <1>4, <2>2, HeadTailProperties
<1>9. FlattenSeq(Tail(names)) \in Q
  BY <1>8, FlattenType
<1>10. Len(PathOf(e)) = 1 + Len(FlattenSeq(Tail(names)))
  BY <1>7, <1>8, <1>9, ConcatProperties, SMTT(30)
<1>11. PathOf(e) # <<>>
  <2>1. Len(FlattenSeq(Tail(names))) \in Nat
    BY <1>9, LenProperties
  <2> QED
    BY <1>10, <2>1, EmptySeq
<1> QED
  BY <1>2, <1>6, <1>11 DEF IsPath

LEMMA FileFacts ==
    ASSUME NEW a, IsArchive(a), NEW file \in FilesOf(a)
    PROVE  IsPath(file.path) /\ file.bytes.content \in Seq(STRING)
<1>1. PICK e \in Taken(a) : file = FileOf(e)
  BY DEF FilesOf
<1>2. IsEntry(e) /\ IsPath(PathOf(e))
  BY EntryPath
<1>3. file.path = PathOf(e) /\ file.bytes.content = e.content
  BY <1>1 DEF FileOf
<1> QED
  BY <1>2, <1>3 DEF IsEntry

LEMMA FileReads ==
    ASSUME NEW a, IsArchive(a), OpenHeader(a) = "opened",
           NEW file \in FilesOf(a), ~file.unpacked
    PROVE  /\ ReadStart(a, file) + file.size \in Nat
           /\ ReadStart(a, file) + file.size <= a.size
<1>1. PICK e \in Taken(a) : file = FileOf(e)
  BY DEF FilesOf
<1>2. IsEntry(e) /\ ~e.link /\ ValidEntry(a, e)
  BY EntryPath DEF Taken
<1>3. file.unpacked = e.unpacked /\ file.size = e.size /\ (~e.unpacked => file.offset = e.offset)
  BY <1>1 DEF FileOf
<1>4. e.offset \in 0 .. U64 /\ e.size \in 0 .. U64 /\ ~e.unpacked
  BY <1>2, <1>3 DEF IsEntry
<1>5. /\ ReadStart(a, e) = DataOffset(a) + e.offset
      /\ ReadStart(a, e) + e.size <= a.size
  BY <1>2, <1>4, ReadsInside
<1>6. ReadStart(a, file) = ReadStart(a, e) /\ file.size = e.size
  BY <1>3, <1>4 DEF ReadStart
<1>7. DataOffset(a) \in Nat /\ U64 \in Nat
  BY DataInside, WidthAssumption
<1> QED
  BY <1>4, <1>5, <1>6, <1>7

LEMMA FileIsAnEntry ==
    ASSUME NEW a, NEW file \in FilesOf(a)
    PROVE  \E i \in DOMAIN a.entries : file.bytes.content = a.entries[i].content
<1>1. PICK e \in Taken(a) : file = FileOf(e)
  BY DEF FilesOf
<1>2. PICK i \in DOMAIN a.entries : e = a.entries[i]
  BY DEF Taken, Range
<1>3. file.bytes.content = e.content
  BY <1>1 DEF FileOf
<1> QED
  BY <1>2, <1>3

(* What the features find in a script of the archive, collect_edits takes. *)
LEMMA ResourceIsWellFormed ==
    ASSUME NEW a \in Archives, NEW file \in FilesOf(a)
    PROVE  /\ WellFormed(ResourceOf(file))
           /\ \A f \in Features : IsFiniteSet(ResourceOf(file).sites[f])
<1> DEFINE content == file.bytes.content
           sites == DetectResource(content)
           resource == ResourceOf(file)
<1>1. IsArchive(a)
  BY ArchivesAssumption
<1>2. content \in Seq(STRING)
  BY <1>1, FileFacts
<1>3. PICK i \in DOMAIN a.entries : content = a.entries[i].content
  BY FileIsAnEntry
<1>4. \A f \in Features : sites[f] \subseteq Detect(f, content) /\ IsDetection(Detect(f, content))
  BY <1>3, DetectAssumption DEF DetectResource
<1>5. resource.content = content /\ resource.sites = sites
  BY DEF ResourceOf
<1> HIDE DEF content, sites, resource
<1>6. \A f \in Features : sites[f] \subseteq Sites /\ IsFiniteSet(sites[f])
                        /\ \A site \in sites[f] : IsFiniteSet(site.edits)
  BY <1>4, FS_Subset DEF IsDetection
<1> DEFINE Of(f) == UNION {site.edits : site \in sites[f]}
           g == [f \in Features |-> Of(f)]
<1>7. ASSUME NEW f \in Features PROVE IsFiniteSet(Of(f)) /\ Of(f) \subseteq EditRecords
  <2> DEFINE h == [site \in sites[f] |-> site.edits]
             R == {site.edits : site \in sites[f]}
  <2>1. Range(h) = R
    BY DEF Range
  <2>2. DOMAIN h = sites[f] /\ IsFiniteSet(sites[f])
    BY <1>6
  <2> HIDE DEF h
  <2>3. IsFiniteSet(R)
    BY <2>1, <2>2, FiniteImage
  <2>4. \A s \in R : IsFiniteSet(s) /\ s \subseteq EditRecords
    BY <1>6 DEF Sites
  <2> HIDE DEF R
  <2>5. IsFiniteSet(UNION R) /\ UNION R \subseteq EditRecords
    BY <2>3, <2>4, FiniteUnion
  <2> QED
    BY <2>5 DEF R
<1>8. EditsOf(resource) = UNION {Of(f) : f \in Features}
  BY <1>5 DEF EditsOf
<1> DEFINE R == {Of(f) : f \in Features}
<1>9. Range(g) = R
  BY DEF Range
<1>10. DOMAIN g = Features /\ IsFiniteSet(Features)
  BY FeaturesAssumption
<1> HIDE DEF g
<1>11. IsFiniteSet(R)
  BY <1>9, <1>10, FiniteImage
<1>12. \A s \in R : IsFiniteSet(s) /\ s \subseteq EditRecords
  BY <1>7
<1> HIDE DEF R
<1>13. IsFiniteSet(UNION R) /\ UNION R \subseteq EditRecords
  BY <1>11, <1>12, FiniteUnion
<1>14. ASSUME NEW e \in EditsOf(resource) PROVE IsFiniteSet(Askers(resource, e))
  <2> DEFINE Asks(f) == {<<f, site>> : site \in {s \in sites[f] : e \in s.edits}}
             k == [f \in Features |-> Asks(f)]
             A == {Asks(f) : f \in Features}
  <2>1. ASSUME NEW f \in Features PROVE IsFiniteSet(Asks(f))
    <3> DEFINE T == {s \in sites[f] : e \in s.edits}
               m == [site \in T |-> <<f, site>>]
    <3>1. IsFiniteSet(T)
      <4>1. T \subseteq sites[f] /\ IsFiniteSet(sites[f])
        BY <1>6
      <4> HIDE DEF T
      <4> QED
        BY <4>1, FS_Subset
    <3>2. Range(m) = Asks(f) /\ DOMAIN m = T
      BY DEF Range
    <3> HIDE DEF m, T
    <3> QED
      BY <3>1, <3>2, FiniteImage
  <2>2. Range(k) = A /\ DOMAIN k = Features
    BY DEF Range
  <2> HIDE DEF k
  <2>3. IsFiniteSet(A)
    BY <1>10, <2>2, FiniteImage
  <2>4. \A s \in A : IsFiniteSet(s)
    BY <2>1
  <2>5. Askers(resource, e) = UNION A
    BY <1>5 DEF Askers
  <2> HIDE DEF A
  <2> QED
    BY <2>3, <2>4, <2>5, FiniteUnion
<1> QED
  BY <1>2, <1>5, <1>6, <1>8, <1>13, <1>14 DEF WellFormed, R, resource

LEMMA EmptyDomain == DOMAIN <<>> = {} /\ Len(<<>>) = 0
<1>1. <<>> \in Seq({}) /\ Len(<<>>) = 0
  BY EmptySeq
<1>2. DOMAIN <<>> = 1 .. 0
  BY <1>1, LenProperties
<1> QED
  BY <1>1, <1>2

LEMMA FilesInvFacts ==
    ASSUME FilesInv
    PROVE  /\ IsArchive(archive) /\ archive.size \in Nat
           /\ files \in Seq(FilesOf(archive)) /\ Len(files) \in Nat
           /\ DOMAIN files = 1 .. Len(files)
<1>1. IsArchive(archive)
  BY ArchivesAssumption DEF FilesInv
<1>2. archive.size \in Nat
  BY <1>1, WidthAssumption DEF IsArchive
<1>3. files \in Seq(FilesOf(archive))
  BY <1>1, FilesType, EmptySeq DEF FilesInv, Reading
<1> QED
  BY <1>1, <1>2, <1>3, LenProperties

LEMMA InvInit == Init => IInv
<1> SUFFICES ASSUME Init PROVE IInv
  OBVIOUS
<1> USE DEF Init
<1>1. archive.size \in Nat
  BY ArchivesAssumption, WidthAssumption DEF IsArchive
<1>2. FilesInv
  BY <1>1, EmptyDomain DEF FilesInv
<1>3. ResourcesInv
  BY EmptyDomain DEF ResourcesInv
<1>4. PlanInv
  BY DEF PlanInv
<1> QED
  BY <1>2, <1>3, <1>4 DEF IInv

LEMMA OpenKeeps == ASSUME IInv, Open PROVE IInv'
<1> USE DEF Open
<1>1. FilesInv /\ ResourcesInv /\ PlanInv /\ phase = "open"
  BY DEF IInv
<1>2. next = 1 /\ resources = <<>> /\ plan = BlockedPlan /\ UNCHANGED <<archive, next, resources, plan>>
  BY <1>1 DEF FilesInv, PlanInv
<1>3. \/ phase' = "scan" /\ files' = FlattenFiles(archive).files
         /\ OpenHeader(archive) = "opened" /\ FlattenFiles(archive).ok
      \/ phase' = "failed" /\ files' = files
  <2>1. OpenHeader(archive) # "panic"
    BY <1>1, FilesInvFacts, HeaderInside
  <2> QED
    BY <2>1
<1>4. Len(files') \in Nat
  BY <1>1, <1>3, FilesInvFacts, FilesType, LenProperties
<1>5. FilesInv'
  <2>1. 1 \in 1 .. Len(files') + 1
    BY <1>4
  <2>2. Reading' \/ files' = <<>>
    BY <1>1, <1>3 DEF Reading, FilesInv
  <2>3. phase' \in {"scan", "planned"} => Reading'
    BY <1>3 DEF Reading
  <2> QED
    BY <1>1, <1>2, <1>3, <2>1, <2>2, <2>3 DEF FilesInv
<1>6. ResourcesInv'
  BY <1>2, EmptyDomain DEF ResourcesInv
<1>7. PlanInv'
  BY <1>1, <1>2, <1>3 DEF PlanInv
<1> QED
  BY <1>5, <1>6, <1>7 DEF IInv

(* The entry that the scan has passed joins those that the invariant is of.*)
LEMMA ScanKeeps ==
    ASSUME IInv, SkipEntry \/ ScanEntry
    PROVE  IInv'
<1> DEFINE file == files[next]
<1>1. /\ FilesInv /\ ResourcesInv /\ PlanInv /\ phase = "scan" /\ next <= Len(files)
      /\ next' = next + 1 /\ UNCHANGED <<archive, files, plan, requestPaths>>
  BY DEF IInv, SkipEntry, ScanEntry
<1>2. /\ IsArchive(archive) /\ archive.size \in Nat
      /\ files \in Seq(FilesOf(archive)) /\ Len(files) \in Nat
      /\ next \in 1 .. Len(files) /\ next' \in 1 .. Len(files) + 1
  BY <1>1, FilesInvFacts DEF FilesInv
<1>3. phase' \in {"scan", "failed"}
  BY <1>1 DEF SkipEntry, ScanEntry
<1>4. extent' \in Nat /\ extent' <= archive.size
  <2>1. CASE SkipEntry
    BY <1>1, <2>1 DEF SkipEntry, FilesInv
  <2>2. CASE ScanEntry
    <3> DEFINE end == ReadStart(archive, file) + file.size
    <3>1. file \in FilesOf(archive) /\ ~file.unpacked
      BY <1>2, <2>2, ElementOfSeq DEF ScanEntry, IsScannableEntry
    <3>2. OpenHeader(archive) = "opened"
      BY <1>1 DEF FilesInv, Reading
    <3>3. end \in Nat /\ end <= archive.size
      BY <1>2, <3>1, <3>2, FileReads
    <3>4. extent' = IF end > extent THEN end ELSE extent
      BY <2>2 DEF ScanEntry
    <3> HIDE DEF end
    <3> QED
      BY <1>1, <3>3, <3>4 DEF FilesInv
  <2> QED
    BY <2>1, <2>2
<1>5. FilesInv'
  <2>1. Reading' <=> Reading
    BY <1>1 DEF Reading
  <2> QED
    BY <1>1, <1>2, <1>3, <1>4, <2>1 DEF FilesInv
<1>6. \/ resources' = resources /\ (phase' = "scan" =>
                                     ~(IsText(file) /\ HasSites(ResourceOf(file).sites)))
      \/ /\ IsText(file) /\ HasSites(ResourceOf(file).sites)
         /\ resources' = [k \in DOMAIN resources \cup {file.path} |->
                            IF k = file.path THEN ResourceOf(file) ELSE resources[k]]
  <2>1. CASE SkipEntry
    BY <2>1 DEF SkipEntry, IsText
  <2>2. CASE ScanEntry
    BY <1>1, <2>2 DEF ScanEntry, IsText, Inserted, ResourceOf
  <2> QED
    BY <2>1, <2>2
<1>7. ResourcesInv'
  <2> DEFINE From(k, i) == IsText(files[i]) /\ files[i].path = k
             Seen(i) == IsText(files[i]) /\ HasSites(ResourceOf(files[i]).sites)
  <2>1. /\ \A k \in DOMAIN resources : \E i \in 1 .. next - 1 :
              From(k, i) /\ resources[k] = ResourceOf(files[i])
        /\ \A i \in 1 .. next - 1 : Seen(i) => files[i].path \in DOMAIN resources
    BY <1>1 DEF ResourcesInv
  <2>2. /\ \A i \in 1 .. next - 1 : i \in 1 .. next' - 1
        /\ next \in 1 .. next' - 1
        /\ \A i \in 1 .. next' - 1 : i \in 1 .. next - 1 \/ i = next
    BY <1>1, <1>2
  <2>3. \A k \in DOMAIN resources' : \E i \in 1 .. next' - 1 :
            From(k, i) /\ resources'[k] = ResourceOf(files[i])
    <3> TAKE k \in DOMAIN resources'
    <3>1. CASE k \in DOMAIN resources /\ resources'[k] = resources[k]
      <4>1. PICK i \in 1 .. next - 1 : From(k, i) /\ resources[k] = ResourceOf(files[i])
        BY <2>1, <3>1
      <4> QED
        BY <2>2, <3>1, <4>1
    <3>2. CASE k = file.path /\ IsText(file) /\ resources'[k] = ResourceOf(file)
      BY <2>2, <3>2
    <3> QED
      BY <1>6, <3>1, <3>2
  <2>4. ASSUME phase' = "scan", NEW i \in 1 .. next' - 1, Seen(i)
        PROVE  files[i].path \in DOMAIN resources'
    <3>1. CASE i \in 1 .. next - 1
      BY <1>6, <2>1, <2>4, <3>1
    <3>2. CASE i = next
      BY <1>6, <2>4, <3>2
    <3> QED
      BY <2>2, <3>1, <3>2
  <2>5. files' = files
    BY <1>1
  <2> QED
    BY <1>3, <2>3, <2>4, <2>5 DEF ResourcesInv, IsText, IsScannableEntry, ResourceOf
<1>8. PlanInv'
  BY <1>1, <1>3 DEF PlanInv
<1> QED
  BY <1>5, <1>7, <1>8 DEF IInv

LEMMA FinishKeeps == ASSUME IInv, FinishPlan PROVE IInv'
<1> DEFINE result == Finish(resources)
           targets == TargetPaths(result, resources)
           paths == ResourceRequestPaths(ArchivePaths, targets)
<1>1. /\ FilesInv /\ ResourcesInv /\ PlanInv /\ phase = "scan" /\ next > Len(files)
      /\ plan' = result /\ UNCHANGED <<archive, files, next, resources, extent>>
      /\ \/ /\ paths.ok /\ phase' = "planned" /\ requestPaths' = RuntimeRequestPaths(paths.map)
         \/ phase' = "failed"
  BY DEF IInv, FinishPlan
<1>2. FilesInv'
  BY <1>1 DEF FilesInv, Reading
<1>3. ResourcesInv'
  BY <1>1 DEF ResourcesInv, IsText, IsScannableEntry, ResourceOf
<1>4. PlanInv'
  <2>1. ArchivePaths' = ArchivePaths
    BY <1>1 DEF ArchivePaths
  <2>2. Targets' = targets
    BY <1>1 DEF Targets, TargetPaths
  <2> HIDE DEF targets
  <2> QED
    BY <1>1, <2>1, <2>2 DEF PlanInv, RequestPathsFor
<1> QED
  BY <1>2, <1>3, <1>4 DEF IInv

LEMMA InvStep == IInv /\ [Next]_vars => IInv'
<1>1. ASSUME IInv, UNCHANGED vars PROVE IInv'
  <2> USE DEF vars
  <2>1. FilesInv'
    BY <1>1 DEF IInv, FilesInv, Reading
  <2>2. ResourcesInv'
    BY <1>1 DEF IInv, ResourcesInv, IsText, IsScannableEntry, ResourceOf
  <2>3. PlanInv'
    BY <1>1 DEF IInv, PlanInv, ArchivePaths, Targets
  <2> QED
    BY <2>1, <2>2, <2>3 DEF IInv
<1> QED
  BY <1>1, OpenKeeps, ScanKeeps, FinishKeeps DEF Next

LEMMA Invariant == Spec => []IInv
BY InvInit, InvStep, PTL DEF Spec

(***************************************************************************)
(* What follows from it.                                                   *)
(***************************************************************************)
(* No number in the file makes the launcher panic, or read or allocate     *)
(* beyond the end of the archive.                                          *)
THEOREM ReadsStayInsideAlways == Spec => []ReadsStayInside
<1>1. IInv => ReadsStayInside
  BY DEF IInv, FilesInv, ReadsStayInside
<1> QED
  BY <1>1, Invariant, PTL

LEMMA ResourceFacts ==
    ASSUME IInv
    PROVE  /\ \A k \in DOMAIN resources :
                /\ WellFormed(resources[k])
                /\ resources[k].sites = DetectResource(resources[k].content)
                /\ \A f \in Features : IsFiniteSet(resources[k].sites[f])
           /\ DOMAIN resources \subseteq ArchivePaths
           /\ \A k \in DOMAIN resources : IsJavascriptPath(k)
<1> SUFFICES ASSUME NEW k \in DOMAIN resources
             PROVE  /\ WellFormed(resources[k])
                    /\ resources[k].sites = DetectResource(resources[k].content)
                    /\ \A f \in Features : IsFiniteSet(resources[k].sites[f])
                    /\ k \in ArchivePaths /\ IsJavascriptPath(k)
  OBVIOUS
<1>1. FilesInv /\ ResourcesInv
  BY DEF IInv
<1>2. PICK i \in 1 .. next - 1 : /\ IsText(files[i]) /\ files[i].path = k
                                /\ resources[k] = ResourceOf(files[i])
  BY <1>1 DEF ResourcesInv
<1>3. i \in 1 .. Len(files)
  BY <1>1, FilesInvFacts DEF FilesInv
<1> DEFINE file == files[i]
<1>4. file \in FilesOf(archive) /\ archive \in Archives
  BY <1>1, <1>3, FilesInvFacts, ElementOfSeq DEF FilesInv
<1> HIDE DEF file
<1>5. /\ WellFormed(ResourceOf(file))
      /\ \A f \in Features : IsFiniteSet(ResourceOf(file).sites[f])
  BY <1>4, ResourceIsWellFormed
<1>6. k \in ArchivePaths
  BY <1>1, <1>2, <1>3, FilesInvFacts DEF ArchivePaths
<1>7. ResourceOf(file).sites = DetectResource(ResourceOf(file).content)
  BY DEF ResourceOf
<1> QED
  BY <1>2, <1>5, <1>6, <1>7 DEF file, IsText, IsScannableEntry

LEMMA PlanFacts ==
    ASSUME IInv
    PROVE  \/ plan = BlockedPlan /\ (phase = "planned" => Blocked(resources))
           \/ /\ plan = Planned(resources)
              /\ InitialStatus(resources) # "unsafe"
              /\ \A k \in DOMAIN resources : ~Unpatched(resources[k])
<1>1. \A k \in DOMAIN resources : WellFormed(resources[k])
  BY ResourceFacts
<1>2. \/ Finish(resources) = BlockedPlan /\ Blocked(resources)
      \/ /\ Finish(resources) = Planned(resources)
         /\ InitialStatus(resources) # "unsafe"
         /\ \A k \in DOMAIN resources : ~Unpatched(resources[k])
  BY <1>1, FinishIsSound
<1>3. /\ plan = BlockedPlan \/ plan = Finish(resources)
      /\ phase = "planned" => plan = Finish(resources)
  BY DEF IInv, PlanInv
<1> QED
  BY <1>2, <1>3

(* Whatever edits the features ask for, a text that is planned is the      *)
(* original with all of them made at once.                                 *)
THEOREM PatchesAreSimultaneous == Spec => []PatchIsSimultaneous
<1>1. ASSUME IInv PROVE PatchIsSimultaneous
  <2>1. CASE plan = BlockedPlan
    BY <2>1, EmptyDomain DEF PatchIsSimultaneous, BlockedPlan
  <2>2. CASE plan = Planned(resources)
    BY <2>2 DEF PatchIsSimultaneous, Planned, PatchedResource, Patched
  <2> QED
    BY <1>1, <2>1, <2>2, PlanFacts
<1> QED
  BY <1>1, Invariant, PTL

(* finish never returns an error, and blocks no plan without a reason.     *)
THEOREM RefusalsHaveReasons == Spec => []RefusedForAReason
<1>1. ASSUME IInv PROVE RefusedForAReason
  <2>1. CASE plan = BlockedPlan /\ (phase = "planned" => Blocked(resources))
    <3>1. ConflictsAreReported
      BY <2>1 DEF ConflictsAreReported, BlockedPlan
    <3>2. BlockedForAReason
      BY <2>1 DEF BlockedForAReason, Blocked, NotPatchedBy, Unpatched, Patched
    <3> QED
      BY <3>1, <3>2 DEF RefusedForAReason
  <2>2. CASE plan = Planned(resources) /\ InitialStatus(resources) # "unsafe"
    BY <2>2 DEF RefusedForAReason, ConflictsAreReported, BlockedForAReason, Planned
  <2> QED
    BY <1>1, <2>1, <2>2, PlanFacts
<1> QED
  BY <1>1, Invariant, PTL

LEMMA AcceptedFacts ==
    ASSUME IInv, Accepted
    PROVE  /\ plan = Planned(resources)
           /\ Targets = DOMAIN resources
           /\ InitialStatus(resources) # "unsafe"
           /\ \A k \in DOMAIN resources : ~Unpatched(resources[k])
           /\ \A k \in Targets : plan.resources[k].content = Patched(resources[k])
           /\ next > Len(files)
           /\ ResourceRequestPaths(ArchivePaths, Targets).ok
           /\ requestPaths = RequestPathsFor(ArchivePaths, Targets)
           /\ ArePaths(ArchivePaths) /\ ArePlanned(ArchivePaths, Targets)
<1>1. plan.status # "unsafe" /\ phase = "planned"
  BY DEF Accepted
<1>2. plan # BlockedPlan
  BY <1>1 DEF BlockedPlan
<1>3. /\ plan = Planned(resources)
      /\ InitialStatus(resources) # "unsafe"
      /\ \A k \in DOMAIN resources : ~Unpatched(resources[k])
  BY <1>2, PlanFacts
<1>4. Targets = DOMAIN resources
  BY <1>3 DEF Targets, Planned
<1>5. \A k \in Targets : plan.resources[k].content = Patched(resources[k])
  BY <1>3, <1>4 DEF Planned, PatchedResource
<1>6. /\ next > Len(files)
      /\ ResourceRequestPaths(ArchivePaths, Targets).ok
      /\ requestPaths = RequestPathsFor(ArchivePaths, Targets)
  BY <1>1 DEF IInv, PlanInv
<1>7. ArePaths(ArchivePaths)
  <2>1. /\ IsArchive(archive) /\ files \in Seq(FilesOf(archive)) /\ Len(files) \in Nat
        /\ DOMAIN files = 1 .. Len(files)
    BY FilesInvFacts DEF IInv
  <2>2. \A i \in DOMAIN files : IsPath(files[i].path)
    BY <2>1, ElementOfSeq, FileFacts
  <2> DEFINE pathOf == [i \in DOMAIN files |-> files[i].path]
  <2>3. Range(pathOf) = ArchivePaths
    BY DEF Range, ArchivePaths
  <2>4. IsFiniteSet(DOMAIN files) /\ DOMAIN pathOf = DOMAIN files
    BY <2>1, FS_Interval
  <2> HIDE DEF pathOf
  <2>5. IsFiniteSet(ArchivePaths)
    BY <2>3, <2>4, FiniteImage
  <2> QED
    BY <2>2, <2>5 DEF ArePaths, ArchivePaths
<1>8. ArePlanned(ArchivePaths, Targets)
  BY <1>4, ResourceFacts DEF ArePlanned
<1> QED
  BY <1>3, <1>4, <1>5, <1>6, <1>7, <1>8

(* Rules that report valid ranges in every script of the archives (those of *)
(* FastRules do, RulesAreSound) never make a plan unsafe by their ranges:   *)
(* what blocks it is a missing Core feature, edits that conflict, or a text *)
(* that is not seen as patched.                                             *)
THEOREM SoundRulesAreNotRefused ==
    ASSUME \A a \in Archives : \A i \in DOMAIN a.entries : \A f \in Features :
               \A site \in Detect(f, a.entries[i].content) :
                   ~InvalidSite(a.entries[i].content, site)
    PROVE  Spec => [](\A k \in DOMAIN resources :
                          ~AnyInvalid(resources[k].content, resources[k].sites))
<1>1. ASSUME IInv, NEW k \in DOMAIN resources
      PROVE  ~AnyInvalid(resources[k].content, resources[k].sites)
  <2>1. FilesInv /\ ResourcesInv
    BY <1>1 DEF IInv
  <2>2. PICK i \in 1 .. next - 1 : resources[k] = ResourceOf(files[i])
    BY <2>1 DEF ResourcesInv
  <2> DEFINE file == files[i]
             content == file.bytes.content
  <2>3. file \in FilesOf(archive) /\ archive \in Archives
    <3>1. i \in 1 .. Len(files)
      BY <2>1, FilesInvFacts DEF FilesInv
    <3> QED
      BY <2>1, <3>1, FilesInvFacts, ElementOfSeq DEF FilesInv
  <2> HIDE DEF file
  <2>4. PICK e \in DOMAIN archive.entries : content = archive.entries[e].content
    BY <2>3, FileIsAnEntry
  <2>5. \A f \in Features : \A site \in Detect(f, content) : ~InvalidSite(content, site)
    BY <2>3, <2>4
  <2>6. resources[k].content = content /\ resources[k].sites = DetectResource(content)
    BY <2>2 DEF ResourceOf, file
  <2> HIDE DEF content
  <2>7. \A f \in Features : DetectResource(content)[f] \subseteq Detect(f, content)
    BY DEF DetectResource
  <2> QED
    BY <2>5, <2>6, <2>7 DEF AnyInvalid
<1>2. IInv => \A k \in DOMAIN resources : ~AnyInvalid(resources[k].content, resources[k].sites)
  BY <1>1
<1> QED
  BY <1>2, Invariant, PTL

(* A Core feature has a site in some resource, and as many after patching: *)
(* readiness waits for at least that resource.                             *)
THEOREM ReadinessIsAwaited == Spec => []ReadinessIsNeverVacuous
<1>1. ASSUME IInv, Accepted, NEW f \in Core
      PROVE  \E k \in DOMAIN plan.resources :
               /\ plan.resources[k].requiredForReady
               /\ DetectResource(plan.resources[k].content)[f] # {}
  <2>1. f \in Features
    BY FeaturesAssumption
  <2>2. PICK k \in DOMAIN resources : resources[k].sites[f] # {}
    BY <1>1, AcceptedFacts DEF InitialStatus, Found
  <2> DEFINE before == resources[k].sites[f]
             after == DetectResource(Patched(resources[k]))[f]
  <2>3. Cardinality(after) = Cardinality(before)
    BY <1>1, <2>1, AcceptedFacts DEF Unpatched, VerificationFails
  <2>4. IsFiniteSet(before)
    BY <1>1, <2>1, ResourceFacts
  <2>5. before # {}
    BY <2>2
  <2> HIDE DEF before, after
  <2>6. after # {}
    BY <2>3, <2>4, <2>5, FS_EmptySet
  <2>7. plan.resources[k].requiredForReady /\ k \in DOMAIN plan.resources
    BY <1>1, <2>2, AcceptedFacts DEF Planned, PatchedResource
  <2>8. plan.resources[k].content = Patched(resources[k])
    BY <1>1, AcceptedFacts
  <2> QED
    BY <2>6, <2>7, <2>8 DEF after
<1>2. IInv => ReadinessIsNeverVacuous
  BY <1>1 DEF ReadinessIsNeverVacuous
<1> QED
  BY <1>2, Invariant, PTL

(* A script that is asked for by its path is answered with a planned text, *)
(* which was seen as patched, or with its own, in which nothing was found. *)
THEOREM NothingGuarded == Spec => []NothingGuardedIsServed
<1>1. ASSUME IInv, Accepted, NEW i \in DOMAIN files, IsText(files[i])
      PROVE  LET served == Served(files[i].path)
                 text == IF served = NoResource THEN files[i].bytes.content
                         ELSE plan.resources[served].content
             IN  \A f \in Features : \A site \in DetectResource(text)[f] : site.edits = {}
  <2> DEFINE file == files[i]
             p == file.path
             served == Served(p)
             known == PathSuffixes(p) \cap DOMAIN requestPaths
             Longest(s) == \A other \in known : Len(other) <= Len(s)
             longest == CHOOSE s \in known : Longest(s)
  <2>1. file \in FilesOf(archive) /\ IsArchive(archive) /\ IsPath(p) /\ i \in 1 .. Len(files)
    BY <1>1, FilesInvFacts, ElementOfSeq, FileFacts DEF IInv
  <2>2. served = IF known = {} THEN NoResource ELSE requestPaths[longest]
    BY DEF Served, NormalizeAppResource
  <2>3. ASSUME known # {} PROVE served \in Targets
    <3>1. longest \in known
      <4>1. \E s \in known : Longest(s)
        BY <2>1, <2>3, LongestSuffix
      <4> HIDE DEF known, Longest
      <4> QED
        BY <4>1
    <3> HIDE DEF longest
    <3>2. requestPaths[longest] \in Targets
      BY <1>1, <3>1, AcceptedFacts, RequestPathOf
    <3> QED
      BY <2>2, <2>3, <3>2
  <2> HIDE DEF longest
  <2>4. CASE served = NoResource
    <3>1. known = {}
      <4>1. \A t \in Targets : IsPath(t)
        BY <1>1, AcceptedFacts DEF ArePaths, ArePlanned
      <4> HIDE DEF served, known
      <4> QED
        BY <2>3, <2>4, <4>1 DEF NoResource, IsPath
    <3>2. p \notin Targets
      <4> SUFFICES ASSUME p \in Targets PROVE FALSE
        OBVIOUS
      <4>1. PathsOf(ArchivePaths, Targets, p) # {}
        BY <1>1, AcceptedFacts DEF ResourceRequestPaths
      <4>2. PICK s \in PathsOf(ArchivePaths, Targets, p) : TRUE
        BY <4>1
      <4>3. s \in DOMAIN requestPaths
        BY <1>1, <4>2, AcceptedFacts, RequestPathOf
      <4>4. s \in PathSuffixes(p)
        BY <1>1, <4>2, AcceptedFacts, PathsAreSuffixes
      <4> QED
        BY <3>1, <4>3, <4>4
    <3>3. ~HasSites(ResourceOf(file).sites)
      <4>1. phase = "planned" /\ next > Len(files) /\ Targets = DOMAIN resources
        BY <1>1, AcceptedFacts DEF Accepted
      <4>2. i \in 1 .. next - 1
        BY <1>1, <2>1, <4>1, FilesInvFacts DEF IInv, FilesInv
      <4> QED
        BY <1>1, <3>2, <4>1, <4>2 DEF IInv, ResourcesInv
    <3>4. \A f \in Features : DetectResource(file.bytes.content)[f] = {}
      BY <3>3 DEF HasSites, ResourceOf
    <3> QED
      BY <2>4, <3>4
  <2>5. CASE served # NoResource
    <3>1. served \in Targets
      BY <2>2, <2>3, <2>5
    <3> HIDE DEF served
    <3>2. plan.resources[served].content = Patched(resources[served]) /\ ~Unpatched(resources[served])
      BY <1>1, <3>1, AcceptedFacts
    <3>3. \A f \in Features : \A site \in DetectResource(Patched(resources[served]))[f] : site.edits = {}
      BY <3>2 DEF Unpatched, VerificationFails
    <3> QED
      BY <2>5, <3>2, <3>3 DEF served
  <2> QED
    BY <2>4, <2>5
<1>2. ASSUME IInv PROVE NothingGuardedIsServed
  <2> SUFFICES ASSUME Accepted PROVE NothingGuardedIsServed
    BY DEF NothingGuardedIsServed
  <2> QED
    BY <1>1, <1>2 DEF NothingGuardedIsServed, IsText
<1> QED
  BY <1>2, Invariant, PTL

(* A request for a planned script is answered with it, and one for another *)
(* script is not answered with it by a suffix that both have.              *)
THEOREM RequestsReach == Spec => []RequestsReachTheirScript
<1>1. ASSUME IInv, Accepted, NEW t \in Targets, NEW u \in UrlPaths(t),
             IsSafeRequestPath(u) \/ UniqueSuffixes(ArchivePaths, t) # {}
      PROVE  /\ \A query \in {"plain", "query"} : Intercepted(u, query, requestPaths)
             /\ Served(u) = t
  <2>1. u \in UrlsOf(ArchivePaths, Targets, t)
    BY DEF UrlPaths, UrlsOf
  <2>2. /\ \E s \in DOMAIN requestPaths : IsSuffix(s, u)
        /\ NormalizeAppResource(u, requestPaths) = t
    BY <1>1, <2>1, AcceptedFacts, PlannedIsServed
  <2>3. PICK s \in DOMAIN requestPaths : IsSuffix(s, u)
    BY <2>2
  <2>4. ASSUME NEW query \in {"plain", "query"} PROVE Intercepted(u, query, requestPaths)
    <3>1. <<s, query>> \in FetchPatterns(requestPaths)
      BY DEF FetchPatterns
    <3>2. <<s, query>>[1] = s /\ <<s, query>>[2] = query
      OBVIOUS
    <3> QED
      BY <2>3, <3>1, <3>2 DEF Intercepted
  <2> QED
    BY <2>2, <2>4 DEF Served
<1>2. ASSUME IInv, Accepted, NEW path \in ArchivePaths \ Targets,
             NEW s \in PathSuffixes(path) \cap DOMAIN requestPaths, IsJavascriptPath(path)
      PROVE  \E root \in RendererRoots(ArchivePaths, Targets) :
               s = RelativeToRoot(root, requestPaths[s])
  BY <1>2, AcceptedFacts, SharedSuffix
<1>3. IInv => PlannedIsServedAsItself
  BY <1>1 DEF PlannedIsServedAsItself
<1>4. IInv => UniqueSuffixIsUnique
  BY <1>2 DEF UniqueSuffixIsUnique
<1>5. IInv => RequestsReachTheirScript
  BY <1>3, <1>4 DEF RequestsReachTheirScript
<1> QED
  BY <1>5, Invariant, PTL
=============================================================================
