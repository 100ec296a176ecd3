--------------------------- MODULE SequenceLemmas ---------------------------
(***************************************************************************)
(* Induction and recursion over the numbers, for the proofs of the other   *)
(* modules: the sets and functions here stand for the predicates and       *)
(* operators that a theorem cannot be handed.                              *)
(***************************************************************************)
EXTENDS Integers, Sequences, FiniteSets, SequencesExt, SequenceTheorems, FiniteSetTheorems,
        WellFoundedInduction, TLAPS

LEMMA LeastNumber ==
    ASSUME NEW T, T \subseteq Nat, T # {}
    PROVE  \E x \in T : \A y \in T : ~(y < x)
<1> DEFINE R == OpToRel(<, Nat)
<1>1. IsWellFoundedOn(R, Nat)
  BY NatLessThanWellFounded
<1>2. PICK x \in T : \A y \in T : ~(<<y, x>> \in R)
  <2> HIDE DEF R
  <2> QED
    BY <1>1, WFMin
<1>3. \A y \in T : y < x => <<y, x>> \in R
  BY DEF OpToRel
<1> QED
  BY <1>2, <1>3

(* A set that holds 0 and with each number the next one holds them all. *)
LEMMA Induction ==
    ASSUME NEW T, 0 \in T, \A n \in Nat : n \in T => n + 1 \in T
    PROVE  Nat \subseteq T
<1> DEFINE M == Nat \ T
<1>1. SUFFICES ASSUME M # {} PROVE FALSE
  OBVIOUS
<1>2. PICK m \in M : \A y \in M : ~(y < m)
  <2> HIDE DEF M
  <2>1. M \subseteq Nat
    BY DEF M
  <2> QED
    BY <1>1, <2>1, LeastNumber
<1>3. m - 1 \in Nat /\ m - 1 \notin M
  BY <1>2
<1> QED
  BY <1>2, <1>3

(* A step function determines what it is iterated to. *)
IsIteration(f, n, T, base, step) ==
    /\ f \in [0 .. n -> T]
    /\ f[0] = base
    /\ \A i \in 0 .. n : i < n => f[i + 1] = step[i][f[i]]

LEMMA IterationsAgree ==
    ASSUME NEW T, NEW base, NEW step, NEW m \in Nat, NEW n \in Nat, m <= n,
           NEW f, IsIteration(f, m, T, base, step),
           NEW g, IsIteration(g, n, T, base, step)
    PROVE  \A i \in 0 .. m : f[i] = g[i]
<1> DEFINE P == {i \in Nat : i <= m => f[i] = g[i]}
<1>1. 0 \in P
  BY DEF IsIteration
<1>2. \A i \in Nat : i \in P => i + 1 \in P
  BY DEF IsIteration
<1>3. Nat \subseteq P
  <2> HIDE DEF P
  <2> QED
    BY <1>1, <1>2, Induction
<1> QED
  BY <1>3

LEMMA IterationExists ==
    ASSUME NEW T, NEW base \in T, NEW step \in [Nat -> [T -> T]], NEW n \in Nat
    PROVE  \E f : IsIteration(f, n, T, base, step)
<1> DEFINE P == {i \in Nat : \E f : IsIteration(f, i, T, base, step)}
<1>1. 0 \in P
  <2>1. IsIteration([i \in 0 .. 0 |-> base], 0, T, base, step)
    BY DEF IsIteration
  <2> QED
    BY <2>1
<1>2. ASSUME NEW i \in Nat, i \in P PROVE i + 1 \in P
  <2>1. PICK f : IsIteration(f, i, T, base, step)
    BY <1>2
  <2> DEFINE g == [k \in 0 .. i + 1 |-> IF k = i + 1 THEN step[i][f[i]] ELSE f[k]]
  <2>2. f[i] \in T
    BY <2>1 DEF IsIteration
  <2>3. g \in [0 .. i + 1 -> T] /\ g[0] = base
    BY <2>1, <2>2 DEF IsIteration
  <2>4. ASSUME NEW k \in 0 .. i + 1, k < i + 1 PROVE g[k + 1] = step[k][g[k]]
    BY <2>1, <2>4 DEF IsIteration
  <2>5. IsIteration(g, i + 1, T, base, step)
    <3> HIDE DEF g
    <3> QED
      BY <2>3, <2>4 DEF IsIteration
  <2> QED
    BY <2>5
<1>3. Nat \subseteq P
  <2> HIDE DEF P
  <2> QED
    BY <1>1, <1>2, Induction
<1> QED
  BY <1>3

IsRecursion(f, T, base, step) ==
    f \in [Nat -> T] /\ f[0] = base /\ \A n \in Nat : f[n + 1] = step[n][f[n]]

LEMMA Recursion ==
    ASSUME NEW T, NEW base \in T, NEW step \in [Nat -> [T -> T]]
    PROVE  \E f : IsRecursion(f, T, base, step)
<1> DEFINE It(n) == CHOOSE f : IsIteration(f, n, T, base, step)
           f == [n \in Nat |-> It(n)[n]]
<1>1. \A n \in Nat : IsIteration(It(n), n, T, base, step)
  BY IterationExists
<1> HIDE DEF It
<1>2. f \in [Nat -> T] /\ f[0] = base
  BY <1>1 DEF IsIteration
<1>3. ASSUME NEW n \in Nat PROVE f[n + 1] = step[n][f[n]]
  <2>1. It(n)[n] = It(n + 1)[n]
    BY <1>1, IterationsAgree
  <2>2. It(n + 1)[n + 1] = step[n][It(n + 1)[n]]
    BY <1>1 DEF IsIteration
  <2> QED
    BY <2>1, <2>2
<1> HIDE DEF f
<1> QED
  BY <1>2, <1>3 DEF IsRecursion

-----------------------------------------------------------------------------
(* What joining sequences needs of a set of them, so that the proofs below *)
(* need not look at their elements.                                        *)
Joinable(Q) ==
    /\ <<>> \in Q
    /\ \A s, t \in Q : s \o t \in Q
    /\ \A s \in Q : <<>> \o s = s /\ s \o <<>> = s
    /\ \A s, t, u \in Q : (s \o t) \o u = s \o (t \o u)

LEMMA SequencesAreJoinable == ASSUME NEW S PROVE Joinable(Seq(S))
<1>1. <<>> \in Seq(S)
  BY EmptySeq
<1>2. \A s, t \in Seq(S) : s \o t \in Seq(S)
  BY ConcatProperties
<1>3. \A s \in Seq(S) : <<>> \o s = s /\ s \o <<>> = s
  BY ConcatEmptySeq
<1>4. \A s, t, u \in Seq(S) : (s \o t) \o u = s \o (t \o u)
  BY ConcatAssociative
<1> QED
  BY <1>1, <1>2, <1>3, <1>4 DEF Joinable

(* What FlattenSeq has joined after each of the n sequences. *)
IsFlattening(f, n, ss, Q) ==
    /\ f \in [0 .. n -> Q]
    /\ f[0] = <<>>
    /\ \A i \in 1 .. n : f[i] = f[i - 1] \o ss[i]

LEMMA FlatteningExists ==
    ASSUME NEW Q, Joinable(Q), NEW n \in Nat, NEW ss \in [1 .. n -> Q]
    PROVE  \E f : IsFlattening(f, n, ss, Q)
<1>e. <<>> \in Q
  BY DEF Joinable
<1>c. \A s, t \in Q : s \o t \in Q
  BY DEF Joinable
<1> DEFINE step == [i \in Nat |-> [x \in Q |-> IF i < n THEN x \o ss[i + 1] ELSE x]]
<1>1. step \in [Nat -> [Q -> Q]]
  <2>1. \A i \in Nat : i < n => ss[i + 1] \in Q
    OBVIOUS
  <2>2. \A i \in Nat : \A x \in Q : (IF i < n THEN x \o ss[i + 1] ELSE x) \in Q
    BY <1>c, <2>1
  <2> QED
    BY <2>2
<1>2. PICK f \in [Nat -> Q] : f[0] = <<>> /\ \A i \in Nat : f[i + 1] = step[i][f[i]]
  <2> HIDE DEF step
  <2>1. \E f : IsRecursion(f, Q, <<>>, step)
    BY <1>e, <1>1, Recursion
  <2> QED
    BY <2>1 DEF IsRecursion
<1> DEFINE g == [i \in 0 .. n |-> f[i]]
<1>3. \A i \in 1 .. n : g[i] = g[i - 1] \o ss[i]
  <2> TAKE i \in 1 .. n
  <2>1. i - 1 \in Nat /\ i - 1 < n /\ (i - 1) + 1 = i /\ i \in 0 .. n /\ i - 1 \in 0 .. n
    OBVIOUS
  <2>2. f[(i - 1) + 1] = step[i - 1][f[i - 1]]
    BY <1>2, <2>1
  <2>3. step[i - 1][f[i - 1]] = f[i - 1] \o ss[(i - 1) + 1]
    BY <1>2, <2>1
  <2> QED
    BY <2>1, <2>2, <2>3
<1>4. g \in [0 .. n -> Q] /\ g[0] = <<>>
  BY <1>2
<1> QED
  <2> HIDE DEF g
  <2> QED
    BY <1>3, <1>4 DEF IsFlattening

LEMMA FlattenIs ==
    ASSUME NEW Q, Joinable(Q), NEW n \in Nat, NEW ss \in [1 .. n -> Q], Len(ss) = n,
           n = 0 => ss = <<>>,
           NEW f, IsFlattening(f, n, ss, Q)
    PROVE  FlattenSeq(ss) = f[n]
<1>0. /\ \A i \in 0 .. n : f[i] \in Q
      /\ f[0] = <<>>
      /\ \A i \in 1 .. n : f[i] = f[i - 1] \o ss[i]
  BY DEF IsFlattening
<1>u. \A s \in Q : <<>> \o s = s
  BY DEF Joinable
<1>1. CASE n = 0
  BY <1>0, <1>1 DEF FlattenSeq
<1>2. CASE n # 0
  <2> DEFINE Joins(g) == g = [i \in 1 .. n |-> IF i = 1 THEN ss[i] ELSE g[i - 1] \o ss[i]]
             h == [i \in 1 .. n |-> f[i]]
  <2>0. f[1] = ss[1]
    <3>1. 1 \in 1 .. n /\ 1 - 1 = 0
      BY <1>2
    <3>2. f[1] = f[1 - 1] \o ss[1] /\ ss[1] \in Q
      BY <1>0, <3>1
    <3> QED
      BY <1>0, <1>u, <3>1, <3>2
  <2>1. Joins(h)
    <3>1. ASSUME NEW i \in 1 .. n PROVE f[i] = IF i = 1 THEN ss[i] ELSE h[i - 1] \o ss[i]
      <4>1. CASE i = 1
        BY <2>0, <4>1
      <4>2. CASE i # 1
        <5>1. i - 1 \in 1 .. n
          BY <4>2
        <5>2. h[i - 1] = f[i - 1]
          BY <5>1
        <5> QED
          BY <1>0, <4>2, <5>2
      <4> QED
        BY <4>1, <4>2
    <3> QED
      BY <3>1
  <2> DEFINE flatten == CHOOSE g : Joins(g)
  <2>2. Joins(flatten)
    <3> HIDE DEF Joins, h
    <3> QED
      BY <2>1
  <2> HIDE DEF flatten
  <2> DEFINE P == {i \in Nat : i \in 1 .. n => flatten[i] = f[i]}
  <2>3. 0 \in P
    OBVIOUS
  <2>4. ASSUME NEW i \in Nat, i \in P PROVE i + 1 \in P
    <3> SUFFICES ASSUME i + 1 \in 1 .. n PROVE flatten[i + 1] = f[i + 1]
      OBVIOUS
    <3>1. flatten[i + 1] = IF i + 1 = 1 THEN ss[i + 1] ELSE flatten[(i + 1) - 1] \o ss[i + 1]
      BY <2>2
    <3>2. CASE i = 0
      BY <2>0, <3>1, <3>2
    <3>3. CASE i # 0
      <4>1. i \in 1 .. n /\ (i + 1) - 1 = i /\ i + 1 # 1
        BY <3>3
      <4>2. flatten[i] = f[i]
        BY <2>4, <4>1
      <4>3. f[i + 1] = f[(i + 1) - 1] \o ss[i + 1]
        BY <1>0
      <4> HIDE DEF P, Joins
      <4> QED
        BY <3>1, <4>1, <4>2, <4>3
    <3> QED
      BY <3>2, <3>3
  <2>5. Nat \subseteq P
    <3> HIDE DEF P
    <3> QED
      BY <2>3, <2>4, Induction
  <2>6. flatten[n] = f[n]
    <3>1. n \in Nat /\ n \in 1 .. n
      BY <1>2
    <3> QED
      BY <2>5, <3>1
  <2>7. FlattenSeq(ss) = flatten[n]
    BY <1>2 DEF FlattenSeq, flatten
  <2> QED
    BY <2>6, <2>7
<1> QED
  BY <1>1, <1>2

LEMMA FlattenOf ==
    ASSUME NEW S, NEW ss \in Seq(Seq(S))
    PROVE  \E f : IsFlattening(f, Len(ss), ss, Seq(S)) /\ FlattenSeq(ss) = f[Len(ss)]
<1>1. Len(ss) \in Nat /\ ss \in [1 .. Len(ss) -> Seq(S)] /\ (Len(ss) = 0 => ss = <<>>)
  BY LenProperties, EmptySeq
<1>2. Joinable(Seq(S))
  BY SequencesAreJoinable
<1>3. PICK f : IsFlattening(f, Len(ss), ss, Seq(S))
  BY <1>1, <1>2, FlatteningExists
<1> QED
  BY <1>1, <1>2, <1>3, FlattenIs

LEMMA FlattenType ==
    ASSUME NEW S, NEW ss \in Seq(Seq(S)) PROVE FlattenSeq(ss) \in Seq(S)
<1>1. PICK f : IsFlattening(f, Len(ss), ss, Seq(S)) /\ FlattenSeq(ss) = f[Len(ss)]
  BY FlattenOf
<1>2. Len(ss) \in 0 .. Len(ss)
  BY LenProperties
<1>3. f \in [0 .. Len(ss) -> Seq(S)]
  BY <1>1 DEF IsFlattening
<1> QED
  BY <1>1, <1>2, <1>3

LEMMA FlattenEmpty == FlattenSeq(<<>>) = <<>>
BY DEF FlattenSeq

LEMMA FlatteningAppend ==
    ASSUME NEW Q, Joinable(Q), NEW m \in Nat, NEW ss \in [1 .. m -> Q],
           NEW tt \in [1 .. m + 1 -> Q], \A i \in 1 .. m : tt[i] = ss[i],
           NEW f, IsFlattening(f, m, ss, Q)
    PROVE  \E g : IsFlattening(g, m + 1, tt, Q) /\ g[m + 1] = f[m] \o tt[m + 1]
<1> DEFINE g == [i \in 0 .. m + 1 |-> IF i = m + 1 THEN f[m] \o tt[m + 1] ELSE f[i]]
<1>1. /\ \A i \in 0 .. m : f[i] \in Q
      /\ f[0] = <<>> /\ \A i \in 1 .. m : f[i] = f[i - 1] \o ss[i]
  BY DEF IsFlattening
<1>2. g \in [0 .. m + 1 -> Q]
  <2>1. f[m] \in Q /\ tt[m + 1] \in Q
    BY <1>1
  <2>2. f[m] \o tt[m + 1] \in Q
    BY <2>1 DEF Joinable
  <2> QED
    BY <1>1, <2>2
<1>3. g[0] = <<>>
  BY <1>1
<1>4. ASSUME NEW i \in 1 .. m + 1 PROVE g[i] = g[i - 1] \o tt[i]
  <2>0. g[i - 1] = f[i - 1]
    OBVIOUS
  <2>1. CASE i = m + 1
    <3>1. g[i] = f[m] \o tt[m + 1] /\ i - 1 = m
      BY <2>1
    <3> HIDE DEF g
    <3> QED
      BY <2>0, <2>1, <3>1
  <2>2. CASE i # m + 1
    <3>1. i \in 1 .. m
      BY <2>2
    <3>2. g[i] = f[i]
      BY <3>1
    <3> HIDE DEF g
    <3> QED
      BY <1>1, <2>0, <3>1, <3>2
  <2> QED
    BY <2>1, <2>2
<1>5. g[m + 1] = f[m] \o tt[m + 1]
  <2> DEFINE x == f[m] \o tt[m + 1]
             h == [i \in 0 .. m + 1 |-> IF i = m + 1 THEN x ELSE f[i]]
  <2>1. g = h /\ x = f[m] \o tt[m + 1]
    OBVIOUS
  <2> HIDE DEF g, x
  <2>2. h[m + 1] = x
    OBVIOUS
  <2> QED
    BY <2>1, <2>2
<1> HIDE DEF g
<1> QED
  BY <1>2, <1>3, <1>4, <1>5 DEF IsFlattening

LEMMA FlattenAppend ==
    ASSUME NEW S, NEW ss \in Seq(Seq(S)), NEW s \in Seq(S)
    PROVE  FlattenSeq(Append(ss, s)) = FlattenSeq(ss) \o s
<1> DEFINE Q == Seq(S)
           tt == Append(ss, s)
           m == Len(ss)
<1>1. tt \in Seq(Q) /\ Len(tt) = m + 1 /\ tt[m + 1] = s /\ m \in Nat
      /\ \A i \in 1 .. m : tt[i] = ss[i]
  BY AppendProperties, LenProperties
<1> HIDE DEF tt
<1>2. tt \in [1 .. m + 1 -> Q] /\ ss \in [1 .. m -> Q] /\ tt # <<>>
  BY <1>1, LenProperties
<1>3. PICK f : IsFlattening(f, m, ss, Q) /\ FlattenSeq(ss) = f[m]
  BY FlattenOf
<1>4. Joinable(Q)
  BY SequencesAreJoinable
<1> HIDE DEF Q
<1>5. PICK g : IsFlattening(g, m + 1, tt, Q) /\ g[m + 1] = f[m] \o tt[m + 1]
  BY <1>1, <1>2, <1>3, <1>4, FlatteningAppend
<1>6. FlattenSeq(tt) = g[m + 1]
  BY <1>1, <1>2, <1>4, <1>5, FlattenIs, SMTT(30)
<1> QED
  BY <1>1, <1>3, <1>5, <1>6 DEF tt

IsRest(tt, m, ss) == \A i \in 1 .. m : tt[i] = ss[i + 1]

LEMMA FlatteningHead ==
    ASSUME NEW Q, Joinable(Q), NEW m \in Nat, NEW ss \in [1 .. m + 1 -> Q],
           NEW tt \in [1 .. m -> Q], IsRest(tt, m, ss),
           NEW f, IsFlattening(f, m, tt, Q)
    PROVE  \E g : IsFlattening(g, m + 1, ss, Q) /\ g[m + 1] = ss[1] \o f[m]
<1> DEFINE g == [i \in 0 .. m + 1 |-> IF i = 0 THEN <<>> ELSE ss[1] \o f[i - 1]]
<1>1. /\ \A i \in 0 .. m : f[i] \in Q
      /\ f[0] = <<>> /\ \A i \in 1 .. m : f[i] = f[i - 1] \o tt[i]
  BY DEF IsFlattening
<1>e. <<>> \in Q
  BY DEF Joinable
<1>c. \A s, t \in Q : s \o t \in Q
  BY DEF Joinable
<1>u. \A s \in Q : <<>> \o s = s /\ s \o <<>> = s
  BY DEF Joinable
<1>a. \A s, t, u \in Q : s \o (t \o u) = (s \o t) \o u
  BY DEF Joinable
<1>s. ss[1] \in Q
  OBVIOUS
<1>2. \A i \in 1 .. m + 1 : g[i] = ss[1] \o f[i - 1]
  <2> DEFINE none == <<>>
             joined(i) == ss[1] \o f[i - 1]
             h == [i \in 0 .. m + 1 |-> IF i = 0 THEN none ELSE joined(i)]
  <2>1. g = h /\ \A i \in 1 .. m + 1 : joined(i) = ss[1] \o f[i - 1]
    OBVIOUS
  <2> HIDE DEF g, none, joined
  <2>2. \A i \in 1 .. m + 1 : h[i] = joined(i)
    OBVIOUS
  <2> QED
    BY <2>1, <2>2
<1>3. g \in [0 .. m + 1 -> Q]
  <2>1. \A i \in 1 .. m + 1 : f[i - 1] \in Q
    BY <1>1
  <2>2. \A i \in 1 .. m + 1 : ss[1] \o f[i - 1] \in Q
    BY <1>s, <2>1, <1>c
  <2> QED
    BY <1>e, <2>2
<1>4. g[0] = <<>>
  OBVIOUS
<1> HIDE DEF g
<1>5. ASSUME NEW i \in 1 .. m + 1 PROVE g[i] = g[i - 1] \o ss[i]
  <2>1. CASE i = 1
    <3>1. i - 1 = 0 /\ g[i] = ss[1] \o f[0]
      BY <1>2, <2>1
    <3> QED
      BY <1>1, <1>s, <1>4, <1>u, <2>1, <3>1, ZenonT(30)
  <2>2. CASE i # 1
    <3>1. i - 1 \in 1 .. m /\ (i - 1) + 1 = i /\ (i - 1) - 1 \in 0 .. m /\ i - 1 \in 1 .. m + 1
      BY <2>2
    <3> DEFINE x == f[(i - 1) - 1]
    <3>2. x \in Q /\ f[i - 1] = x \o tt[i - 1]
      BY <1>1, <3>1
    <3>3. tt[i - 1] = ss[i] /\ ss[i] \in Q
      BY <3>1 DEF IsRest
    <3>4. g[i] = ss[1] \o f[i - 1] /\ g[i - 1] = ss[1] \o x
      BY <1>2, <3>1
    <3> HIDE DEF x
    <3>5. ss[1] \o (x \o ss[i]) = (ss[1] \o x) \o ss[i]
      BY <1>a, <1>s, <3>2, <3>3
    <3> QED
      BY <3>2, <3>3, <3>4, <3>5
  <2> QED
    BY <2>1, <2>2
<1>6. g[m + 1] = ss[1] \o f[m]
  <2>1. m + 1 \in 1 .. m + 1 /\ (m + 1) - 1 = m
    OBVIOUS
  <2>2. g[m + 1] = ss[1] \o f[(m + 1) - 1]
    BY <1>2, <2>1
  <2> QED
    BY <2>1, <2>2
<1> QED
  BY <1>3, <1>4, <1>5, <1>6 DEF IsFlattening

LEMMA FlattenHead ==
    ASSUME NEW S, NEW ss \in Seq(Seq(S)), ss # <<>>
    PROVE  FlattenSeq(ss) = Head(ss) \o FlattenSeq(Tail(ss))
<1> DEFINE Q == Seq(S)
           tt == Tail(ss)
           m == Len(tt)
<1>1. /\ tt \in Seq(Q) /\ m \in Nat /\ Len(ss) = m + 1 /\ Head(ss) = ss[1]
      /\ \A i \in 1 .. m : tt[i] = ss[i + 1]
  BY EmptySeq, LenProperties, HeadTailProperties
<1> HIDE DEF tt
<1>2. ss \in [1 .. m + 1 -> Q] /\ tt \in [1 .. m -> Q]
  BY <1>1, LenProperties
<1>3. PICK f : IsFlattening(f, m, tt, Q) /\ FlattenSeq(tt) = f[m]
  BY <1>1, FlattenOf
<1>4. Joinable(Q)
  BY SequencesAreJoinable
<1> HIDE DEF Q, m
<1>n. m \in Nat /\ Len(ss) = m + 1 /\ (m + 1) \in Nat /\ m + 1 # 0
  BY <1>1
<1>t. IsRest(tt, m, ss)
  BY <1>1 DEF IsRest
<1>5. PICK g : IsFlattening(g, m + 1, ss, Q) /\ g[m + 1] = ss[1] \o f[m]
  BY <1>n, <1>t, <1>2, <1>3, <1>4, FlatteningHead
<1>6. FlattenSeq(ss) = g[m + 1]
  <2> DEFINE n == m + 1
  <2>1. n \in Nat /\ (n = 0 => ss = <<>>) /\ Len(ss) = n
    BY <1>n
  <2>2. IsFlattening(g, n, ss, Q) /\ ss \in [1 .. n -> Q]
    BY <1>5, <1>2
  <2> HIDE DEF n
  <2>3. FlattenSeq(ss) = g[n]
    BY <1>4, <2>1, <2>2, FlattenIs
  <2> QED
    BY <2>3 DEF n
<1> QED
  BY <1>1, <1>3, <1>5, <1>6 DEF tt

(* Where the joined sequences are the single elements of another sequence, *)
(* or empty.                                                               *)
Copied(ss, c, a, b) == \A i \in a + 1 .. b : ss[i] = <<c[i]>>

Extends(f, c, a, b) == f[b] = f[a] \o SubSeq(c, a + 1, b)

LEMMA FlatteningCopies ==
    ASSUME NEW S, NEW c \in Seq(S), NEW n \in Nat, n <= Len(c),
           NEW ss, NEW f, IsFlattening(f, n, ss, Seq(S)),
           NEW a \in 0 .. n, NEW b \in a .. n, Copied(ss, c, a, b)
    PROVE  Extends(f, c, a, b)
<1> DEFINE Q == Seq(S)
           Copies(m) == f[m] = f[a] \o SubSeq(c, a + 1, m)
           P == {d \in Nat : a + d <= b => Copies(a + d)}
<1>1. /\ \A i \in 0 .. n : f[i] \in Seq(S)
      /\ \A i \in 1 .. n : f[i] = f[i - 1] \o ss[i]
  BY DEF IsFlattening
<1>2. a \in Nat /\ b \in Nat /\ a <= b /\ b <= n /\ Len(c) \in Nat /\ f[a] \in Seq(S)
  BY <1>1, LenProperties
<1>a. \A s, t, u \in Q : s \o (t \o u) = (s \o t) \o u
  <2>1. Joinable(Q)
    BY SequencesAreJoinable
  <2> HIDE DEF Q
  <2> QED
    BY <2>1 DEF Joinable
<1>3. 0 \in P
  <2>1. SubSeq(c, a + 1, a) = <<>>
    BY <1>2, SubSeqEmpty
  <2>2. f[a] \o <<>> = f[a]
    BY <1>2, ConcatEmptySeq
  <2>3. a + 0 = a
    BY <1>2
  <2> QED
    BY <2>1, <2>2, <2>3
<1>4. ASSUME NEW d \in Nat, d \in P PROVE d + 1 \in P
  <2> DEFINE m == a + (d + 1)
  <2> SUFFICES ASSUME m <= b PROVE Copies(m)
    <3> HIDE DEF Copies
    <3> QED
      OBVIOUS
  <2>1. m - 1 = a + d /\ m \in 1 .. n /\ m \in a + 1 .. b /\ m \in Nat
        /\ a + d <= b /\ m - 1 \in 0 .. n
    BY <1>2
  <2>2. Copies(a + d)
    BY <1>4, <2>1
  <2> HIDE DEF P, m
  <2>3. f[m - 1] = f[a] \o SubSeq(c, a + 1, m - 1)
    BY <2>1, <2>2
  <2>4. f[m] = f[m - 1] \o <<c[m]>>
    BY <1>1, <2>1 DEF Copied
  <2> DEFINE x == SubSeq(c, a + 1, m - 1)
  <2>5. a + 1 \in 1 .. Len(c) /\ m \in a + 1 .. Len(c) /\ m \in 1 .. Len(c)
    BY <1>2, <2>1
  <2>6. SubSeq(c, a + 1, m) = x \o <<c[m]>>
    BY <2>5, SubSeqRecursiveSecond
  <2>7. c[m] \in S
    BY <2>5, ElementOfSeq
  <2>8. x \in Seq(S) /\ <<c[m]>> \in Seq(S)
    <3>1. \A i \in a + 1 .. m - 1 : c[i] \in S
      <4>1. \A i \in a + 1 .. m - 1 : i \in 1 .. Len(c)
        BY <1>2, <2>1
      <4> QED
        BY <4>1, ElementOfSeq
    <3>2. x \in Seq(S)
      <4>1. a + 1 \in Int /\ m - 1 \in Int
        BY <1>2, <2>1
      <4> QED
        BY <3>1, <4>1, SubSeqProperties
    <3> QED
      BY <2>7, <3>2
  <2> HIDE DEF x
  <2>9. f[a] \o (x \o <<c[m]>>) = (f[a] \o x) \o <<c[m]>>
    <3> DEFINE y == <<c[m]>>
               z == f[a]
    <3>1. z \in Q /\ y \in Q /\ x \in Q
      BY <1>2, <2>8
    <3> HIDE DEF y, z, Q
    <3>2. z \o (x \o y) = (z \o x) \o y
      BY <1>a, <3>1
    <3> QED
      BY <3>2 DEF y, z
  <2>10. f[m - 1] = f[a] \o x
    BY <2>3 DEF x
  <2> QED
    BY <2>4, <2>6, <2>9, <2>10
<1>5. Nat \subseteq P
  <2> HIDE DEF P
  <2> QED
    BY <1>3, <1>4, Induction
<1>6. PICK d \in Nat : a + d = b
  <2>1. b - a \in Nat /\ a + (b - a) = b
    BY <1>2
  <2> QED
    BY <2>1
<1>7. d \in P
  BY <1>5
<1>8. Copies(a + d)
  <2> HIDE DEF Copies
  <2> QED
    BY <1>2, <1>6, <1>7
<1> QED
  BY <1>6, <1>8 DEF Extends

LEMMA FlatteningStays ==
    ASSUME NEW S, NEW n \in Nat, NEW ss, NEW f, IsFlattening(f, n, ss, Seq(S)),
           NEW a \in 0 .. n, NEW b \in a .. n, \A i \in a + 1 .. b : ss[i] = <<>>
    PROVE  f[b] = f[a]
<1> DEFINE P == {d \in Nat : a + d <= b => f[a + d] = f[a]}
<1>1. /\ \A i \in 0 .. n : f[i] \in Seq(S)
      /\ \A i \in 1 .. n : f[i] = f[i - 1] \o ss[i]
  BY DEF IsFlattening
<1>2. a \in Nat /\ b \in Nat /\ a <= b /\ b <= n /\ f[a] \o <<>> = f[a]
  BY <1>1, ConcatEmptySeq
<1>3. 0 \in P
  BY <1>2
<1>4. ASSUME NEW d \in Nat, d \in P PROVE d + 1 \in P
  <2> DEFINE m == a + (d + 1)
  <2> SUFFICES ASSUME m <= b PROVE f[m] = f[a]
    OBVIOUS
  <2>1. m - 1 = a + d /\ m \in 1 .. n /\ m \in a + 1 .. b /\ a + d <= b
    BY <1>2
  <2>2. f[m - 1] = f[a]
    BY <1>4, <2>1
  <2> HIDE DEF P, m
  <2>3. f[m] = f[m - 1] \o <<>>
    BY <1>1, <2>1
  <2> QED
    BY <1>2, <2>2, <2>3
<1>5. Nat \subseteq P
  <2> HIDE DEF P
  <2> QED
    BY <1>3, <1>4, Induction
<1>6. PICK d \in Nat : a + d = b
  <2>1. b - a \in Nat /\ a + (b - a) = b
    BY <1>2
  <2> QED
    BY <2>1
<1>7. d \in P
  BY <1>5
<1> QED
  BY <1>2, <1>6, <1>7

-----------------------------------------------------------------------------
(* Finite sets, without the theorems that take an operator.                *)
LEMMA EmptyRange == Range(<<>>) = {}
<1>1. Range(<<>>) = {<<>>[i] : i \in 1 .. 0}
  <2>1. DOMAIN <<>> = 1 .. 0
    BY LenProperties, EmptySeq
  <2> QED
    BY <2>1 DEF Range
<1>2. 1 .. 0 = {}
  OBVIOUS
<1> QED
  BY <1>1, <1>2

LEMMA FiniteImage ==
    ASSUME NEW S, IsFiniteSet(S), NEW f, DOMAIN f = S
    PROVE  IsFiniteSet(Range(f))
<1> DEFINE g == [x \in S |-> f[x]]
<1>1. g \in Surjection(S, Range(f))
  BY DEF Surjection, Range
<1> HIDE DEF g
<1> QED
  BY <1>1, FS_Surjection

LEMMA FiniteUnion ==
    ASSUME NEW S, IsFiniteSet(S), \A s \in S : IsFiniteSet(s)
    PROVE  IsFiniteSet(UNION S)
<1> DEFINE Finite(U) == IsFiniteSet(U) /\ \A s \in U : IsFiniteSet(s)
           P == {n \in Nat : \A U : Finite(U) /\ Cardinality(U) = n => IsFiniteSet(UNION U)}
<1>1. 0 \in P
  <2> SUFFICES ASSUME NEW U, Finite(U), Cardinality(U) = 0 PROVE IsFiniteSet(UNION U)
    OBVIOUS
  <2>1. U = {}
    BY FS_EmptySet
  <2>2. UNION U = {}
    BY <2>1
  <2> QED
    BY <2>2, FS_EmptySet
<1>2. ASSUME NEW n \in Nat, n \in P PROVE n + 1 \in P
  <2> SUFFICES ASSUME NEW U, Finite(U), Cardinality(U) = n + 1 PROVE IsFiniteSet(UNION U)
    OBVIOUS
  <2>1. U # {}
    BY FS_EmptySet
  <2>2. PICK s \in U : TRUE
    BY <2>1
  <2>a. IsFiniteSet(U) /\ IsFiniteSet(s)
    BY <2>2
  <2>b. IsFiniteSet(U \ {s}) /\ Cardinality(U \ {s}) = Cardinality(U) - 1
    BY <2>a, <2>2, FS_RemoveElement
  <2>3. Finite(U \ {s}) /\ Cardinality(U \ {s}) = n
    BY <2>b
  <2>4. IsFiniteSet(UNION (U \ {s}))
    BY <1>2, <2>3
  <2> DEFINE V == UNION (U \ {s})
  <2>5. UNION U = V \cup s
    BY <2>2
  <2>6. IsFiniteSet(V)
    BY <2>4
  <2> HIDE DEF V, P, Finite
  <2>7. IsFiniteSet(V \cup s)
    BY <2>a, <2>6, FS_Union
  <2> QED
    BY <2>5, <2>7
<1>3. Nat \subseteq P
  <2> HIDE DEF P
  <2> QED
    BY <1>1, <1>2, Induction
<1>4. Cardinality(S) \in Nat
  BY FS_CardinalityType
<1> QED
  BY <1>3, <1>4

(* A sequence that is not empty keeps its head when another one follows. *)
LEMMA HeadTailOfConcat ==
    ASSUME NEW S, NEW s \in Seq(S), s # <<>>, NEW t \in Seq(S)
    PROVE  s \o t # <<>> /\ Head(s \o t) = Head(s) /\ Tail(s \o t) = Tail(s) \o t
<1> DEFINE c == s \o t
           r == Tail(s)
           d == r \o t
           L == Len(s)
           l == Len(t)
<1>1. /\ L \in Nat /\ L > 0 /\ l \in Nat /\ Head(s) = s[1]
      /\ r \in Seq(S) /\ Len(r) = L - 1 /\ \A i \in 1 .. Len(r) : r[i] = s[i + 1]
  BY HeadTailProperties, LenProperties, EmptySeq
<1>2. /\ c \in Seq(S) /\ Len(c) = L + l
      /\ \A i \in 1 .. L + l : c[i] = IF i <= L THEN s[i] ELSE t[i - L]
  BY ConcatProperties
<1> HIDE DEF r
<1>3. /\ d \in Seq(S) /\ Len(d) = Len(r) + l
      /\ \A i \in 1 .. Len(r) + l : d[i] = IF i <= Len(r) THEN r[i] ELSE t[i - Len(r)]
  BY <1>1, ConcatProperties
<1> HIDE DEF c, d, L, l
<1>4. c # <<>>
  <2>1. Len(c) # 0
    BY <1>1, <1>2
  <2> QED
    BY <2>1
<1>5. Head(c) = c[1] /\ Tail(c) \in Seq(S) /\ Len(Tail(c)) = Len(c) - 1
      /\ \A i \in 1 .. Len(Tail(c)) : Tail(c)[i] = c[i + 1]
  BY <1>2, <1>4, HeadTailProperties
<1>6. Head(c) = Head(s)
  <2>1. 1 \in 1 .. L + l /\ 1 <= L
    BY <1>1
  <2> QED
    BY <1>1, <1>2, <1>5, <2>1
<1>7. Tail(c) = d
  <2>1. Len(Tail(c)) = L + l - 1 /\ Len(d) = L + l - 1 /\ Len(r) = L - 1
    BY <1>1, <1>2, <1>3, <1>5
  <2>2. \A i \in 1 .. L + l - 1 : Tail(c)[i] = d[i]
    <3> TAKE i \in 1 .. L + l - 1
    <3> DEFINE p == i + 1
               k == i - (L - 1)
    <3>1. Tail(c)[i] = c[p]
      BY <1>5, <2>1
    <3>2. p \in 1 .. L + l /\ i \in 1 .. Len(r) + l
      BY <1>1, <2>1
    <3>3. (p <= L <=> i <= L - 1) /\ p - L = k /\ (p <= L => i \in 1 .. Len(r))
      BY <1>1, <2>1
    <3>4. i - Len(r) = k /\ Len(r) = L - 1
      BY <1>1, <2>1
    <3>5. p <= L => r[i] = s[p]
      BY <1>1, <3>3
    <3> HIDE DEF p, k
    <3>6. c[p] = IF p <= L THEN s[p] ELSE t[k]
      BY <1>2, <3>2, <3>3
    <3>7. d[i] = IF p <= L THEN r[i] ELSE t[k]
      BY <1>3, <3>2, <3>3, <3>4
    <3> QED
      BY <3>1, <3>5, <3>6, <3>7
  <2> QED
    BY <1>3, <1>5, <2>1, <2>2, SeqEqual
<1> QED
  BY <1>4, <1>6, <1>7 DEF c, d, r

LEMMA AppendToOne ==
    ASSUME NEW a, NEW b
    PROVE  Append(<<a>>, b) = <<a, b>>
<1>1. <<a>> \in Seq({a, b}) /\ Len(<<a>>) = 1 /\ <<a>>[1] = a /\ b \in {a, b}
  OBVIOUS
<1>2. /\ Append(<<a>>, b) \in Seq({a, b}) /\ Len(Append(<<a>>, b)) = 2
      /\ Append(<<a>>, b)[1] = a /\ Append(<<a>>, b)[2] = b
  BY <1>1, AppendProperties
<1>3. <<a, b>> \in Seq({a, b}) /\ Len(<<a, b>>) = 2 /\ <<a, b>>[1] = a /\ <<a, b>>[2] = b
  OBVIOUS
<1>4. \A i \in 1 .. 2 : i = 1 \/ i = 2
  OBVIOUS
<1> QED
  BY <1>2, <1>3, <1>4, SeqEqual

-----------------------------------------------------------------------------
(* The functions with a value of its own kind at each argument. *)
Typed(D, V) == {g \in [D -> UNION {V[x] : x \in D}] : \A x \in D : g[x] \in V[x]}

(***************************************************************************)
(* H[x][g] is the value at x as a recursive definition computes it from g, *)
(* for the functions g in F: it asks for values only where a measure is    *)
(* less, and has its own value where it belongs if they have.              *)
(***************************************************************************)
Recurs(D, V, m, N, F, H) ==
    /\ m \in [D -> Nat] /\ N \in Nat
    /\ \A x \in D : m[x] <= N /\ V[x] # {}
    /\ \A x \in D : \A g \in Typed(D, V) : H[x][g] \in V[x]
    /\ \A x \in D : \A g, h \in F :
          (\A y \in D : m[y] < m[x] => g[y] = h[y]) => H[x][g] = H[x][h]

(* The function that is defined exists. *)
LEMMA RecursiveFunction ==
    ASSUME NEW D, NEW V, NEW m, NEW N, NEW F, NEW H, Recurs(D, V, m, N, F, H), Typed(D, V) \subseteq F
    PROVE  \E f \in Typed(D, V) : f = [x \in D |-> H[x][f]]
<1>0. /\ m \in [D -> Nat] /\ N \in Nat
      /\ \A x \in D : m[x] <= N /\ V[x] # {}
      /\ \A x \in D : \A g \in Typed(D, V) : H[x][g] \in V[x]
      /\ \A x \in D : \A g, h \in Typed(D, V) :
            (\A y \in D : m[y] < m[x] => g[y] = h[y]) => H[x][g] = H[x][h]
  BY DEF Recurs
<1> DEFINE P == {n \in Nat : \E f \in Typed(D, V) : \A x \in D : m[x] < n => f[x] = H[x][f]}
<1>1. 0 \in P
  <2> DEFINE f == [x \in D |-> CHOOSE v \in V[x] : TRUE]
  <2>1. \A x \in D : f[x] \in V[x]
    BY <1>0
  <2>2. f \in Typed(D, V)
    BY <2>1 DEF Typed
  <2> QED
    BY <1>0, <2>2
<1>2. ASSUME NEW n \in Nat, n \in P PROVE n + 1 \in P
  <2>1. PICK f \in Typed(D, V) : \A x \in D : m[x] < n => f[x] = H[x][f]
    BY <1>2
  <2> DEFINE g == [x \in D |-> IF m[x] = n THEN H[x][f] ELSE f[x]]
  <2>2. g \in Typed(D, V)
    <3>1. \A x \in D : g[x] \in V[x]
      BY <1>0, <2>1 DEF Typed
    <3> QED
      BY <3>1 DEF Typed
  <2>3. \A x \in D : m[x] < n => g[x] = f[x]
    OBVIOUS
  <2>4. \A x \in D : m[x] = n => g[x] = H[x][f]
    OBVIOUS
  <2> HIDE DEF g
  <2>5. ASSUME NEW x \in D, m[x] < n + 1 PROVE g[x] = H[x][f] /\ H[x][g] = H[x][f]
    <3>1. m[x] \in Nat
      BY <1>0
    <3>2. \A y \in D : m[y] < m[x] => g[y] = f[y]
      BY <1>0, <2>3, <2>5
    <3>3. H[x][g] = H[x][f]
      BY <1>0, <2>1, <2>2, <3>2
    <3>4. m[x] < n \/ m[x] = n
      BY <2>5, <3>1
    <3> QED
      BY <2>1, <2>3, <2>4, <3>3, <3>4
  <2> QED
    BY <2>2, <2>5
<1>3. N + 1 \in P
  <2> HIDE DEF P
  <2> QED
    BY <1>0, <1>1, <1>2, Induction
<1>4. PICK f \in Typed(D, V) : \A x \in D : m[x] < N + 1 => f[x] = H[x][f]
  BY <1>3
<1>5. \A x \in D : m[x] < N + 1
  BY <1>0
<1>6. f = [x \in D |-> H[x][f]]
  BY <1>4, <1>5 DEF Typed
<1> QED
  BY <1>6

(***************************************************************************)
(* Whatever function e is its own value has its values where they belong.  *)
(***************************************************************************)
LEMMA RecursiveFunctionIs ==
    ASSUME NEW D, NEW V, NEW m, NEW N, NEW F, NEW H, Recurs(D, V, m, N, F, H), Typed(D, V) \subseteq F,
           NEW e \in F, e = [x \in D |-> H[x][e]]
    PROVE  \A x \in D : e[x] \in V[x]
<1>0. /\ m \in [D -> Nat] /\ N \in Nat
      /\ \A x \in D : m[x] <= N
      /\ \A x \in D : \A g, h \in F :
            (\A y \in D : m[y] < m[x] => g[y] = h[y]) => H[x][g] = H[x][h]
  BY DEF Recurs
<1>1. PICK f \in Typed(D, V) : f = [x \in D |-> H[x][f]]
  BY RecursiveFunction
<1> DEFINE P == {n \in Nat : \A x \in D : m[x] < n => e[x] = f[x]}
<1>2. 0 \in P
  BY <1>0
<1>3. ASSUME NEW n \in Nat, n \in P PROVE n + 1 \in P
  <2>1. ASSUME NEW x \in D, m[x] < n + 1 PROVE e[x] = f[x]
    <3>1. \A y \in D : m[y] < m[x] => e[y] = f[y]
      BY <1>0, <1>3, <2>1
    <3>2. e[x] = H[x][e] /\ f[x] = H[x][f]
      BY <1>1
    <3> QED
      BY <1>0, <3>1, <3>2
  <2> QED
    BY <2>1
<1>4. N + 1 \in P
  <2> HIDE DEF P
  <2> QED
    BY <1>0, <1>2, <1>3, Induction
<1>5. \A x \in D : m[x] < N + 1
  BY <1>0
<1> QED
  BY <1>4, <1>5 DEF Typed
=============================================================================
