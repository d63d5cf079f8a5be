----------------------------- MODULE Induction -----------------------------
(***************************************************************************)
(* Induction over natural numbers and over sequences, with the property as *)
(* a set, and what follows from it for the recursive functions that the    *)
(* models use.                                                             *)
(***************************************************************************)
EXTENDS SequencesExt, TLAPS, WellFoundedInduction, SequenceTheorems, FiniteSetTheorems

\* A set of natural numbers that has an element has a least one.
LEMMA LeastNatural ==
  ASSUME NEW T, T \subseteq Nat, T # {}
  PROVE  \E x \in T : \A y \in T : x <= y
<1> DEFINE R == OpToRel(<, Nat)
<1>1. IsWellFoundedOn(R, Nat)
  BY NatLessThanWellFounded
<1>2. \A x, y \in Nat : x < y => <<x, y>> \in R
  BY DEF OpToRel
<1> HIDE DEF R
<1>3. PICK x \in T : \A y \in T : ~(<<y, x>> \in R)
  BY <1>1, WFMin, Zenon
<1>4. ASSUME NEW y \in T PROVE x <= y
  <2>1. x \in Nat /\ y \in Nat
    OBVIOUS
  <2>2. ~(y < x)
    BY <1>2, <1>3, <2>1
  <2> QED
    BY <2>1, <2>2
<1> QED
  BY <1>4

\* A set with 0 and the successor of each of its numbers has them all.
LEMMA InductiveSet ==
  ASSUME NEW T, 0 \in T, \A n \in Nat : n \in T => n + 1 \in T
  PROVE  Nat \subseteq T
<1> SUFFICES ASSUME Nat \ T # {} PROVE FALSE
  OBVIOUS
<1>1. PICK n \in Nat \ T : \A m \in Nat \ T : n <= m
  BY LeastNatural
<1>2. n - 1 \in Nat /\ n # 0
  BY <1>1
<1>3. n - 1 \in T
  BY <1>1, <1>2
<1> QED
  BY <1>2, <1>3

-----------------------------------------------------------------------------
(* FlattenSeq *)

\* The function that FlattenSeq's definition chooses, on its first n arguments.
Flattens(f, ss, n) ==
  f = [i \in 1..n |-> IF i = 1 THEN ss[i] ELSE f[i-1] \o ss[i]]

\* There is such a function,
LEMMA FlattenExists ==
  ASSUME NEW ss, NEW n \in Nat
  PROVE  \E f : Flattens(f, ss, n)
<1> DEFINE T == {m \in Nat : \E f : Flattens(f, ss, m)}
<1>1. 0 \in T
  <2> DEFINE f == [i \in 1..0 |-> 0]
  <2>1. Flattens(f, ss, 0)
    BY DEF Flattens
  <2> QED
    BY <2>1
<1>2. ASSUME NEW m \in Nat, m \in T PROVE m + 1 \in T
  <2>1. PICK f : Flattens(f, ss, m)
    BY <1>2
  <2> DEFINE last(i) == IF i = 1 THEN ss[i] ELSE f[i-1] \o ss[i]
             g == [i \in 1..(m + 1) |-> IF i <= m THEN f[i] ELSE last(i)]
  <2>2. ASSUME NEW i \in 1..(m + 1)
        PROVE  g[i] = IF i = 1 THEN ss[i] ELSE g[i-1] \o ss[i]
    <3>1. i # 1 => i - 1 \in 1..m /\ g[i-1] = f[i-1]
      OBVIOUS
    <3>2. CASE i <= m
      <4>1. i \in 1..m
        BY <3>2
      <4>2. f[i] = IF i = 1 THEN ss[i] ELSE f[i-1] \o ss[i]
        BY <2>1, <4>1, Zenon DEF Flattens
      <4> QED
        BY <3>1, <3>2, <4>2
    <3>3. CASE i > m
      BY <3>1, <3>3
    <3> QED
      BY <3>2, <3>3
  <2>3. Flattens(g, ss, m + 1)
    BY <2>2, Zenon DEF Flattens
  <2> HIDE DEF g
  <2> QED
    BY <2>3
<1> HIDE DEF T
<1>3. n \in T
  BY <1>1, <1>2, InductiveSet
<1> QED
  BY <1>3 DEF T

\* and where two of them are defined they agree.
LEMMA FlattenUnique ==
  ASSUME NEW ss, NEW tt, NEW f, NEW g, NEW m \in Nat, NEW n \in Nat, m <= n,
         \A i \in 1..m : ss[i] = tt[i],
         Flattens(f, ss, m), Flattens(g, tt, n)
  PROVE  \A i \in 1..m : f[i] = g[i]
<1> DEFINE T == {i \in Nat : i \in 1..m => f[i] = g[i]}
<1>1. ASSUME NEW i \in Nat, i \in T PROVE i + 1 \in T
  <2> SUFFICES ASSUME i + 1 \in 1..m PROVE f[i+1] = g[i+1]
    OBVIOUS
  <2>1. i + 1 \in 1..n /\ (i + 1) - 1 = i /\ ss[i+1] = tt[i+1]
    OBVIOUS
  <2>2. /\ f[i+1] = IF i + 1 = 1 THEN ss[i+1] ELSE f[(i+1)-1] \o ss[i+1]
        /\ g[i+1] = IF i + 1 = 1 THEN tt[i+1] ELSE g[(i+1)-1] \o tt[i+1]
    BY <2>1, Zenon DEF Flattens
  <2>3. i # 0 => f[i] = g[i]
    BY <1>1
  <2> QED
    BY <2>1, <2>2, <2>3
<1>2. 0 \in T
  OBVIOUS
<1> HIDE DEF T
<1>3. Nat \subseteq T
  BY <1>1, <1>2, InductiveSet
<1> QED
  BY <1>3 DEF T

LEMMA FlattenIs ==
  ASSUME NEW S, NEW ss \in Seq(S)
  PROVE  \E f : /\ Flattens(f, ss, Len(ss))
                /\ FlattenSeq(ss) = IF Len(ss) = 0 THEN ss ELSE f[Len(ss)]
<1> DEFINE F == CHOOSE f : Flattens(f, ss, Len(ss))
<1>1. Len(ss) \in Nat
  OBVIOUS
<1>2. Flattens(F, ss, Len(ss))
  BY <1>1, FlattenExists, Zenon
<1>3. FlattenSeq(ss) = IF Len(ss) = 0 THEN ss ELSE F[Len(ss)]
  BY Zenon DEF FlattenSeq, Flattens
<1> HIDE DEF F
<1> QED
  BY <1>2, <1>3

LEMMA FlattenEmpty == FlattenSeq(<< >>) = << >>
BY DEF FlattenSeq

\* The last sequence comes last.
LEMMA FlattenAppend ==
  ASSUME NEW S, NEW ss \in Seq(Seq(S)), NEW s \in Seq(S)
  PROVE  FlattenSeq(Append(ss, s)) = FlattenSeq(ss) \o s
<1> DEFINE tt == Append(ss, s)
           n == Len(ss)
<1>1. /\ tt \in Seq(Seq(S)) /\ n \in Nat /\ Len(tt) = n + 1 /\ tt[n + 1] = s
      /\ \A i \in 1..n : tt[i] = ss[i]
  BY AppendProperties
<1> HIDE DEF tt
<1>2. PICK f : /\ Flattens(f, ss, n)
               /\ FlattenSeq(ss) = IF n = 0 THEN ss ELSE f[n]
  BY FlattenIs
<1>3. PICK g : /\ Flattens(g, tt, n + 1)
               /\ FlattenSeq(tt) = IF n + 1 = 0 THEN tt ELSE g[n + 1]
  BY <1>1, FlattenIs
<1>4. g[n + 1] = IF n + 1 = 1 THEN tt[n + 1] ELSE g[(n + 1) - 1] \o tt[n + 1]
  <2>1. n + 1 \in 1..(n + 1)
    BY <1>1
  <2> QED
    BY <1>3, <2>1, Zenon DEF Flattens
<1>5. ASSUME n # 0 PROVE f[n] = g[n]
  <2>1. n + 1 \in Nat /\ n <= n + 1 /\ \A i \in 1..n : ss[i] = tt[i]
    BY <1>1
  <2>2. n \in Nat /\ Flattens(f, ss, n) /\ Flattens(g, tt, n + 1)
    BY <1>1, <1>2, <1>3
  <2> HIDE DEF n
  <2>4. \A i \in 1..n : f[i] = g[i]
    BY <2>1, <2>2, FlattenUnique
  <2>3. n \in 1..n
    BY <1>1, <1>5
  <2> QED
    BY <2>3, <2>4
<1>6. CASE n = 0
  <2>1. ss = << >> /\ << >> \o s = s
    BY <1>6, EmptySeq, ConcatEmptySeq
  <2>2. FlattenSeq(tt) = s /\ FlattenSeq(ss) = << >>
    BY <1>1, <1>2, <1>3, <1>4, <1>6, <2>1
  <2> QED
    BY <2>1, <2>2 DEF tt
<1>7. CASE n # 0
  <2>1. FlattenSeq(ss) = f[n] /\ FlattenSeq(tt) = g[n + 1] /\ g[n + 1] = g[n] \o s
    BY <1>1, <1>2, <1>3, <1>4, <1>7
  <2> QED
    BY <1>5, <1>7, <2>1 DEF tt
<1> QED
  BY <1>6, <1>7

\* A set of sequences that is closed under Append has all of them.
LEMMA InductiveSequences ==
  ASSUME NEW S, NEW T, << >> \in T,
         \A s \in Seq(S), e \in S : s \in T => Append(s, e) \in T
  PROVE  Seq(S) \subseteq T
<1> DEFINE N == {n \in Nat : \A s \in Seq(S) : Len(s) = n => s \in T}
<1>1. 0 \in N
  BY EmptySeq
<1>2. ASSUME NEW n \in Nat, n \in N PROVE n + 1 \in N
  <2> SUFFICES ASSUME NEW s \in Seq(S), Len(s) = n + 1 PROVE s \in T
    OBVIOUS
  <2>1. s # << >>
    BY EmptySeq
  <2>2. PICK t \in Seq(S), e \in S : s = Append(t, e)
    BY <2>1, SequenceEmptyOrAppend
  <2>3. Len(t) = n
    BY <2>2, AppendProperties
  <2>4. t \in T
    BY <1>2, <2>3
  <2> QED
    BY <2>2, <2>4
<1> HIDE DEF N
<1>3. Nat \subseteq N
  BY <1>1, <1>2, InductiveSet
<1> QED
  BY <1>3 DEF N

LEMMA FlattenType ==
  ASSUME NEW S
  PROVE  \A ss \in Seq(Seq(S)) : FlattenSeq(ss) \in Seq(S)
<1> DEFINE T == {ss \in Seq(Seq(S)) : FlattenSeq(ss) \in Seq(S)}
<1>1. << >> \in T
  BY FlattenEmpty, EmptySeq
<1>2. ASSUME NEW ss \in Seq(Seq(S)), NEW s \in Seq(S), ss \in T
      PROVE  Append(ss, s) \in T
  BY <1>2, FlattenAppend, AppendProperties, ConcatProperties
<1> HIDE DEF T
<1>3. Seq(Seq(S)) \subseteq T
  BY <1>1, <1>2, InductiveSequences
<1> QED
  BY <1>3 DEF T

\* Taking the last element off first.
LEMMA FlattenPrefix ==
  ASSUME NEW S, NEW ss \in Seq(Seq(S)), NEW m \in 0..(Len(ss) - 1)
  PROVE  FlattenSeq(SubSeq(ss, 1, m + 1)) = FlattenSeq(SubSeq(ss, 1, m)) \o ss[m + 1]
<1>1. SubSeq(ss, 1, m) \in Seq(Seq(S)) /\ ss[m + 1] \in Seq(S)
  BY SubSeqProperties, ElementOfSeq
<1>2. SubSeq(ss, 1, m + 1) = Append(SubSeq(ss, 1, m), ss[m + 1])
  <2>1. SubSeq(ss, 1, m + 1) = SubSeq(ss, 1, (m + 1) - 1) \o <<ss[m + 1]>>
    BY SubSeqRecursiveSecond
  <2> QED
    BY <1>1, <2>1, AppendIsConcat
<1> QED
  BY <1>1, <1>2, FlattenAppend

\* a is b, with r in front of it from m = k on; before that both are empty.
Is_Off(a, b, r, m, k) ==
  /\ a = (IF m < k THEN << >> ELSE r) \o b
  /\ m < k => b = << >>

Joins(r, s, t) == t = r \o s

LEMMA Regroup ==
  ASSUME NEW S, NEW r \in Seq(S), NEW b \in Seq(S), NEW s \in Seq(S),
         NEW a, NEW a1, NEW b1, Joins(r, b, a), Joins(a, s, a1), Joins(b, s, b1)
  PROVE  Joins(r, b1, a1)
BY ConcatAssociative DEF Joins

\* One more sequence on both, which is r on the left only if it is the k-th.
LEMMA OffStep ==
  ASSUME NEW S, NEW a, NEW b, NEW a1, NEW b1, NEW r, NEW s, NEW t, NEW m \in Nat, NEW k \in Nat,
         b \in Seq(S), r \in Seq(S), s \in Seq(S), t \in Seq(S),
         Is_Off(a, b, r, m, k), Joins(a, s, a1), Joins(b, t, b1),
         m + 1 < k => s = << >>, m + 1 = k => t = << >> /\ s = r, m + 1 # k => t = s
  PROVE  Is_Off(a1, b1, r, m + 1, k)
<1>1. CASE m + 1 < k
  <2>1. a = << >> \o b /\ b = << >> /\ s = << >> /\ t = << >>
    BY <1>1 DEF Is_Off
  <2>2. a1 = << >> /\ b1 = << >> /\ << >> \o << >> = << >>
    BY <2>1, ConcatEmptySeq DEF Joins
  <2> QED
    BY <1>1, <2>2 DEF Is_Off
<1>2. CASE m + 1 = k
  <2>1. a = << >> \o b /\ b = << >> /\ s = r /\ t = << >>
    BY <1>2 DEF Is_Off
  <2>2. a1 = r /\ b1 = << >> /\ r \o << >> = r
    BY <2>1, ConcatEmptySeq DEF Joins
  <2> QED
    BY <1>2, <2>2 DEF Is_Off
<1>3. CASE ~(m < k)
  <2>1. a = r \o b /\ s = t /\ ~(m + 1 < k)
    BY <1>3 DEF Is_Off
  <2>2. Joins(r, b, a) /\ Joins(b, s, b1)
    BY <2>1 DEF Joins
  <2>3. Joins(r, b1, a1)
    BY <2>2, Regroup, Zenon
  <2> QED
    BY <2>1, <2>3 DEF Is_Off, Joins
<1> QED
  BY <1>1, <1>2, <1>3

\* The first m sequences give what they give without the k-th, after the k-th.
Taken_Off(ss, tt, k, m) ==
  Is_Off(FlattenSeq(SubSeq(ss, 1, m)), FlattenSeq(SubSeq(tt, 1, m)), ss[k], m, k)

LEMMA TakeOffStep ==
  ASSUME NEW S, NEW ss \in Seq(Seq(S)), NEW k \in 1..Len(ss), NEW tt \in Seq(Seq(S)),
         \A j \in 1..(k - 1) : ss[j] = << >>,
         Len(tt) = Len(ss), tt[k] = << >>, \A j \in 1..Len(ss) : j # k => tt[j] = ss[j],
         NEW m \in 0..(Len(ss) - 1), Taken_Off(ss, tt, k, m)
  PROVE  Taken_Off(ss, tt, k, m + 1)
<1> DEFINE a == FlattenSeq(SubSeq(ss, 1, m))
           b == FlattenSeq(SubSeq(tt, 1, m))
           a1 == FlattenSeq(SubSeq(ss, 1, m + 1))
           b1 == FlattenSeq(SubSeq(tt, 1, m + 1))
           s == ss[m + 1]
           t == tt[m + 1]
           r == ss[k]
<1>1. Len(ss) \in Nat /\ m \in Nat /\ k \in Nat /\ m + 1 \in 1..Len(ss)
  OBVIOUS
<1>2. Joins(a, s, a1) /\ Joins(b, t, b1)
  BY FlattenPrefix DEF Joins
<1>3. b \in Seq(S) /\ s \in Seq(S) /\ t \in Seq(S) /\ r \in Seq(S)
  <2>1. \A j \in 1..m : tt[j] \in Seq(S)
    BY ElementOfSeq
  <2>2. SubSeq(tt, 1, m) \in Seq(Seq(S))
    BY <2>1, SubSeqProperties
  <2> QED
    BY <1>1, <2>2, FlattenType, ElementOfSeq
<1>4. Is_Off(a, b, r, m, k)
  BY DEF Taken_Off
<1>5. m + 1 < k => s = << >>
  <2>1. m + 1 < k => m + 1 \in 1..(k - 1)
    BY <1>1
  <2> QED
    BY <2>1
<1>6. m + 1 = k => t = << >> /\ s = r
  OBVIOUS
<1>7. m + 1 # k => t = s
  BY <1>1
<1> HIDE DEF a, b, a1, b1, s, t, r
<1>8. Is_Off(a1, b1, r, m + 1, k)
  BY <1>1, <1>2, <1>3, <1>4, <1>5, <1>6, <1>7, OffStep
<1> QED
  BY <1>8 DEF Taken_Off, a1, b1, r

\* If the first sequences are empty, the one after them can be taken off.
LEMMA FlattenFirst ==
  ASSUME NEW S, NEW ss \in Seq(Seq(S)), NEW k \in 1..Len(ss),
         \A j \in 1..(k - 1) : ss[j] = << >>,
         NEW tt \in Seq(Seq(S)), Len(tt) = Len(ss), tt[k] = << >>,
         \A j \in 1..Len(ss) : j # k => tt[j] = ss[j]
  PROVE  FlattenSeq(ss) = ss[k] \o FlattenSeq(tt)
<1> DEFINE T == {m \in Nat : m <= Len(ss) => Taken_Off(ss, tt, k, m)}
<1>1. << >> \in Seq(S) /\ Len(ss) \in Nat /\ k \in Nat /\ 0 < k /\ ~(Len(ss) < k)
  BY EmptySeq
<1>3. 0 \in T
  <2>1. SubSeq(ss, 1, 0) = << >> /\ SubSeq(tt, 1, 0) = << >>
    BY SubSeqEmpty
  <2>2. << >> \o << >> = << >>
    BY <1>1, ConcatEmptySeq
  <2>3. /\ FlattenSeq(SubSeq(ss, 1, 0)) = << >> /\ FlattenSeq(SubSeq(tt, 1, 0)) = << >>
        /\ (IF 0 < k THEN << >> ELSE ss[k]) = << >>
    BY <1>1, <2>1, FlattenEmpty
  <2>4. Taken_Off(ss, tt, k, 0)
    BY <1>1, <2>2, <2>3 DEF Taken_Off, Is_Off
  <2> QED
    BY <2>4
<1>4. ASSUME NEW m \in Nat, m \in T PROVE m + 1 \in T
  <2> SUFFICES ASSUME m + 1 <= Len(ss) PROVE Taken_Off(ss, tt, k, m + 1)
    OBVIOUS
  <2>1. m \in 0..(Len(ss) - 1) /\ Taken_Off(ss, tt, k, m)
    BY <1>1, <1>4
  <2> QED
    BY <2>1, TakeOffStep
<1> HIDE DEF T
<1>5. Nat \subseteq T
  BY <1>3, <1>4, InductiveSet
<1>6. Taken_Off(ss, tt, k, Len(ss))
  BY <1>1, <1>5 DEF T
<1>7. SubSeq(ss, 1, Len(ss)) = ss /\ SubSeq(tt, 1, Len(ss)) = tt
  BY SubSeqFull
<1>8. (IF Len(ss) < k THEN << >> ELSE ss[k]) = ss[k]
  BY <1>1
<1> QED
  BY <1>6, <1>7, <1>8 DEF Taken_Off, Is_Off

-----------------------------------------------------------------------------
(* MapThenFoldSet                                                           *)

\* The function that MapThenFoldSet's definition chooses for a set T, on the sets
\* of at most n elements: c chooses an element, and r adds it.
Small_Sets(T, n) == {s \in SUBSET T : Cardinality(s) <= n}
Adds(f, s, b, c, r) == IF s = {} THEN b ELSE r[c[s]][f[s \ {c[s]}]]
Partial_Fold(f, T, n, b, c, r) == f = [s \in Small_Sets(T, n) |-> Adds(f, s, b, c, r)]
FoldOf(f, T, b, c, r) == f = [s \in SUBSET T |-> Adds(f, s, b, c, r)]

Chooses(c, T) == \A s \in SUBSET T : s # {} => c[s] \in s

\* There is such a function.
LEMMA FoldExists ==
  ASSUME NEW T, IsFiniteSet(T), NEW V, NEW b \in V, NEW r \in [T -> [V -> V]],
         NEW c, Chooses(c, T)
  PROVE  \E f \in [SUBSET T -> V] : FoldOf(f, T, b, c, r)
<1> DEFINE N == {n \in Nat : \E f \in [Small_Sets(T, n) -> V] : Partial_Fold(f, T, n, b, c, r)}
<1>1. ASSUME NEW n \in Nat, NEW s \in Small_Sets(T, n + 1), s # {}
      PROVE  c[s] \in s /\ s \ {c[s]} \in Small_Sets(T, n)
  <2>1. IsFiniteSet(s) /\ Cardinality(s) <= n + 1 /\ s \subseteq T
    BY FS_Subset DEF Small_Sets
  <2>2. c[s] \in s
    BY <1>1, <2>1 DEF Chooses
  <2>3. Cardinality(s \ {c[s]}) = Cardinality(s) - 1 /\ Cardinality(s) \in Nat
    BY <2>1, <2>2, FS_RemoveElement, FS_CardinalityType
  <2>4. s \ {c[s]} \in SUBSET T
    BY <2>1
  <2>5. s \ {c[s]} \in Small_Sets(T, n)
    BY <2>1, <2>3, <2>4 DEF Small_Sets
  <2> QED
    BY <2>2, <2>5
<1>2. 0 \in N
  <2> DEFINE f == [s \in Small_Sets(T, 0) |-> b]
  <2>1. ASSUME NEW s \in Small_Sets(T, 0) PROVE s = {}
    <3>1. IsFiniteSet(s) /\ Cardinality(s) <= 0
      BY FS_Subset DEF Small_Sets
    <3> QED
      BY <3>1, FS_EmptySet, FS_CardinalityType
  <2>2. Partial_Fold(f, T, 0, b, c, r)
    BY <2>1 DEF Partial_Fold, Adds
  <2>3. f \in [Small_Sets(T, 0) -> V]
    OBVIOUS
  <2> QED
    BY <2>2, <2>3
<1>3. ASSUME NEW m \in Nat, m \in N PROVE m + 1 \in N
  <2>1. PICK f \in [Small_Sets(T, m) -> V] : Partial_Fold(f, T, m, b, c, r)
    BY <1>3
  <2> DEFINE val(s) == IF s \in Small_Sets(T, m) THEN f[s] ELSE Adds(f, s, b, c, r)
             g == [s \in Small_Sets(T, m + 1) |-> val(s)]
  <2>2. Small_Sets(T, m) \subseteq Small_Sets(T, m + 1)
    <3>1. \A s \in SUBSET T : Cardinality(s) \in Nat
      BY FS_Subset, FS_CardinalityType
    <3> QED
      BY <3>1 DEF Small_Sets
  <2>3. \A s \in Small_Sets(T, m) : f[s] = Adds(f, s, b, c, r)
    BY <2>1, Zenon DEF Partial_Fold
  <2>4. ASSUME NEW s \in Small_Sets(T, m + 1) PROVE val(s) = Adds(g, s, b, c, r)
    <3>1. val(s) = Adds(f, s, b, c, r)
      BY <2>3, Zenon
    <3>2. s # {} => g[s \ {c[s]}] = f[s \ {c[s]}]
      BY <1>1, <2>2, Zenon
    <3> QED
      BY <3>1, <3>2 DEF Adds
  <2>5. ASSUME NEW s \in Small_Sets(T, m + 1) PROVE val(s) \in V
    <3>1. CASE s \in Small_Sets(T, m) \/ s = {}
      BY <3>1 DEF Adds
    <3>2. CASE s \notin Small_Sets(T, m) /\ s # {}
      <4>1. c[s] \in T /\ f[s \ {c[s]}] \in V
        BY <1>1, <3>2 DEF Small_Sets
      <4> QED
        BY <3>2, <4>1 DEF Adds
    <3> QED
      BY <3>1, <3>2
  <2> HIDE DEF val
  <2>6. PICK h : h = g
    OBVIOUS
  <2>7. h \in [Small_Sets(T, m + 1) -> V]
    BY <2>5, <2>6, Zenon
  <2>8. Partial_Fold(h, T, m + 1, b, c, r)
    BY <2>4, <2>6, Zenon DEF Partial_Fold
  <2> QED
    BY <2>7, <2>8
<1> HIDE DEF N
<1>4. Cardinality(T) \in N
  BY <1>2, <1>3, InductiveSet, FS_CardinalityType
<1>5. Small_Sets(T, Cardinality(T)) = SUBSET T
  BY FS_Subset DEF Small_Sets
<1>6. PICK f \in [SUBSET T -> V] : Partial_Fold(f, T, Cardinality(T), b, c, r)
  BY <1>4, <1>5 DEF N
<1>7. FoldOf(f, T, b, c, r)
  BY <1>5, <1>6, Zenon DEF Partial_Fold, FoldOf
<1> QED
  BY <1>7

\* The sizes of the elements of a finite set, each at most b, add up to b for
\* each of them at most.
LEMMA SumBounded ==
  ASSUME NEW T, IsFiniteSet(T), NEW b \in Nat, \A x \in T : x.size \in 0..b
  PROVE  /\ MapThenSumSet(LAMBDA x : x.size, T) \in Nat
         /\ MapThenSumSet(LAMBDA x : x.size, T) <= Cardinality(T) * b
<1> DEFINE rule(f, s) == IF s = {} THEN 0
                         ELSE LET x == CHOOSE x \in s : TRUE IN x.size + f[s \ {x}]
           c == [s \in SUBSET T |-> CHOOSE x \in s : TRUE]
           r == [x \in T |-> [y \in Nat |-> x.size + y]]
           F == CHOOSE f : f = [s \in SUBSET T |-> rule(f, s)]
<1>1. F = [s \in SUBSET T |-> rule(F, s)]
  <2>1. /\ 0 \in Nat /\ r \in [T -> [Nat -> Nat]]
        /\ Chooses(c, T)
    BY DEF Chooses
  <2>2. ASSUME NEW f \in [SUBSET T -> Nat], NEW s \in SUBSET T
        PROVE  Adds(f, s, 0, c, r) = rule(f, s)
    <3>1. s # {} => c[s] \in T /\ f[s \ {c[s]}] \in Nat
      BY <2>1 DEF Chooses
    <3> QED
      BY <3>1 DEF Adds
  <2> HIDE DEF c, r
  <2>3. PICK f \in [SUBSET T -> Nat] : FoldOf(f, T, 0, c, r)
    BY <2>1, FoldExists, Zenon
  <2>4. f = [s \in SUBSET T |-> rule(f, s)]
    BY <2>2, <2>3, Zenon DEF FoldOf
  <2> QED
    BY <2>4, Zenon
<1>2. MapThenSumSet(LAMBDA x : x.size, T) = F[T]
  BY Zenon DEF MapThenSumSet, MapThenFoldSet
<1> HIDE DEF F
<1> DEFINE N == {n \in Nat : \A s \in SUBSET T :
                   Cardinality(s) = n => F[s] \in Nat /\ F[s] <= n * b}
<1>3. \A s \in SUBSET T : IsFiniteSet(s) /\ Cardinality(s) \in Nat
  BY FS_Subset, FS_CardinalityType
<1>4. 0 \in N
  <2> SUFFICES ASSUME NEW s \in SUBSET T, Cardinality(s) = 0 PROVE F[s] = 0
    OBVIOUS
  <2>1. s = {}
    BY <1>3, FS_EmptySet
  <2> QED
    BY <1>1, <2>1
<1>5. ASSUME NEW n \in Nat, n \in N PROVE n + 1 \in N
  <2> SUFFICES ASSUME NEW s \in SUBSET T, Cardinality(s) = n + 1
               PROVE  F[s] \in Nat /\ F[s] <= (n + 1) * b
    OBVIOUS
  <2>1. PICK x \in s : F[s] = x.size + F[s \ {x}]
    <3>1. s # {}
      BY FS_EmptySet
    <3>2. (CHOOSE x \in s : TRUE) \in s
      BY <3>1, Zenon
    <3>3. F[s] = rule(F, s)
      BY <1>1, Zenon
    <3> QED
      BY <3>1, <3>2, <3>3, Zenon
  <2>2. Cardinality(s \ {x}) = Cardinality(s) - 1
    BY <1>3, FS_RemoveElement
  <2>3. F[s \ {x}] \in Nat /\ F[s \ {x}] <= n * b
    BY <1>5, <2>2
  <2>4. x.size \in 0..b
    OBVIOUS
  <2>5. n * b \in Nat /\ (n + 1) * b = n * b + b
    OBVIOUS
  <2> QED
    BY <2>1, <2>3, <2>4, <2>5
<1> HIDE DEF N
<1>6. Cardinality(T) \in N
  BY <1>3, <1>4, <1>5, InductiveSet
<1> QED
  BY <1>2, <1>6 DEF N

-----------------------------------------------------------------------------
(* Front *)

LEMMA FrontOfAppend ==
  ASSUME NEW S, NEW s \in Seq(S), NEW x \in S
  PROVE  Front(Append(s, x)) = s
<1>1. /\ Len(Append(s, x)) = Len(s) + 1 /\ Len(s) \in Nat
      /\ \A i \in 1..Len(s) : Append(s, x)[i] = s[i]
      /\ \A i \in 1..Len(s) : s[i] \in S
  BY AppendProperties
<1> DEFINE a == Append(s, x)
<1> HIDE DEF a
<1> DEFINE f == SubSeq(a, 1, Len(s))
<1>2. f \in Seq(S) /\ Len(f) = Len(s) /\ \A i \in 1..Len(s) : f[i] = s[i]
  BY <1>1, SubSeqProperties DEF a
<1>3. f = s
  BY <1>2, SeqEqual
<1> QED
  BY <1>1, <1>3 DEF Front, a
=============================================================================
