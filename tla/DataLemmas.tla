----------------------------- MODULE DataLemmas -----------------------------
(***************************************************************************)
(* What the library's operators return for every finite input, as far as   *)
(* the proofs need it: the concatenation of a sequence of sequences is a   *)
(* sequence, and a sum of naturals is zero only if all of them are.  Both  *)
(* operators are recursive functions.  That a function with the recursive  *)
(* equation exists, and what its values are, goes by the least             *)
(* counterexample: a nonempty set of naturals has a least element.         *)
(***************************************************************************)
EXTENDS Integers, SequencesExt, FiniteSetTheorems, SequenceTheorems, WellFoundedInduction,
        TLAPS

\* The least element, by the well-foundedness of inclusion on finite sets: the sets
\* 0..n with n in A have a smallest.
LEMMA LeastNatural ==
    ASSUME NEW A \in SUBSET Nat, A # {}
    PROVE  \E x \in A : \A y \in A : x <= y
  <1> DEFINE T == {0..n : n \in A}
             R == StrictSubsetOrdering(Nat)
  <1>1. IsWellFoundedOn(R, FiniteSubsetsOf(Nat))
    BY FS_StrictSubsetOrderingWellFounded
  <1>2. \A n \in A : 0..n \in SUBSET Nat /\ IsFiniteSet(0..n)
    <2> SUFFICES ASSUME NEW n \in A
                 PROVE  0..n \in SUBSET Nat /\ IsFiniteSet(0..n)
      OBVIOUS
    <2>1. n \in Int /\ 0 \in Int
      OBVIOUS
    <2> QED  BY <2>1, FS_Interval
  <1>3. T \subseteq FiniteSubsetsOf(Nat) /\ T # {}
    BY <1>2 DEF FiniteSubsetsOf
  <1>4. PICK t \in T : \A u \in T : <<u, t>> \notin R
    <2> HIDE DEF T, R
    <2> QED  BY <1>1, <1>3, WFMin
  <1>5. PICK x \in A : t = 0..x
    BY DEF T
  <1>6. ASSUME NEW y \in A
        PROVE  x <= y
    <2>1. CASE y < x
      <3>1. 0..y \subseteq 0..x /\ 0..y # 0..x
        <4>1. x \in 0..x /\ x \notin 0..y
          BY <2>1
        <4> QED  BY <2>1, <4>1
      <3>2. <<0..y, 0..x>> \in R
        BY <1>2, <3>1 DEF StrictSubsetOrdering
      <3> QED  BY <1>4, <1>5, <3>2
    <2> QED  BY <2>1
  <1> QED  BY <1>6

-----------------------------------------------------------------------------
(* Concatenation.                                                          *)

\* What FlattenSeq makes of sequences over S is a sequence over S.
LEMMA FlattenIsSequence ==
    ASSUME NEW S, NEW seqs \in Seq(Seq(S))
    PROVE  FlattenSeq(seqs) \in Seq(S)
  <1> DEFINE Upto(f, n) == f = [i \in 1..n |-> IF i = 1 THEN seqs[i] ELSE f[i-1] \o seqs[i]]
             F == CHOOSE f : Upto(f, Len(seqs))
             Missing == {n \in Nat : n \in 1..Len(seqs) /\ ~ \E f \in [1..n -> Seq(S)] : Upto(f, n)}
  <1>t. Len(seqs) \in Nat /\ \A i \in 1..Len(seqs) : seqs[i] \in Seq(S)
    OBVIOUS
  <1>1. Missing = {}
    <2> SUFFICES ASSUME Missing # {}
                 PROVE  FALSE
      OBVIOUS
    <2>1. PICK n \in Missing : \A m \in Missing : n <= m
      <3>1. Missing \in SUBSET Nat
        OBVIOUS
      <3> HIDE DEF Missing
      <3> QED  BY <3>1, LeastNatural
    <2>2. CASE n = 1
      <3> DEFINE g == [i \in 1..1 |-> seqs[1]]
      <3>1. g \in [1..1 -> Seq(S)]
        BY <1>t, <2>1, <2>2
      <3>2. Upto(g, 1)
        OBVIOUS
      <3> QED  BY <2>1, <2>2, <3>1, <3>2
    <2>3. CASE n # 1
      <3>1. n \in 1..Len(seqs) /\ n \in Nat /\ n - 1 \in 1..Len(seqs) /\ n - 1 \in Nat
        BY <1>t, <2>1, <2>3
      <3>2. n - 1 \notin Missing
        <4> HIDE DEF Missing
        <4> QED  BY <2>1, <3>1
      <3>3. PICK f \in [1..(n - 1) -> Seq(S)] : Upto(f, n - 1)
        BY <3>1, <3>2
      <3> DEFINE g == [i \in 1..n |-> IF i = n THEN f[n - 1] \o seqs[n] ELSE f[i]]
      <3>4. g \in [1..n -> Seq(S)]
        <4>1. f[n - 1] \in Seq(S) /\ seqs[n] \in Seq(S)
          BY <1>t, <3>1
        <4>2. f[n - 1] \o seqs[n] \in Seq(S)
          BY <4>1
        <4>3. \A i \in 1..n : i # n => i \in 1..(n - 1)
          BY <3>1
        <4> QED  BY <4>2, <4>3
      <3>5. ASSUME NEW i \in 1..n
            PROVE  g[i] = IF i = 1 THEN seqs[i] ELSE g[i-1] \o seqs[i]
        <4>1. CASE i = n
          <5>1. n \in 1..n /\ n - 1 \in 1..n /\ n - 1 # n
            BY <3>1
          <5>2. g[n] = f[n - 1] \o seqs[n] /\ g[n - 1] = f[n - 1]
            BY <5>1
          <5> HIDE DEF g
          <5> QED  BY <2>3, <4>1, <5>2
        <4>2. CASE i # n
          <5>1. /\ i \in 1..(n - 1) /\ i # n
                /\ i # 1 => i - 1 \in 1..(n - 1) /\ i - 1 \in 1..n /\ i - 1 # n
            BY <3>1, <4>2
          <5>2. g[i] = f[i] /\ (i # 1 => g[i - 1] = f[i - 1])
            BY <5>1
          <5>3. f[i] = IF i = 1 THEN seqs[i] ELSE f[i-1] \o seqs[i]
            BY <3>3, <5>1
          <5> HIDE DEF g
          <5> QED  BY <5>2, <5>3
        <4> QED  BY <4>1, <4>2
      <3>6. Upto(g, n)
        <4>1. g = [i \in 1..n |-> g[i]]
          OBVIOUS
        <4> HIDE DEF g
        <4> QED  BY <3>5, <4>1
      <3> QED  BY <2>1, <3>4, <3>6
    <2> QED  BY <2>2, <2>3
  <1>2. CASE Len(seqs) = 0
    <2>1. FlattenSeq(seqs) = seqs /\ seqs = <<>>
      BY <1>2 DEF FlattenSeq
    <2> QED  BY <2>1
  <1>3. CASE Len(seqs) # 0
    <2>1. Upto(F, Len(seqs))
      <3>1. Len(seqs) \in Nat /\ Len(seqs) \in 1..Len(seqs)
        BY <1>3, <1>t
      <3> HIDE DEF Upto
      <3>2. \E f : Upto(f, Len(seqs))
        BY <1>1, <3>1
      <3> QED  BY <3>2
    <2>2. FlattenSeq(seqs) = F[Len(seqs)]
      BY <1>3 DEF FlattenSeq
    <2> DEFINE Wrong == {i \in Nat : i \in 1..Len(seqs) /\ F[i] \notin Seq(S)}
    <2>3. \A i \in 1..Len(seqs) : F[i] = IF i = 1 THEN seqs[i] ELSE F[i-1] \o seqs[i]
      <3> HIDE DEF F
      <3> QED  BY <2>1
    <2>4. Wrong = {}
      <3> HIDE DEF F
      <3> SUFFICES ASSUME Wrong # {}
                   PROVE  FALSE
        OBVIOUS
      <3>1. PICK i \in Wrong : \A j \in Wrong : i <= j
        <4>1. Wrong \in SUBSET Nat
          OBVIOUS
        <4> HIDE DEF Wrong
        <4> QED  BY <4>1, LeastNatural
      <3>2. CASE i = 1
        BY <1>t, <2>3, <3>1, <3>2
      <3>3. CASE i # 1
        <4>1. i \in 1..Len(seqs) /\ i - 1 \in 1..Len(seqs) /\ i - 1 \in Nat
          BY <1>t, <3>1, <3>3
        <4>2. F[i - 1] \in Seq(S)
          BY <3>1, <4>1
        <4>3. F[i] = F[i - 1] \o seqs[i]
          BY <2>3, <3>3, <4>1
        <4>4. seqs[i] \in Seq(S)
          BY <1>t, <4>1
        <4>5. F[i] \in Seq(S)
          BY <4>2, <4>3, <4>4
        <4> QED  BY <3>1, <4>5
      <3> QED  BY <3>2, <3>3
    <2>5. Len(seqs) \in Nat /\ Len(seqs) \in 1..Len(seqs)
      BY <1>3, <1>t
    <2> HIDE DEF F
    <2> QED  BY <2>2, <2>4, <2>5
  <1> QED  BY <1>2, <1>3

\* What is concatenated is a prefix and a suffix of the whole.
LEMMA PrefixOfConcat ==
    ASSUME NEW S, NEW s \in Seq(S), NEW t \in Seq(S)
    PROVE  IsPrefix(s, s \o t)
  <1> DEFINE u == s \o t
  <1>1. u \in Seq(S) /\ Len(u) = Len(s) + Len(t) /\ \A i \in 1..Len(s) : u[i] = s[i]
    BY ConcatProperties, LenProperties
  <1>2. Len(s) \in Nat /\ Len(t) \in Nat
    BY LenProperties
  <1> HIDE DEF u
  <1>3. SubSeq(s, 1, Len(s)) = SubSeq(u, 1, Len(s))
    <2> DEFINE a == SubSeq(s, 1, Len(s))
               b == SubSeq(u, 1, Len(s))
    <2>1. \A i \in 1..Len(s) : s[i] \in S /\ u[i] \in S
      BY <1>1, ElementOfSeq
    <2>2. /\ a \in Seq(S) /\ Len(a) = (IF 1 <= Len(s) THEN Len(s) - 1 + 1 ELSE 0)
          /\ \A i \in 1..(Len(s) - 1 + 1) : a[i] = s[1 + i - 1]
      BY <1>2, <2>1, SubSeqProperties
    <2>3. /\ b \in Seq(S) /\ Len(b) = (IF 1 <= Len(s) THEN Len(s) - 1 + 1 ELSE 0)
          /\ \A i \in 1..(Len(s) - 1 + 1) : b[i] = u[1 + i - 1]
      BY <1>2, <2>1, SubSeqProperties
    <2> HIDE DEF a, b
    <2>4. Len(a) = Len(b) /\ \A i \in 1..Len(a) : a[i] = b[i]
      BY <1>1, <1>2, <2>2, <2>3
    <2>5. a = b
      BY <2>2, <2>3, <2>4, SeqEqual
    <2> QED  BY <2>5 DEF a, b
  <1> QED  BY <1>1, <1>2, <1>3 DEF IsPrefix, u

LEMMA ReverseOfConcat ==
    ASSUME NEW S, NEW s \in Seq(S), NEW t \in Seq(S)
    PROVE  /\ Reverse(t) \in Seq(S) /\ Reverse(s) \in Seq(S)
           /\ Reverse(s \o t) = Reverse(t) \o Reverse(s)
  <1> DEFINE u == s \o t
             ru == Reverse(u)
             rs == Reverse(s)
             rt == Reverse(t)
             v == rt \o rs
  <1>1. u \in Seq(S) /\ Len(u) = Len(s) + Len(t)
        /\ \A i \in 1..(Len(s) + Len(t)) : u[i] = IF i <= Len(s) THEN s[i] ELSE t[i - Len(s)]
    BY ConcatProperties
  <1>2. \A x \in Seq(S) : /\ Reverse(x) \in Seq(S) /\ Len(Reverse(x)) = Len(x) /\ Len(x) \in Nat
                          /\ \A i \in 1..Len(x) : Reverse(x)[i] = x[Len(x) - i + 1]
    <2> SUFFICES ASSUME NEW x \in Seq(S)
                 PROVE  /\ Reverse(x) \in Seq(S) /\ Len(Reverse(x)) = Len(x) /\ Len(x) \in Nat
                        /\ \A i \in 1..Len(x) : Reverse(x)[i] = x[Len(x) - i + 1]
      OBVIOUS
    <2>1. \A i \in 1..Len(x) : Len(x) - i + 1 \in 1..Len(x) /\ x[Len(x) - i + 1] \in S
      BY LenProperties
    <2>2. Len(x) \in Nat /\ Reverse(x) \in [1..Len(x) -> S]
      BY <2>1, LenProperties DEF Reverse
    <2>3. Reverse(x) \in Seq(S) /\ Len(Reverse(x)) = Len(x)
      BY <2>2, SeqDef, LenProperties
    <2> QED  BY <2>2, <2>3 DEF Reverse
  <1>s. PICK n \in Nat, m \in Nat : Len(s) = n /\ Len(t) = m
    BY LenProperties
  <1> HIDE DEF u
  <1>3. /\ ru \in Seq(S) /\ Len(ru) = n + m
        /\ \A i \in 1..(n + m) : ru[i] = u[n + m - i + 1]
    <2>1. ru \in Seq(S) /\ Len(ru) = Len(u) /\ \A i \in 1..Len(u) : ru[i] = u[Len(u) - i + 1]
      BY <1>1, <1>2
    <2>2. Len(u) = n + m
      BY <1>1, <1>s
    <2> HIDE DEF ru
    <2>3. ASSUME NEW i \in 1..(n + m)
          PROVE  ru[i] = u[n + m - i + 1]
      <3>1. i \in 1..Len(u)
        BY <2>2
      <3>2. ru[i] = u[Len(u) - i + 1]
        BY <2>1, <3>1
      <3> QED  BY <2>2, <3>2
    <2> QED  BY <2>1, <2>2, <2>3
  <1>4. /\ rs \in Seq(S) /\ Len(rs) = n /\ \A i \in 1..n : rs[i] = s[n - i + 1]
        /\ rt \in Seq(S) /\ Len(rt) = m /\ \A i \in 1..m : rt[i] = t[m - i + 1]
    BY <1>2, <1>s
  <1> HIDE DEF rs, rt, ru
  <1>5. /\ v \in Seq(S) /\ Len(v) = m + n
        /\ \A i \in 1..(m + n) : v[i] = IF i <= m THEN rt[i] ELSE rs[i - m]
    <2>1. /\ v \in Seq(S) /\ Len(v) = Len(rt) + Len(rs)
          /\ \A i \in 1..(Len(rt) + Len(rs)) :
                v[i] = IF i <= Len(rt) THEN rt[i] ELSE rs[i - Len(rt)]
      BY <1>4, ConcatProperties
    <2> HIDE DEF v
    <2> QED  BY <1>4, <2>1
  <1> HIDE DEF v
  <1>6. ASSUME NEW i \in 1..(n + m)
        PROVE  ru[i] = v[i]
    <2>u. \A j \in 1..(n + m) : u[j] = IF j <= n THEN s[j] ELSE t[j - n]
      BY <1>1, <1>s
    <2>1. CASE i <= m
      <3>1. i \in 1..m /\ n + m - i + 1 \in 1..(n + m) /\ ~(n + m - i + 1 <= n)
        BY <2>1
      <3>2. (n + m - i + 1) - n = m - i + 1
        OBVIOUS
      <3>3. u[n + m - i + 1] = t[m - i + 1]
        BY <2>u, <3>1, <3>2
      <3> QED  BY <1>3, <1>4, <1>5, <2>1, <3>1, <3>3
    <2>2. CASE i > m
      <3>1. i - m \in 1..n /\ n + m - i + 1 \in 1..(n + m) /\ n + m - i + 1 <= n
        BY <2>2
      <3>2. n - (i - m) + 1 = n + m - i + 1
        OBVIOUS
      <3>3. u[n + m - i + 1] = s[n + m - i + 1]
        BY <2>u, <3>1
      <3>4. rs[i - m] = s[n + m - i + 1]
        BY <1>4, <3>1, <3>2
      <3> QED  BY <1>3, <1>5, <2>2, <3>3, <3>4
    <2> QED  BY <2>1, <2>2
  <1>7. ru = v
    <2>1. Len(ru) = Len(v) /\ \A i \in 1..Len(ru) : ru[i] = v[i]
      BY <1>3, <1>5, <1>6
    <2> QED  BY <1>3, <1>5, <2>1, SeqEqual
  <1> QED  BY <1>4, <1>7 DEF ru, u, v, rs, rt

LEMMA SuffixOfConcat ==
    ASSUME NEW S, NEW s \in Seq(S), NEW t \in Seq(S)
    PROVE  IsSuffix(t, s \o t)
  <1>1. IsPrefix(Reverse(t), Reverse(t) \o Reverse(s))
    BY ReverseOfConcat, PrefixOfConcat
  <1> QED  BY <1>1, ReverseOfConcat DEF IsSuffix

-----------------------------------------------------------------------------
(* Sums.                                                                   *)

\* The element the folds of the library take next.
Some(s) == CHOOSE x \in s : TRUE

\* F is what the fold that sums w over S takes as its recursive function.
Sums(w, S, F) ==
    F = [s \in SUBSET S |-> IF s = {} THEN 0 ELSE w[Some(s)] + F[s \ {Some(s)}]]

\* A subset without the element the fold takes next.
LEMMA OneLess ==
    ASSUME NEW S, IsFiniteSet(S), NEW s \in SUBSET S, s # {}
    PROVE  /\ Some(s) \in s /\ s \ {Some(s)} \in SUBSET S
           /\ Cardinality(s) \in Nat /\ Cardinality(s) > 0
           /\ Cardinality(s \ {Some(s)}) = Cardinality(s) - 1
  <1>1. Some(s) \in s
    BY DEF Some
  <1>2. IsFiniteSet(s)
    BY FS_Subset
  <1>3. Cardinality(s) \in Nat /\ Cardinality(s) # 0
    BY <1>2, FS_CardinalityType, FS_EmptySet
  <1>4. Cardinality(s \ {Some(s)}) = Cardinality(s) - 1
    BY <1>1, <1>2, FS_RemoveElement
  <1> QED  BY <1>1, <1>3, <1>4

\* The recursive function of the fold exists.
LEMMA SumExists ==
    ASSUME NEW S, IsFiniteSet(S), NEW w \in [S -> Nat]
    PROVE  \E F : Sums(w, S, F)
  <1> DEFINE Small(n) == {s \in SUBSET S : Cardinality(s) <= n}
             Step(F, s) == IF s = {} THEN 0 ELSE w[Some(s)] + F[s \ {Some(s)}]
             Upto(F, n) == F = [s \in Small(n) |-> Step(F, s)]
             Missing == {n \in Nat : ~ \E F : Upto(F, n)}
  <1>c. \A s \in SUBSET S : Cardinality(s) \in Nat
    BY FS_Subset, FS_CardinalityType
  <1>d. \A s \in SUBSET S : s # {} => Cardinality(s) > 0
    BY OneLess
  <1>1. Missing = {}
    <2> SUFFICES ASSUME Missing # {}
                 PROVE  FALSE
      OBVIOUS
    <2>1. PICK n \in Missing : \A m \in Missing : n <= m
      <3>1. Missing \in SUBSET Nat
        OBVIOUS
      <3> HIDE DEF Missing
      <3> QED  BY <3>1, LeastNatural
    <2>2. n \in Nat /\ ~ \E F : Upto(F, n)
      <3> HIDE DEF Upto
      <3> QED  BY <2>1
    <2>3. CASE n = 0
      <3> DEFINE g == [s \in Small(0) |-> 0]
      <3>1. \A s \in Small(0) : s = {}
        BY <1>c, <1>d
      <3>2. \A s \in Small(0) : Step(g, s) = 0
        BY <3>1
      <3>3. Upto(g, 0)
        <4> HIDE DEF Step, Small
        <4> QED  BY <3>2
      <3> HIDE DEF Upto
      <3> QED  BY <2>2, <2>3, <3>3
    <2>4. CASE n # 0
      <3>1. n - 1 \in Nat
        BY <2>2, <2>4
      <3>2. PICK f : Upto(f, n - 1)
        <4>1. n - 1 \notin Missing
          <5> HIDE DEF Missing
          <5> QED  BY <2>1, <2>2, <3>1
        <4> HIDE DEF Upto
        <4> QED  BY <3>1, <4>1
      <3> DEFINE g == [s \in Small(n) |-> Step(f, s)]
      <3>3. \A s \in Small(n - 1) : f[s] = Step(f, s) /\ s \in Small(n)
        <4>1. \A s \in Small(n - 1) : f[s] = Step(f, s)
          <5> HIDE DEF Small, Step
          <5> QED  BY <3>2
        <4>2. Small(n - 1) \subseteq Small(n)
          BY <1>c, <2>2
        <4> HIDE DEF Small, Step
        <4> QED  BY <4>1, <4>2
      <3>4. \A s \in Small(n) : s # {} => s \ {Some(s)} \in Small(n - 1)
        BY <1>c, <2>2, OneLess
      <3>5. \A s \in Small(n - 1) : g[s] = f[s]
        <4> HIDE DEF Small, Step
        <4> QED  BY <3>3
      <3>6. ASSUME NEW s \in Small(n)
            PROVE  Step(g, s) = Step(f, s)
        <4>1. s # {} => g[s \ {Some(s)}] = f[s \ {Some(s)}]
          <5> HIDE DEF Small, g
          <5> QED  BY <3>4, <3>5
        <4> HIDE DEF g
        <4> QED  BY <4>1
      <3>7. Upto(g, n)
        <4>1. g = [s \in Small(n) |-> Step(g, s)]
          <5> HIDE DEF Small, Step
          <5> QED  BY <3>6
        <4> QED  BY <4>1
      <3> HIDE DEF Upto
      <3> QED  BY <2>2, <3>7
    <2> QED  BY <2>3, <2>4
  <1>2. Cardinality(S) \in Nat /\ Small(Cardinality(S)) = SUBSET S
    BY <1>c, FS_Subset, FS_CardinalityType
  <1>3. PICK F : Upto(F, Cardinality(S))
    <2> HIDE DEF Upto
    <2> QED  BY <1>1, <1>2
  <1>4. F = [s \in SUBSET S |-> Step(F, s)]
    <2> HIDE DEF Step, Small
    <2> QED  BY <1>2, <1>3
  <1> QED  BY <1>4 DEF Sums

\* Its value at S, the sum, is zero if and only if every term is.
LEMMA SumIsZero ==
    ASSUME NEW S, IsFiniteSet(S), NEW w \in [S -> Nat], NEW F, Sums(w, S, F)
    PROVE  F[S] \in Nat /\ (F[S] = 0 <=> \A x \in S : w[x] = 0)
  <1> DEFINE Right(s) == F[s] \in Nat /\ (F[s] = 0 <=> \A x \in s : w[x] = 0)
             Wrong == {n \in Nat : \E s \in SUBSET S : Cardinality(s) = n /\ ~Right(s)}
  <1>1. \A s \in SUBSET S : F[s] = IF s = {} THEN 0 ELSE w[Some(s)] + F[s \ {Some(s)}]
    BY DEF Sums
  <1>2. Wrong = {}
    <2> SUFFICES ASSUME Wrong # {}
                 PROVE  FALSE
      OBVIOUS
    <2>1. PICK n \in Wrong : \A m \in Wrong : n <= m
      <3>1. Wrong \in SUBSET Nat
        OBVIOUS
      <3> HIDE DEF Wrong
      <3> QED  BY <3>1, LeastNatural
    <2>2. PICK s \in SUBSET S : Cardinality(s) = n /\ ~Right(s)
      BY <2>1
    <2>3. CASE s = {}
      <3>1. F[s] = 0
        BY <1>1, <2>3
      <3> QED  BY <2>2, <2>3, <3>1
    <2>4. CASE s # {}
      <3> DEFINE x == Some(s)
                 rest == s \ {x}
      <3>1. x \in s /\ rest \in SUBSET S /\ n \in Nat /\ n > 0 /\ Cardinality(rest) = n - 1
        BY <2>2, <2>4, OneLess
      <3>2. Right(rest)
        <4>1. n - 1 \notin Wrong /\ n - 1 \in Nat
          <5>1. n - 1 \in Nat /\ n - 1 < n
            BY <3>1
          <5> HIDE DEF Wrong
          <5> QED  BY <2>1, <3>1, <5>1
        <4> HIDE DEF Right, rest
        <4> QED  BY <3>1, <4>1
      <3>3. F[s] = w[x] + F[rest] /\ w[x] \in Nat
        BY <1>1, <2>4, <3>1
      <3>4. (\A y \in s : w[y] = 0) <=> (w[x] = 0 /\ \A y \in rest : w[y] = 0)
        BY <3>1
      <3>5. F[s] \in Nat /\ (F[s] = 0 <=> w[x] = 0 /\ F[rest] = 0)
        <4>1. F[rest] \in Nat
          BY <3>2
        <4> HIDE DEF x, rest
        <4> QED  BY <3>3, <4>1
      <3> QED  BY <2>2, <3>2, <3>4, <3>5
    <2> QED  BY <2>3, <2>4
  <1>3. Cardinality(S) \in Nat
    BY FS_CardinalityType
  <1>4. Right(S)
    <2> HIDE DEF Right
    <2> QED  BY <1>2, <1>3
  <1> QED  BY <1>4
=============================================================================
