-------------------------- MODULE ValidationProofs --------------------------
(***************************************************************************)
(* A validation and the sweep of backtests it rests on.                    *)
(*                                                                         *)
(* A verdict rests on the backtests that were run for it and on nothing    *)
(* that would better it; the ledgers of trials and holdouts only grow; the *)
(* partitions of an accepted scheme are disjoint (Validation).  The runs   *)
(* of a sweep share one signal, select by the buffer, and order what is    *)
(* whole and within its caps (Rebalances).                                 *)
(***************************************************************************)
EXTENDS Validation, Rebalances, SequenceTheorems, FiniteSetTheorems, WellFoundedInduction,
        TLAPS

-----------------------------------------------------------------------------
(* Induction over numbers and finite sets, by the least counterexample.    *)

LEMMA LeastNat ==
    ASSUME NEW B, B \subseteq Nat, B # {}
    PROVE  \E n \in B : \A m \in B : ~(m < n)
<1>1. PICK n \in B : \A m \in B : ~(<<m, n>> \in OpToRel(<, Nat))
  BY WFMin, NatLessThanWellFounded
<1> QED
  BY <1>1 DEF OpToRel

(* What holds of a finite set as soon as it holds of the set without any   *)
(* one of its elements holds of all its subsets.  G is what it holds of.   *)
LEMMA BySubsets ==
    ASSUME NEW S, IsFiniteSet(S), NEW G,
           \A T \in SUBSET S : (\A x \in T : T \ {x} \in G) => T \in G
    PROVE  \A T \in SUBSET S : T \in G
<1> DEFINE B == {n \in Nat : \E T \in SUBSET S : T \notin G /\ Cardinality(T) = n}
<1>1. B = {}
  <2> SUFFICES ASSUME B # {} PROVE FALSE
    OBVIOUS
  <2>1. PICK n \in B : \A m \in B : ~(m < n)
    <3>1. B \subseteq Nat
      OBVIOUS
    <3> HIDE DEF B
    <3> QED
      BY <3>1, LeastNat
  <2>2. PICK T \in SUBSET S : T \notin G /\ Cardinality(T) = n
    OBVIOUS
  <2>3. PICK x \in T : T \ {x} \notin G
    BY <2>2
  <2>4. IsFiniteSet(T)
    BY FS_Subset
  <2>5. /\ Cardinality(T \ {x}) = n - 1 /\ Cardinality(T \ {x}) \in Nat
        /\ T \ {x} \in SUBSET S
    BY <2>2, <2>4, FS_RemoveElement, FS_CardinalityType
  <2>6. n - 1 \in B /\ n - 1 < n
    BY <2>3, <2>5
  <2> HIDE DEF B
  <2> QED
    BY <2>1, <2>6
<1>2. \A T \in SUBSET S : Cardinality(T) \in Nat
  BY FS_Subset, FS_CardinalityType
<1> QED
  BY <1>1, <1>2

LEMMA BySteps ==
    ASSUME NEW G, 0 \in G, \A n \in Nat : n \in G => n + 1 \in G
    PROVE  \A n \in Nat : n \in G
<1> SUFFICES ASSUME Nat \ G # {} PROVE FALSE
  OBVIOUS
<1>1. PICK n \in Nat \ G : \A m \in Nat \ G : ~(m < n)
  <2>1. Nat \ G \subseteq Nat
    OBVIOUS
  <2> QED
    BY <2>1, LeastNat
<1>2. n - 1 \in Nat /\ n - 1 < n /\ (n - 1) + 1 = n
  BY <1>1
<1>3. n - 1 \in G
  BY <1>1, <1>2
<1> QED
  BY <1>1, <1>2, <1>3

LEMMA HasAMaximum ==
    ASSUME NEW S \in SUBSET Int, IsFiniteSet(S), S # {}
    PROVE  \E x \in S : \A y \in S : x >= y
<1> DEFINE G == {T \in SUBSET S : T # {} => \E x \in T : \A y \in T : x >= y}
<1>1. ASSUME NEW T \in SUBSET S, \A x \in T : T \ {x} \in G PROVE T \in G
  <2> SUFFICES ASSUME T # {} PROVE \E x \in T : \A y \in T : x >= y
    OBVIOUS
  <2>1. PICK x \in T : TRUE
    OBVIOUS
  <2>2. CASE T = {x}
    BY <2>1, <2>2
  <2>3. CASE T # {x}
    <3>1. PICK y \in T \ {x} : \A z \in T \ {x} : y >= z
      <4>1. T \ {x} # {}
        BY <2>1, <2>3
      <4> QED
        BY <1>1, <2>1, <4>1
    <3>2. CASE x >= y
      BY <2>1, <3>1, <3>2
    <3>3. CASE y >= x
      BY <2>1, <3>1, <3>3
    <3> QED
      BY <2>1, <3>1, <3>2, <3>3
  <2> QED
    BY <2>2, <2>3
<1>2. \A T \in SUBSET S : T \in G
  <2> HIDE DEF G
  <2> QED
    BY <1>1, BySubsets
<1> QED
  BY <1>2

-----------------------------------------------------------------------------
(* Sequences that list a finite set, and the extremes of one.              *)

LEMMA ListsEveryElement ==
    ASSUME NEW S, IsFiniteSet(S)
    PROVE  /\ SetToSeq(S) \in [1 .. Cardinality(S) -> S]
           /\ SetToSeq(S) \in Seq(S) /\ Len(SetToSeq(S)) = Cardinality(S)
           /\ IsInjective(SetToSeq(S))
           /\ \A x \in S : \E k \in 1 .. Len(SetToSeq(S)) : SetToSeq(S)[k] = x
<1> DEFINE n == Cardinality(S)
<1>1. n \in Nat /\ ExistsBijection(1 .. n, S)
  BY FS_CardinalityType
<1>2. \E f \in [1 .. n -> S] : IsInjective(f)
  BY <1>1 DEF ExistsBijection, Bijection, Injection
<1>3. SetToSeq(S) \in [1 .. n -> S] /\ IsInjective(SetToSeq(S))
  BY <1>2 DEF SetToSeq
<1>4. SetToSeq(S) \in Seq(S) /\ Len(SetToSeq(S)) = n
  BY <1>1, <1>3
<1>5. SetToSeq(S) \in Injection(1 .. n, S)
  BY <1>3 DEF Injection
<1>6. Cardinality(1 .. n) = n
  BY <1>1, FS_Interval
<1>7. SetToSeq(S) \in Surjection(1 .. n, S)
  BY <1>5, <1>6, FS_Injection
<1> QED
  BY <1>3, <1>4, <1>7 DEF Surjection

LEMMA Extremes ==
    ASSUME NEW S \in SUBSET Int, IsFiniteSet(S), S # {}
    PROVE  /\ Max(S) \in S /\ \A y \in S : Max(S) >= y
           /\ Min(S) \in S /\ \A y \in S : Min(S) <= y
<1>1. \E x \in S : \A y \in S : x >= y
  BY HasAMaximum
<1>2. Max(S) \in S /\ \A y \in S : Max(S) >= y
  BY <1>1 DEF Max
<1> DEFINE N == {-x : x \in S}
<1>3. N \in SUBSET Int /\ N # {}
  <2>1. \A y \in N : y \in Int
    OBVIOUS
  <2>2. \A y \in S : -y \in N
    OBVIOUS
  <2> HIDE DEF N
  <2> QED
    BY <2>1, <2>2
<1>4. IsFiniteSet(N)
  <2> DEFINE f == [x \in S |-> -x]
  <2>1. f \in Surjection(S, N)
    BY DEF Surjection
  <2> QED
    BY <2>1, FS_Surjection
<1>5. PICK x \in N : \A y \in N : x >= y
  BY <1>3, <1>4, HasAMaximum
<1>6. -x \in S /\ \A y \in S : -x <= y
  <2>1. PICK z \in S : x = -z
    OBVIOUS
  <2>2. -x = z
    BY <2>1
  <2>3. \A y \in S : -y \in N
    OBVIOUS
  <2>4. \A y \in S : x >= -y
    BY <1>5, <2>3
  <2> QED
    BY <2>1, <2>2, <2>4
<1>7. Min(S) \in S /\ \A y \in S : Min(S) <= y
  BY <1>6 DEF Min
<1> QED
  BY <1>2, <1>7

(* The elements of u are those of s and of t. *)
HasBoth(u, s, t) ==
    /\ \A k \in 1 .. Len(u) : \/ \E j \in 1 .. Len(s) : u[k] = s[j]
                            \/ \E j \in 1 .. Len(t) : u[k] = t[j]
    /\ \A j \in 1 .. Len(s) : \E k \in 1 .. Len(u) : u[k] = s[j]
    /\ \A j \in 1 .. Len(t) : \E k \in 1 .. Len(u) : u[k] = t[j]

LEMMA JoinedOnce ==
    ASSUME NEW X, NEW s \in Seq(X), NEW t \in Seq(X), IsInjective(s), IsInjective(t),
           \A j \in 1 .. Len(s), k \in 1 .. Len(t) : s[j] # t[k]
    PROVE  s \o t \in Seq(X) /\ IsInjective(s \o t) /\ HasBoth(s \o t, s, t)
<1>1. s \o t \in Seq(X) /\ Len(s \o t) = Len(s) + Len(t)
  BY ConcatProperties
<1>2. \A k \in 1 .. Len(s) : (s \o t)[k] = s[k]
  BY ConcatProperties
<1>3. \A k \in 1 .. Len(t) : (s \o t)[Len(s) + k] = t[k]
  BY ConcatProperties
<1>4. Len(s) \in Nat /\ Len(t) \in Nat
  BY LenProperties
<1>5. \A k \in 1 .. Len(s \o t) :
        k \in 1 .. Len(s) \/ \E j \in 1 .. Len(t) : k = Len(s) + j
  <2> SUFFICES ASSUME NEW k \in 1 .. Len(s \o t), k \notin 1 .. Len(s)
               PROVE  \E j \in 1 .. Len(t) : k = Len(s) + j
    OBVIOUS
  <2>1. k - Len(s) \in 1 .. Len(t) /\ k = Len(s) + (k - Len(s))
    BY <1>1, <1>4
  <2> QED
    BY <2>1
<1>6. DOMAIN s = 1 .. Len(s) /\ DOMAIN t = 1 .. Len(t) /\ DOMAIN (s \o t) = 1 .. Len(s \o t)
  BY <1>1, LenProperties
<1>7. IsInjective(s \o t)
  <2> SUFFICES ASSUME NEW a \in 1 .. Len(s \o t), NEW b \in 1 .. Len(s \o t),
                      (s \o t)[a] = (s \o t)[b]
               PROVE  a = b
    BY <1>6 DEF IsInjective
  <2>1. CASE a \in 1 .. Len(s) /\ b \in 1 .. Len(s)
    BY <1>2, <1>6, <2>1 DEF IsInjective
  <2>2. CASE a \in 1 .. Len(s) /\ b \notin 1 .. Len(s)
    <3>1. PICK j \in 1 .. Len(t) : b = Len(s) + j
      BY <1>5, <2>2
    <3>2. s[a] = t[j]
      BY <1>2, <1>3, <2>2, <3>1
    <3> QED
      BY <2>2, <3>2
  <2>3. CASE a \notin 1 .. Len(s) /\ b \in 1 .. Len(s)
    <3>1. PICK j \in 1 .. Len(t) : a = Len(s) + j
      BY <1>5, <2>3
    <3>2. s[b] = t[j]
      BY <1>2, <1>3, <2>3, <3>1
    <3> QED
      BY <2>3, <3>2
  <2>4. CASE a \notin 1 .. Len(s) /\ b \notin 1 .. Len(s)
    <3>1. PICK i \in 1 .. Len(t), j \in 1 .. Len(t) : a = Len(s) + i /\ b = Len(s) + j
      BY <1>5, <2>4
    <3>2. t[i] = t[j]
      BY <1>3, <3>1
    <3> QED
      BY <1>6, <3>1, <3>2 DEF IsInjective
  <2> QED
    BY <2>1, <2>2, <2>3, <2>4
<1>8. \A j \in 1 .. Len(s) : j \in 1 .. Len(s \o t)
  BY <1>1, <1>4
<1>9. \A j \in 1 .. Len(t) : Len(s) + j \in 1 .. Len(s \o t)
  BY <1>1, <1>4
<1> QED
  BY <1>1, <1>2, <1>3, <1>5, <1>7, <1>8, <1>9 DEF HasBoth

-----------------------------------------------------------------------------
(* The backtests of a validation.                                          *)

Variant == [size : Nat, drop : Sleeves \cup {None}]
OtherSizes == {[size |-> k, drop |-> None] : k \in TopKGrid \ {TargetSize}}
Ablations == IF Cardinality(Sleeves) < 2 THEN {} ELSE {[size |-> TargetSize, drop |-> f] : f \in Sleeves}

LEMMA SweepIsFinite == IsFiniteSet(OtherSizes) /\ IsFiniteSet(Ablations)
<1>1. IsFiniteSet(OtherSizes)
  <2> DEFINE f == [k \in TopKGrid \ {TargetSize} |-> [size |-> k, drop |-> None]]
  <2>1. f \in Surjection(TopKGrid \ {TargetSize}, OtherSizes)
    BY DEF Surjection, OtherSizes
  <2>2. IsFiniteSet(TopKGrid \ {TargetSize})
    BY GridAssumption, FS_RemoveElement
  <2> QED
    BY <2>1, <2>2, FS_Surjection
<1>2. IsFiniteSet({[size |-> TargetSize, drop |-> f] : f \in Sleeves})
  <2> DEFINE S == {[size |-> TargetSize, drop |-> f] : f \in Sleeves}
             g == [f \in Sleeves |-> [size |-> TargetSize, drop |-> f]]
  <2>1. g \in Surjection(Sleeves, S)
    BY DEF Surjection
  <2> QED
    BY <2>1, SleeveAssumption, FS_Surjection
<1>3. IsFiniteSet(Ablations)
  BY <1>2, FS_EmptySet DEF Ablations
<1> QED
  BY <1>1, <1>3

(* The baseline comes first, no backtest is run twice, every size there is *)
(* was run with the whole composite, and a sweep runs every size.          *)
LEMMA VariantsFacts ==
    ASSUME NEW sweeps \in BOOLEAN
    PROVE  LET tests == Variants(sweeps)
           IN  /\ tests \in Seq(Variant) /\ Len(tests) >= 1 /\ IsInjective(tests)
               /\ tests[1] = Baseline
               /\ \A k \in 1 .. Len(tests) : \E j \in 1 .. Len(tests) :
                      tests[j].size = tests[k].size /\ tests[j].drop = None
               /\ sweeps => {tests[k].size : k \in 1 .. Len(tests)} = TopKGrid \cup {TargetSize}
<1> DEFINE A == SetToSeq(OtherSizes)
           B == SetToSeq(Ablations)
           C == IF sweeps THEN A \o B ELSE <<>>
           tests == Variants(sweeps)
<1>1. Baseline \in Variant /\ OtherSizes \subseteq Variant /\ Ablations \subseteq Variant
  BY GridAssumption DEF Baseline, OtherSizes, Ablations, Variant
<1>2. A \in Seq(Variant) /\ B \in Seq(Variant)
  <2>1. A \in Seq(OtherSizes) /\ B \in Seq(Ablations)
    BY SweepIsFinite, ListsEveryElement
  <2> HIDE DEF A, B
  <2> QED
    BY <1>1, <2>1
<1>3. /\ IsInjective(A) /\ IsInjective(B)
      /\ \A k \in 1 .. Len(A) : A[k] \in OtherSizes
      /\ \A k \in 1 .. Len(B) : B[k] \in Ablations
      /\ \A x \in OtherSizes : \E k \in 1 .. Len(A) : A[k] = x
  <2>1. A \in Seq(OtherSizes) /\ B \in Seq(Ablations)
    BY SweepIsFinite, ListsEveryElement
  <2>2. /\ IsInjective(A) /\ IsInjective(B)
        /\ \A x \in OtherSizes : \E k \in 1 .. Len(A) : A[k] = x
    BY SweepIsFinite, ListsEveryElement
  <2> HIDE DEF A, B
  <2> QED
    BY <2>1, <2>2
<1>4. /\ \A x \in OtherSizes : x.drop = None /\ x.size \in TopKGrid /\ x.size # TargetSize
      /\ \A x \in Ablations : x.drop # None /\ x.size = TargetSize
  BY SleeveAssumption DEF OtherSizes, Ablations
<1>5. \A j \in 1 .. Len(A), k \in 1 .. Len(B) : A[j] # B[k]
  BY <1>3, <1>4
<1>6. Variants(sweeps) = <<Baseline>> \o C
  BY DEF Variants, OtherSizes, Ablations
<1>7. /\ C \in Seq(Variant) /\ IsInjective(C)
      /\ \A k \in 1 .. Len(C) : C[k] \in OtherSizes \cup Ablations
      /\ sweeps => \A x \in OtherSizes : \E k \in 1 .. Len(C) : C[k] = x
  <2>1. CASE sweeps
    <3>1. C = A \o B
      BY <2>1
    <3> HIDE DEF A, B, C
    <3> QED
      BY <1>2, <1>3, <1>5, <3>1, JoinedOnce DEF HasBoth
  <2>2. CASE ~sweeps
    <3>1. C = <<>>
      BY <2>2
    <3> HIDE DEF C
    <3> QED
      BY <2>2, <3>1 DEF IsInjective
  <2> QED
    BY <2>1, <2>2
<1> HIDE DEF A, B, C
<1>8. <<Baseline>> \in Seq(Variant) /\ IsInjective(<<Baseline>>)
  BY <1>1 DEF IsInjective
<1>9. \A j \in 1 .. Len(<<Baseline>>), k \in 1 .. Len(C) : <<Baseline>>[j] # C[k]
  BY <1>4, <1>7 DEF Baseline
<1>10. /\ tests \in Seq(Variant) /\ IsInjective(tests)
       /\ \A k \in 1 .. Len(tests) : tests[k] = Baseline \/ tests[k] \in OtherSizes \cup Ablations
       /\ sweeps => \A x \in OtherSizes : \E k \in 1 .. Len(tests) : tests[k] = x
  <2>1. Len(<<Baseline>>) = 1 /\ <<Baseline>>[1] = Baseline
    OBVIOUS
  <2>2. \A j \in 1 .. 1 : j = 1
    OBVIOUS
  <2> HIDE DEF tests
  <2> DEFINE one == <<Baseline>>
  <2> HIDE DEF one
  <2>3. tests = one \o C
    BY <1>6 DEF tests, one
  <2>4. /\ one \in Seq(Variant) /\ IsInjective(one)
        /\ \A j \in 1 .. Len(one), k \in 1 .. Len(C) : one[j] # C[k]
    BY <1>8, <1>9 DEF one
  <2>5. one \o C \in Seq(Variant) /\ IsInjective(one \o C) /\ HasBoth(one \o C, one, C)
    BY <1>7, <2>4, JoinedOnce
  <2>7. \A j \in 1 .. Len(one) : one[j] = Baseline
    BY <2>1, <2>2 DEF one
  <2> QED
    <3>1. tests \in Seq(Variant) /\ IsInjective(tests) /\ HasBoth(tests, one, C)
      BY <2>3, <2>5
    <3>2. ASSUME NEW k \in 1 .. Len(tests)
          PROVE  tests[k] = Baseline \/ tests[k] \in OtherSizes \cup Ablations
      BY <1>7, <2>7, <3>1 DEF HasBoth
    <3>3. ASSUME sweeps, NEW x \in OtherSizes
          PROVE  \E k \in 1 .. Len(tests) : tests[k] = x
      <4>1. PICK j \in 1 .. Len(C) : C[j] = x
        BY <1>7, <3>3
      <4> QED
        BY <3>1, <4>1 DEF HasBoth
    <3> QED
      BY <3>1, <3>2, <3>3
<1>11. Len(tests) >= 1 /\ tests[1] = Baseline
  <2>1. Len(tests) = 1 + Len(C)
    BY <1>6, <1>7, <1>8, ConcatProperties
  <2>2. tests[1] = Baseline
    BY <1>6, <1>7, <1>8
  <2> QED
    BY <1>7, <2>1, <2>2
<1> HIDE DEF tests
<1>12. Baseline.size = TargetSize /\ Baseline.drop = None
  BY DEF Baseline
<1>13. ASSUME NEW k \in 1 .. Len(tests)
       PROVE  \E j \in 1 .. Len(tests) : tests[j].size = tests[k].size /\ tests[j].drop = None
  <2>1. 1 \in 1 .. Len(tests)
    BY <1>10, <1>11
  <2>2. CASE tests[k].drop = None
    BY <2>2
  <2>3. CASE tests[k].drop # None
    <3>1. tests[k].size = TargetSize
      BY <1>4, <1>10, <1>12, <2>3
    <3> QED
      BY <1>11, <1>12, <2>1, <3>1
  <2> QED
    BY <2>2, <2>3
<1>14. ASSUME sweeps
       PROVE  {tests[k].size : k \in 1 .. Len(tests)} = TopKGrid \cup {TargetSize}
  <2>1. \A k \in 1 .. Len(tests) : tests[k].size \in TopKGrid \cup {TargetSize}
    BY <1>4, <1>10, <1>12
  <2>2. 1 \in 1 .. Len(tests) /\ tests[1].size = TargetSize
    BY <1>10, <1>11, <1>12
  <2>3. ASSUME NEW n \in TopKGrid, n # TargetSize
        PROVE  \E k \in 1 .. Len(tests) : tests[k].size = n
    <3>1. [size |-> n, drop |-> None] \in OtherSizes
      BY <2>3 DEF OtherSizes
    <3> QED
      BY <1>10, <1>14, <3>1
  <2> QED
    BY <2>1, <2>2, <2>3
<1> QED
  BY <1>10, <1>11, <1>13, <1>14 DEF tests

-----------------------------------------------------------------------------
(* What is drawn from the backtests.                                       *)

(* A plateau is flat, whatever the sizes, and a spike is not.              *)
LEMMA TopologyMeansSpread ==
    ASSUME NEW D, IsFiniteSet(D), D # {}, NEW sharpes \in [D -> Int]
    PROVE  /\ Topology(sharpes) = "plateau" => \A a, b \in D : sharpes[a] - sharpes[b] < 35
           /\ Topology(sharpes) = "spike" => \E a, b \in D : sharpes[a] - sharpes[b] > 75
<1> DEFINE R == Range(sharpes)
           spread == Max(R) - Min(R)
           n == Cardinality(D)
<1>1. R \in SUBSET Int /\ R # {} /\ sharpes \in Surjection(D, R)
  BY DEF Range, Surjection
<1>2. /\ Max(R) \in R /\ \A y \in R : Max(R) >= y
      /\ Min(R) \in R /\ \A y \in R : Min(R) <= y
  <2>1. IsFiniteSet(R)
    BY <1>1, FS_Surjection
  <2> HIDE DEF R
  <2> QED
    BY <1>1, <2>1, Extremes
<1>3. PICK a \in D, b \in D : Max(R) = sharpes[a] /\ Min(R) = sharpes[b]
  BY <1>2 DEF Range
<1>4. \A x \in D : sharpes[x] \in R /\ sharpes[x] \in Int
  BY DEF Range
<1>5. \A x, y \in D : sharpes[x] - sharpes[y] <= spread
  <2>1. Max(R) \in Int /\ Min(R) \in Int
    BY <1>1, <1>2
  <2>2. \A x \in D : sharpes[x] <= Max(R) /\ sharpes[x] >= Min(R)
    BY <1>2, <1>4, <2>1
  <2> HIDE DEF R
  <2> QED
    BY <1>4, <2>1, <2>2
<1>6. n \in Nat /\ n # 0 /\ n < 2 => \A x, y \in D : x = y
  <2>1. n \in Nat
    BY FS_CardinalityType
  <2>2. n # 0
    BY FS_EmptySet
  <2>3. n < 2 => n = 1
    BY <2>1, <2>2
  <2>4. n = 1 => \E x : D = {x}
    BY FS_Singleton
  <2> QED
    BY <2>3, <2>4
<1>7. n \in Nat /\ n # 0
  BY FS_CardinalityType, FS_EmptySet
<1>8. DOMAIN sharpes = D /\ spread \in Int
  BY <1>3
<1>9. /\ Topology(sharpes) = "spike" => spread > 75
      /\ Topology(sharpes) = "plateau" => n < 2 \/ spread < 35
  BY <1>8 DEF Topology
<1>10. spread = sharpes[a] - sharpes[b]
  BY <1>3
<1> HIDE DEF R, n, spread
<1> QED
  BY <1>4, <1>5, <1>6, <1>7, <1>8, <1>9, <1>10

LEMMA TrialSharpesLength ==
    ASSUME NEW measured, NEW n \in Nat, DOMAIN measured = 1 .. n
    PROVE  Len(TrialSharpes(measured)) = n
<1>1. TrialSharpes(measured) \in Seq({measured[k].sharpe : k \in 1 .. n})
  BY DEF TrialSharpes
<1>2. DOMAIN TrialSharpes(measured) = 1 .. n
  BY DEF TrialSharpes
<1> QED
  BY <1>1, <1>2, LenProperties

(* A Sharpe ratio for every size run, and no other.                        *)
LEMMA SurfaceOfAllSizes ==
    ASSUME NEW sweeps \in BOOLEAN, performed = Variants(sweeps),
           NEW measured \in [DOMAIN performed -> Measurements]
    PROVE  LET sizes == {performed[k].size : k \in DOMAIN performed}
           IN  /\ Surface(measured) \in [sizes -> Int]
               /\ IsFiniteSet(sizes) /\ sizes # {}
<1> DEFINE n == Len(performed)
           sizes == {performed[k].size : k \in DOMAIN performed}
           whole == {j \in DOMAIN measured : performed[j].drop = None}
           RunOf(size) == CHOOSE j \in whole : performed[j].size = size
<1>1. /\ performed \in Seq(Variant) /\ n >= 1 /\ n \in Nat /\ DOMAIN performed = 1 .. n
      /\ \A k \in 1 .. n : \E j \in 1 .. n :
            performed[j].size = performed[k].size /\ performed[j].drop = None
  BY VariantsFacts, LenProperties
<1>2. {performed[j].size : j \in whole} = sizes
  <2>1. \A j \in whole : j \in DOMAIN performed
    OBVIOUS
  <2>2. \A k \in DOMAIN performed : \E j \in whole : performed[j].size = performed[k].size
    <3> DEFINE tests == performed
    <3>1. DOMAIN tests = 1 .. n /\ DOMAIN measured = DOMAIN tests
      BY <1>1
    <3>2. \A k \in 1 .. n : \E j \in 1 .. n :
              tests[j].size = tests[k].size /\ tests[j].drop = None
      BY <1>1
    <3>3. \A j \in 1 .. n : tests[j].drop = None => j \in whole
      BY <3>1
    <3> HIDE DEF tests, n, whole
    <3>4. \A k \in 1 .. n : \E j \in whole : tests[j].size = tests[k].size
      BY <3>2, <3>3
    <3>5. \A k \in DOMAIN tests : \E j \in whole : tests[j].size = tests[k].size
      BY <3>1, <3>4
    <3> QED
      BY <3>5 DEF tests
  <2> HIDE DEF whole
  <2> QED
    BY <2>1, <2>2
<1>3. \A size \in sizes : RunOf(size) \in whole
  BY <1>2
<1>4. \A j \in whole : measured[j].sharpe \in Int
  BY MeasurementAssumption DEF Measurement
<1>5. Surface(measured) = [size \in sizes |-> measured[RunOf(size)].sharpe]
  BY <1>2 DEF Surface
<1>6. Surface(measured) \in [sizes -> Int]
  <2> HIDE DEF whole, sizes, RunOf
  <2> QED
    BY <1>3, <1>4, <1>5
<1>7. IsFiniteSet(sizes)
  <2> DEFINE f == [k \in 1 .. n |-> performed[k].size]
  <2>1. f \in Surjection(1 .. n, sizes)
    BY <1>1 DEF Surjection
  <2>2. IsFiniteSet(1 .. n)
    BY <1>1, FS_Interval
  <2> QED
    BY <2>1, <2>2, FS_Surjection
<1>8. sizes # {}
  <2>1. 1 \in DOMAIN performed
    BY <1>1
  <2>2. performed[1].size \in sizes
    BY <2>1
  <2> QED
    BY <2>2
<1> QED
  BY <1>6, <1>7, <1>8

-----------------------------------------------------------------------------
(* The ledgers.                                                            *)

(* What a trial records. *)
Trial == [campaign : Campaigns, candidate : Candidates, spec : Specs, sharpe : Int]

SpecsRecordedOnce ==
    \A j, k \in DOMAIN trials : trials[j].spec = trials[k].spec => j = k

LedgerInv == trials \in Seq(Trial) /\ SpecsRecordedOnce

(* Recording a specification leaves the earlier records in place and adds  *)
(* none for a specification that has one. *)
LEMMA RecordedKeepsLedger ==
    ASSUME LedgerInv, NEW t \in Trial, trials' = Recorded(t)
    PROVE  LedgerInv' /\ IsPrefix(trials, trials')
<1>1. CASE \E k \in DOMAIN trials : trials[k].spec = t.spec
  <2>1. trials' = trials
    BY <1>1 DEF Recorded
  <2> QED
    BY <2>1 DEF LedgerInv, SpecsRecordedOnce, IsPrefix
<1>2. CASE ~ \E k \in DOMAIN trials : trials[k].spec = t.spec
  <2>1. trials' = Append(trials, t)
    BY <1>2 DEF Recorded
  <2>2. trials' \in Seq(Trial) /\ Len(trials') = Len(trials) + 1
    BY <2>1 DEF LedgerInv
  <2>3. \A k \in 1 .. Len(trials) : trials'[k] = trials[k]
    BY <2>1 DEF LedgerInv
  <2>4. trials'[Len(trials) + 1] = t
    BY <2>1 DEF LedgerInv
  <2>5. SpecsRecordedOnce'
    BY <1>2, <2>2, <2>3, <2>4 DEF LedgerInv, SpecsRecordedOnce
  <2>6. IsPrefix(trials, trials')
    BY <2>2, <2>3 DEF LedgerInv, IsPrefix
  <2> QED
    BY <2>2, <2>5, <2>6 DEF LedgerInv
<1> QED
  BY <1>1, <1>2

LEMMA UnchangedLedger ==
    ASSUME LedgerInv, UNCHANGED trials
    PROVE  LedgerInv' /\ IsPrefix(trials, trials')
BY DEF LedgerInv, SpecsRecordedOnce, IsPrefix

(* What a step may do to the ledgers, by the actions that touch them.      *)
LEMMA LedgerStep ==
    ASSUME LedgerInv, [Next]_vars
    PROVE  /\ LedgerInv'
           /\ restarts' = restarts => IsPrefix(trials, trials')
           /\ restarts' = restarts =>
                \A k \in DOMAIN holdouts : k \in DOMAIN holdouts' /\ holdouts'[k] = holdouts[k]
<1>1. ASSUME NEW g \in Campaigns, NEW c \in Candidates, NEW s \in Specs,
             NEW sharpe \in {m.sharpe : m \in Measurements},
             RecordTrial(g, c, s, sharpe)
      PROVE  LedgerInv' /\ IsPrefix(trials, trials') /\ holdouts' = holdouts
  <2>1. [campaign |-> g, candidate |-> c, spec |-> s, sharpe |-> sharpe] \in Trial
    BY MeasurementAssumption DEF Trial, Measurement
  <2> QED
    BY <1>1, <2>1, RecordedKeepsLedger DEF RecordTrial
<1>2. ASSUME NEW c \in Candidates, NEW p \in Holdouts, NEW a \in Actors,
             OpenHoldout(c, p, a)
      PROVE  /\ LedgerInv' /\ IsPrefix(trials, trials')
             /\ \A k \in DOMAIN holdouts :
                    k \in DOMAIN holdouts' /\ holdouts'[k] = holdouts[k]
  BY <1>2, UnchangedLedger DEF OpenHoldout, Accesses
<1>3. ASSUME Restart PROVE LedgerInv' /\ restarts' # restarts
  <2>1. trials' = <<>> /\ restarts' = restarts + 1 /\ restarts < MaxRestarts
    BY <1>3 DEF Restart
  <2>2. LedgerInv'
    BY <2>1 DEF LedgerInv, SpecsRecordedOnce
  <2> QED
    BY <2>1, <2>2
<1>4. ASSUME UNCHANGED <<trials, holdouts>>
      PROVE  LedgerInv' /\ IsPrefix(trials, trials') /\ holdouts' = holdouts
  BY <1>4, UnchangedLedger
<1>5. CASE UNCHANGED vars
  BY <1>4, <1>5 DEF vars, ledgers
<1>6. ASSUME NEW c, NEW sweeps, BeginValidation(c, sweeps) PROVE UNCHANGED <<trials, holdouts>>
  BY <1>6 DEF BeginValidation, ledgers
<1>7. ASSUME RunBacktest PROVE UNCHANGED <<trials, holdouts>>
  BY <1>7 DEF RunBacktest, ledgers
<1>8. ASSUME NEW detected, FinishValidation(detected) PROVE UNCHANGED <<trials, holdouts>>
  BY <1>8 DEF FinishValidation, ledgers
<1>9. ASSUME NEW s, DefineScheme(s) PROVE UNCHANGED <<trials, holdouts>>
  BY <1>9 DEF DefineScheme, ledgers
<1>10. ASSUME NEW agenda, RunCampaign(agenda) PROVE UNCHANGED <<trials, holdouts>>
  BY <1>10 DEF RunCampaign, ledgers
<1>11. ASSUME EditReport PROVE UNCHANGED <<trials, holdouts>>
  BY <1>11 DEF EditReport, ledgers
<1> QED
  BY <1>1, <1>2, <1>3, <1>4, <1>5, <1>6, <1>7, <1>8, <1>9, <1>10, <1>11 DEF Next

(* While a process lives, its trials and holdout accesses stay as they     *)
(* were first recorded, and no specification is recorded twice: for any    *)
(* number of campaigns, candidates, actors and records.                    *)
(* (trials.py: record_once; holdout.py: open_holdout)                      *)
THEOREM LedgersOnlyGrow == Spec => LedgersAreOneWay
<1>1. Init => LedgerInv
  BY DEF Init, LedgerInv, SpecsRecordedOnce
<1>2. LedgerInv /\ [Next]_vars => LedgerInv'
  BY LedgerStep
<1>3. LedgerInv /\ [Next]_vars =>
        [restarts' = restarts =>
            /\ IsPrefix(trials, trials')
            /\ \A j, k \in DOMAIN trials' : trials'[j].spec = trials'[k].spec => j = k
            /\ \A k \in DOMAIN holdouts : k \in DOMAIN holdouts' /\ holdouts'[k] = holdouts[k]]_vars
  BY LedgerStep DEF LedgerInv, SpecsRecordedOnce
<1> QED
  BY <1>1, <1>2, <1>3, PTL DEF Spec, LedgersAreOneWay

-----------------------------------------------------------------------------
(* The inductive invariant.                                                *)

(* What ValidationRunner.run concludes from the backtests.                 *)
Outcome(candidate, sweeps, measured, detected) ==
    LET m == measured[1]
        evidence == Robustness(measured)
        n == Len(TrialSharpes(measured))
        warned == IsWarned(n, m.significant)
    IN  [candidate |-> candidate, sweeps |-> sweeps, baseline |-> m,
         failed |-> detected, evidence |-> evidence, trials |-> n, warned |-> warned,
         verdict |-> Verdict(detected, evidence.fragile, evidence.concentrated, warned)]

ValidationTask == [candidate : Candidates, sweeps : BOOLEAN,
                   todo : Seq(Variant), measured : Seq(Measurements)]

(* A running validation has measured each backtest it has performed, and   *)
(* what it has performed and has still to do are the variants.             *)
RunningInv ==
    task # None =>
        /\ result = None /\ task \in ValidationTask
        /\ Len(task.measured) = Len(performed)
        /\ performed \o task.todo = Variants(task.sweeps)

(* A result is the outcome of one measurement of every variant.            *)
ResultInv ==
    result # None =>
        \E c \in Candidates, sweeps \in BOOLEAN,
           measured \in [DOMAIN performed -> Measurements], detected \in SUBSET Gates :
              /\ performed = Variants(sweeps)
              /\ result = Outcome(c, sweeps, measured, detected)

Figures == Falsification(FALSE, 88, 80, FALSE, 45)

(* A report keeps the hash of what the campaign wrote: only its verdicts   *)
(* have been edited, if anything has.                                      *)
CampaignInv ==
    report # None =>
        \E agenda \in Agendas :
            LET written == Campaign(agenda, Figures)
            IN  report = [body |-> [dialogue |-> agenda, reports |-> written.reports,
                                    verdicts |-> report.body.verdicts],
                          hash |-> written]

(* The partitions of a scheme are disjoint, each of every other.           *)
Disjoint(s) == \A p, q \in s : p # q => (p.end < q.start \/ q.end < p.start)

TimesInv ==
    time \in Nat /\ \A k \in DOMAIN holdouts : holdouts[k].at \in Nat /\ holdouts[k].at < time

ValidationInv == performed \in Seq(Variant) /\ RunningInv /\ ResultInv
RecordsInv == LedgerInv /\ TimesInv /\ CampaignInv /\ Disjoint(scheme)

IInv == ValidationInv /\ RecordsInv

-----------------------------------------------------------------------------
(* A validation, step by step.                                             *)

LEMMA BeginStep ==
    ASSUME NEW c \in Candidates, NEW sweeps \in BOOLEAN, BeginValidation(c, sweeps)
    PROVE  ValidationInv'
<1>1. /\ task' = [candidate |-> c, sweeps |-> sweeps, todo |-> Variants(sweeps), measured |-> <<>>]
      /\ performed' = <<>> /\ result' = None
  BY DEF BeginValidation
<1>2. Variants(sweeps) \in Seq(Variant)
  BY VariantsFacts
<1>3. task' \in ValidationTask
  BY <1>1, <1>2 DEF ValidationTask
<1>4. <<>> \o Variants(sweeps) = Variants(sweeps)
  BY <1>2
<1> QED
  BY <1>1, <1>3, <1>4 DEF ValidationInv, RunningInv, ResultInv

LEMMA RunStep ==
    ASSUME ValidationInv, RunBacktest
    PROVE  ValidationInv'
<1>1. PICK m \in Measurements :
        task' = [task EXCEPT !.todo = Tail(@), !.measured = Append(@, m)]
  BY DEF RunBacktest
<1>2. /\ task # None /\ task.todo # <<>> /\ result = None /\ result' = None
      /\ performed' = Append(performed, Head(task.todo)) /\ performed \in Seq(Variant)
      /\ task \in ValidationTask /\ Len(task.measured) = Len(performed)
      /\ performed \o task.todo = Variants(task.sweeps)
  BY DEF RunBacktest, ValidationInv, RunningInv
<1>3. /\ task' = [candidate |-> task.candidate, sweeps |-> task.sweeps,
                  todo |-> Tail(task.todo), measured |-> Append(task.measured, m)]
      /\ task.todo \in Seq(Variant) /\ task.measured \in Seq(Measurements)
  BY <1>1, <1>2 DEF ValidationTask
<1>4. /\ Head(task.todo) \in Variant /\ Tail(task.todo) \in Seq(Variant)
      /\ task.todo = <<Head(task.todo)>> \o Tail(task.todo)
  BY <1>2, <1>3, HeadTailProperties
<1>5. performed' \in Seq(Variant) /\ task' \in ValidationTask
  BY <1>2, <1>3, <1>4 DEF ValidationTask
<1>6. Len(task'.measured) = Len(performed')
  BY <1>2, <1>3, <1>4
<1>7. performed' \o task'.todo = performed \o task.todo
  <2> DEFINE h == Head(task.todo)
             t == Tail(task.todo)
  <2>1. performed' = performed \o <<h>>
    BY <1>2, <1>4
  <2>2. performed \in Seq(Variant) /\ <<h>> \in Seq(Variant) /\ t \in Seq(Variant)
    BY <1>2, <1>4
  <2>3. (performed \o <<h>>) \o t = performed \o (<<h>> \o t)
    <3> HIDE DEF h, t
    <3> QED
      BY <2>2, ConcatAssociative
  <2> QED
    BY <1>3, <1>4, <2>1, <2>3
<1> QED
  BY <1>2, <1>3, <1>5, <1>6, <1>7 DEF ValidationInv, RunningInv, ResultInv

LEMMA FinishStep ==
    ASSUME ValidationInv, NEW detected \in SUBSET Gates, FinishValidation(detected)
    PROVE  ValidationInv'
<1>1. /\ task # None /\ task.todo = <<>> /\ task' = None /\ performed' = performed
      /\ result' = Outcome(task.candidate, task.sweeps, task.measured, detected)
  BY DEF FinishValidation, Outcome
<1>2. /\ task \in ValidationTask /\ performed \in Seq(Variant)
      /\ Len(task.measured) = Len(performed)
      /\ performed \o task.todo = Variants(task.sweeps)
  BY <1>1 DEF ValidationInv, RunningInv
<1>3. performed = Variants(task.sweeps)
  BY <1>1, <1>2
<1>4. task.measured \in [DOMAIN performed -> Measurements]
  BY <1>2, LenProperties DEF ValidationTask
<1>5. task.candidate \in Candidates /\ task.sweeps \in BOOLEAN
  BY <1>2 DEF ValidationTask
<1>6. \A c, sweeps, measured : Outcome(c, sweeps, measured, detected)'
                                  = Outcome(c, sweeps, measured, detected)
  BY <1>1 DEF Outcome, Robustness, Surface, TrialSharpes
<1>7. ResultInv'
  BY <1>1, <1>3, <1>4, <1>5, <1>6 DEF ResultInv
<1> QED
  BY <1>1, <1>2, <1>7 DEF ValidationInv, RunningInv

LEMMA ValidationUnchanged ==
    ASSUME ValidationInv, UNCHANGED <<task, performed, result>>
    PROVE  ValidationInv'
<1>1. \A c, sweeps, measured, detected :
        Outcome(c, sweeps, measured, detected)' = Outcome(c, sweeps, measured, detected)
  BY DEF Outcome, Robustness, Surface, TrialSharpes
<1> QED
  BY <1>1 DEF ValidationInv, RunningInv, ResultInv

-----------------------------------------------------------------------------
(* The ledgers, schemes and reports, step by step.                         *)

(* Comparing neighbours is enough: between two partitions that overlap, the*)
(* next one after the first also overlaps it.                              *)
LEMMA NeighboursAreEnough ==
    ASSUME NEW s \in Schemes, ~Overlaps(s)
    PROVE  Disjoint(s)
<1>1. \A p \in s : p.start \in Nat /\ p.end \in Nat /\ p.start <= p.end
  BY SchemeAssumption DEF Partition
<1>2. ASSUME NEW p \in s, NEW q \in s, p # q, p.start <= q.start
      PROVE  p.end < q.start
  <2> SUFFICES ASSUME p.end >= q.start PROVE FALSE
    BY <1>1
  <2>1. CASE AreNeighbours(s, p, q)
    BY <2>1 DEF Overlaps
  <2>2. CASE ~AreNeighbours(s, p, q)
    <3> DEFINE between == {r.start : r \in {x \in s : p.start < x.start /\ x.start < q.start}}
    <3>1. between # {} /\ between \subseteq Nat
      BY <1>1, <1>2, <2>2 DEF AreNeighbours
    <3>2. PICK least \in between : \A n \in between : ~(<<n, least>> \in OpToRel(<, Nat))
      <4> HIDE DEF between
      <4> QED
        BY <3>1, WFMin, NatLessThanWellFounded
    <3>3. PICK r \in s : r.start = least /\ p.start < r.start /\ r.start < q.start
      OBVIOUS
    <3>4. ~ \E x \in s : p.start < x.start /\ x.start < r.start
      <4> SUFFICES ASSUME NEW x \in s, p.start < x.start, x.start < r.start PROVE FALSE
        OBVIOUS
      <4>1. x.start < q.start
        BY <1>1, <3>3
      <4>2. x.start \in between
        BY <4>1
      <4>3. <<x.start, least>> \in OpToRel(<, Nat)
        BY <1>1, <3>3 DEF OpToRel
      <4> QED
        BY <3>2, <4>2, <4>3
    <3>5. AreNeighbours(s, p, r)
      BY <1>1, <3>3, <3>4 DEF AreNeighbours
    <3>6. p.end >= r.start
      BY <1>1, <3>3
    <3> QED
      BY <3>5, <3>6 DEF Overlaps
  <2> QED
    BY <2>1, <2>2
<1> QED
  BY <1>1, <1>2 DEF Disjoint

LEMMA OpenStep ==
    ASSUME TimesInv, NEW c, NEW p, NEW a, OpenHoldout(c, p, a)
    PROVE  TimesInv'
<1>1. /\ time' = time + 1 /\ time \in Nat
      /\ holdouts' = Accesses(<<c, p>>, [actor |-> a, at |-> time])
  BY DEF OpenHoldout, TimesInv
<1>2. /\ DOMAIN holdouts' = DOMAIN holdouts \cup {<<c, p>>}
      /\ \A k \in DOMAIN holdouts' :
            holdouts'[k] = IF k \in DOMAIN holdouts THEN holdouts[k] ELSE [actor |-> a, at |-> time]
  BY <1>1 DEF Accesses
<1>3. ASSUME NEW k \in DOMAIN holdouts' PROVE holdouts'[k].at \in Nat /\ holdouts'[k].at < time'
  <2>1. CASE k \in DOMAIN holdouts
    BY <1>1, <1>2, <2>1 DEF TimesInv
  <2>2. CASE k \notin DOMAIN holdouts
    BY <1>1, <1>2, <2>2
  <2> QED
    BY <2>1, <2>2
<1> QED
  BY <1>1, <1>3 DEF TimesInv

LEMMA EditStep ==
    ASSUME CampaignInv, EditReport
    PROVE  CampaignInv'
<1>1. report # None
  BY DEF EditReport
<1>2. PICK agenda \in Agendas :
        report = [body |-> [dialogue |-> agenda, reports |-> Campaign(agenda, Figures).reports,
                            verdicts |-> report.body.verdicts],
                  hash |-> Campaign(agenda, Figures)]
  BY <1>1 DEF CampaignInv
<1>3. PICK h : report' = [report EXCEPT !.body.verdicts[h] = "REJECTED"]
  BY DEF EditReport
<1> DEFINE R == Campaign(agenda, Figures).reports
           H == Campaign(agenda, Figures)
           v == report.body.verdicts
<1>4. report' = [body |-> [dialogue |-> agenda, reports |-> R,
                           verdicts |-> [v EXCEPT ![h] = "REJECTED"]], hash |-> H]
  <2> HIDE DEF R, H, v
  <2> SUFFICES ASSUME report = [body |-> [dialogue |-> agenda, reports |-> R, verdicts |-> v],
                                hash |-> H]
               PROVE  report' = [body |-> [dialogue |-> agenda, reports |-> R,
                                          verdicts |-> [v EXCEPT ![h] = "REJECTED"]], hash |-> H]
    BY <1>2 DEF R, H, v
  <2> QED
    BY <1>3
<1> HIDE DEF R, H, v
<1>5. report' = [body |-> [dialogue |-> agenda, reports |-> R, verdicts |-> report'.body.verdicts],
                 hash |-> H]
  BY <1>4
<1> QED
  BY <1>5 DEF CampaignInv, R, H

LEMMA RecordsUnchanged ==
    ASSUME RecordsInv, UNCHANGED <<trials, holdouts, time, scheme, report>>
    PROVE  RecordsInv'
BY DEF RecordsInv, LedgerInv, SpecsRecordedOnce, TimesInv, CampaignInv, Disjoint

LEMMA RecordStep ==
    ASSUME IInv, NEW g \in Campaigns, NEW c \in Candidates, NEW s \in Specs,
           NEW sharpe \in {m.sharpe : m \in Measurements},
           RecordTrial(g, c, s, sharpe)
    PROVE  IInv'
<1>1. LedgerInv'
  <2>1. [campaign |-> g, candidate |-> c, spec |-> s, sharpe |-> sharpe] \in Trial
    BY MeasurementAssumption DEF Trial, Measurement
  <2> QED
    BY <2>1, RecordedKeepsLedger DEF IInv, RecordsInv, RecordTrial
<1>2. /\ UNCHANGED <<task, performed, result>>
      /\ UNCHANGED <<holdouts, time, scheme, report>>
  BY DEF RecordTrial
<1>3. TimesInv' /\ CampaignInv' /\ Disjoint(scheme)'
  BY <1>2 DEF IInv, RecordsInv, TimesInv, CampaignInv, Disjoint
<1> QED
  BY <1>1, <1>2, <1>3, ValidationUnchanged DEF IInv, RecordsInv

LEMMA InitInv == Init => IInv
<1> SUFFICES ASSUME Init PROVE IInv
  OBVIOUS
<1>1. performed = <<>> /\ task = None /\ result = None /\ scheme = {} /\ report = None
  BY DEF Init
<1>2. time = 0 /\ holdouts = <<>> /\ trials = <<>>
  BY DEF Init
<1>3. LedgerInv /\ TimesInv
  BY <1>2 DEF LedgerInv, SpecsRecordedOnce, TimesInv
<1> QED
  BY <1>1, <1>3 DEF IInv, ValidationInv, RecordsInv, RunningInv, ResultInv, CampaignInv, Disjoint

LEMMA InductiveStep == IInv /\ [Next]_vars => IInv'
<1> SUFFICES ASSUME IInv, [Next]_vars PROVE IInv'
  OBVIOUS
<1>1. ASSUME UNCHANGED <<trials, holdouts, time, scheme, report>>
      PROVE  RecordsInv'
  BY <1>1, RecordsUnchanged DEF IInv
<1>2. ASSUME UNCHANGED <<task, performed, result>> PROVE ValidationInv'
  BY <1>2, ValidationUnchanged DEF IInv
<1>3. ASSUME NEW c \in Candidates, NEW sweeps \in BOOLEAN, BeginValidation(c, sweeps) PROVE IInv'
  <2>1. UNCHANGED <<trials, holdouts, time, scheme, report>>
    BY <1>3 DEF BeginValidation, ledgers
  <2> QED
    BY <1>1, <1>3, <2>1, BeginStep DEF IInv
<1>4. ASSUME RunBacktest PROVE IInv'
  <2>1. UNCHANGED <<trials, holdouts, time, scheme, report>>
    BY <1>4 DEF RunBacktest, ledgers
  <2> QED
    BY <1>1, <1>4, <2>1, RunStep DEF IInv
<1>5. ASSUME NEW detected \in SUBSET Gates, FinishValidation(detected) PROVE IInv'
  <2>1. UNCHANGED <<trials, holdouts, time, scheme, report>>
    BY <1>5 DEF FinishValidation, ledgers
  <2> QED
    BY <1>1, <1>5, <2>1, FinishStep DEF IInv
<1>6. ASSUME NEW g \in Campaigns, NEW c \in Candidates, NEW s \in Specs,
             NEW sharpe \in {m.sharpe : m \in Measurements},
             RecordTrial(g, c, s, sharpe)
      PROVE  IInv'
  BY <1>6, RecordStep
<1>7. ASSUME NEW c \in Candidates, NEW p \in Holdouts, NEW a \in Actors, OpenHoldout(c, p, a)
      PROVE  IInv'
  <2>1. UNCHANGED <<task, performed, result>> /\ UNCHANGED <<trials, scheme, report>>
    BY <1>7 DEF OpenHoldout
  <2>2. TimesInv'
    BY <1>7, OpenStep DEF IInv, RecordsInv
  <2>3. LedgerInv' /\ CampaignInv' /\ Disjoint(scheme)'
    BY <2>1 DEF IInv, RecordsInv, LedgerInv, SpecsRecordedOnce, CampaignInv, Disjoint
  <2> QED
    BY <1>2, <2>1, <2>2, <2>3 DEF IInv, RecordsInv
<1>8. ASSUME NEW s \in Schemes, DefineScheme(s) PROVE IInv'
  <2>1. /\ UNCHANGED <<task, performed, result>> /\ UNCHANGED <<trials, holdouts, time, report>>
        /\ ~Overlaps(s) /\ scheme' = s
    BY <1>8 DEF DefineScheme, ledgers
  <2>2. Disjoint(scheme)'
    BY <2>1, NeighboursAreEnough DEF Disjoint
  <2>3. LedgerInv' /\ CampaignInv' /\ TimesInv'
    BY <2>1 DEF IInv, RecordsInv, LedgerInv, SpecsRecordedOnce, CampaignInv, TimesInv
  <2> QED
    BY <1>2, <2>1, <2>2, <2>3 DEF IInv, RecordsInv
<1>9. ASSUME NEW agenda \in Agendas, RunCampaign(agenda) PROVE IInv'
  <2>1. /\ UNCHANGED <<task, performed, result>> /\ UNCHANGED <<trials, holdouts, time, scheme>>
        /\ report' = [body |-> Campaign(agenda, Figures), hash |-> Campaign(agenda, Figures)]
    BY <1>9 DEF RunCampaign, ledgers, Hashed, Figures
  <2>2. Campaign(agenda, Figures)
          = [dialogue |-> agenda, reports |-> Campaign(agenda, Figures).reports,
             verdicts |-> report'.body.verdicts]
    BY <2>1 DEF Campaign
  <2>3. CampaignInv'
    BY <2>1, <2>2 DEF CampaignInv
  <2>4. LedgerInv' /\ TimesInv' /\ Disjoint(scheme)'
    BY <2>1 DEF IInv, RecordsInv, LedgerInv, SpecsRecordedOnce, TimesInv, Disjoint
  <2> QED
    BY <1>2, <2>1, <2>3, <2>4 DEF IInv, RecordsInv
<1>10. ASSUME EditReport PROVE IInv'
  <2>1. UNCHANGED <<task, performed, result>> /\ UNCHANGED <<trials, holdouts, time, scheme>>
    BY <1>10 DEF EditReport, ledgers
  <2>2. LedgerInv' /\ TimesInv' /\ Disjoint(scheme)'
    BY <2>1 DEF IInv, RecordsInv, LedgerInv, SpecsRecordedOnce, TimesInv, Disjoint
  <2> QED
    BY <1>2, <1>10, <2>1, <2>2, EditStep DEF IInv, RecordsInv
<1>11. ASSUME Restart PROVE IInv'
  <2>1. /\ task' = None /\ performed' = <<>> /\ result' = None
        /\ trials' = <<>> /\ holdouts' = <<>> /\ UNCHANGED <<time, scheme, report>>
    BY <1>11 DEF Restart
  <2>2. ValidationInv'
    BY <2>1 DEF ValidationInv, RunningInv, ResultInv
  <2>3. LedgerInv' /\ TimesInv'
    BY <2>1 DEF IInv, RecordsInv, LedgerInv, SpecsRecordedOnce, TimesInv
  <2>4. CampaignInv' /\ Disjoint(scheme)'
    BY <2>1 DEF IInv, RecordsInv, CampaignInv, Disjoint
  <2> QED
    BY <2>2, <2>3, <2>4 DEF IInv, RecordsInv
<1>12. CASE UNCHANGED vars
  BY <1>1, <1>2, <1>12 DEF vars, ledgers, IInv
<1> QED
  BY <1>3, <1>4, <1>5, <1>6, <1>7, <1>8, <1>9, <1>10, <1>11, <1>12 DEF Next

(* Whatever validations, records, accesses, campaigns and edits follow each*)
(* other, before and after restarts, IInv holds.                           *)
THEOREM Invariance == Spec => []IInv
BY InitInv, InductiveStep, PTL DEF Spec

-----------------------------------------------------------------------------
(* The place of a verdict in the order from worst to best.                 *)
Rank(v) == CHOOSE k \in DOMAIN Verdicts : Verdicts[k] = v

LEMMA RankOfVerdicts ==
    Rank("REJECTED") = 1 /\ Rank("RESEARCH_ONLY") = 2 /\ Rank("PAPER_CANDIDATE") = 3
<1>1. /\ DOMAIN Verdicts = 1 .. 3
      /\ Verdicts[1] = "REJECTED" /\ Verdicts[2] = "RESEARCH_ONLY"
      /\ Verdicts[3] = "PAPER_CANDIDATE"
  BY DEF Verdicts
<1>2. \A k \in 1 .. 3 : k = 1 \/ k = 2 \/ k = 3
  OBVIOUS
<1> QED
  BY <1>1, <1>2 DEF Rank

(* Whatever else is found against a candidate, a failed gate, a cost that  *)
(* eats the return, a concentrated book or a doubtful number of trials,    *)
(* never betters its verdict, and nothing lifts it once a gate has failed. *)
(* (verdicts.py: determine_verdict)                                        *)
THEOREM EvidenceNeverHelps ==
    ASSUME NEW failed \in SUBSET Gates, NEW worse \in SUBSET Gates, failed \subseteq worse,
           NEW f \in BOOLEAN, NEW c \in BOOLEAN, NEW w \in BOOLEAN,
           NEW f2 \in BOOLEAN, NEW c2 \in BOOLEAN, NEW w2 \in BOOLEAN,
           f => f2, c => c2, w => w2
    PROVE  Rank(Verdict(worse, f2, c2, w2)) <= Rank(Verdict(failed, f, c, w))
<1>1. CASE worse # {}
  BY <1>1, RankOfVerdicts DEF Verdict
<1>2. CASE worse = {} /\ (f2 \/ c2 \/ w2)
  BY <1>2, RankOfVerdicts DEF Verdict
<1>3. CASE worse = {} /\ ~(f2 \/ c2 \/ w2)
  BY <1>3, RankOfVerdicts DEF Verdict
<1> QED
  BY <1>1, <1>2, <1>3

-----------------------------------------------------------------------------
(* What a result says.                                                     *)

LEMMA ReportAgrees ==
    ASSUME CampaignInv, Verifies(report)
    PROVE  \A k \in DOMAIN report.body.dialogue :
              report.body.reports[k].passed
                  = (report.body.verdicts[report.body.dialogue[k]] = "VALIDATED")
<1>1. report # None /\ report.hash = report.body
  BY DEF Verifies
<1>2. PICK agenda \in Agendas :
        report = [body |-> [dialogue |-> agenda, reports |-> Campaign(agenda, Figures).reports,
                            verdicts |-> report.body.verdicts],
                  hash |-> Campaign(agenda, Figures)]
  BY <1>1 DEF CampaignInv
<1>3. report.body = Campaign(agenda, Figures)
  <2>1. report.hash = Campaign(agenda, Figures)
    BY <1>2
  <2> QED
    BY <1>1, <2>1
<1>4. Figures.passed \in BOOLEAN
  BY DEF Figures, Falsification
<1>5. \A k \in DOMAIN agenda : agenda[k] \in ToSet(agenda)
  BY DEF ToSet
<1> QED
  BY <1>3, <1>4, <1>5 DEF Campaign

LEMMA VerdictOfOutcome ==
    ASSUME NEW c, NEW sweeps \in BOOLEAN, performed = Variants(sweeps),
           NEW measured \in [DOMAIN performed -> Measurements], NEW detected \in SUBSET Gates,
           result = Outcome(c, sweeps, measured, detected)
    PROVE  LET m == result.baseline
               evidence == result.evidence
           IN  /\ result.trials = Len(performed)
               /\ IsInjective(performed)
               /\ DOMAIN evidence.surface = {performed[k].size : k \in DOMAIN performed}
               /\ evidence.topology = "plateau" => \A j, k \in DOMAIN evidence.surface :
                    evidence.surface[j] - evidence.surface[k] < 35
               /\ evidence.topology = "spike" => \E j, k \in DOMAIN evidence.surface :
                    evidence.surface[j] - evidence.surface[k] > 75
               /\ result.sweeps =>
                    {performed[k].size : k \in DOMAIN performed} = TopKGrid \cup {TargetSize}
               /\ NetCagr(evidence.gross, m.turnover, SlippageBps) = m.cagr
               /\ NetCagr(evidence.gross, m.turnover, 10) < 0 => evidence.fragile
               /\ (result.failed # {}) = (result.verdict = "REJECTED")
<1> DEFINE m == measured[1]
           evidence == Robustness(measured)
           sizes == {performed[k].size : k \in DOMAIN performed}
           n == Len(performed)
<1>1. /\ performed \in Seq(Variant) /\ n \in Nat /\ n >= 1 /\ DOMAIN performed = 1 .. n
      /\ IsInjective(performed)
      /\ sweeps => sizes = TopKGrid \cup {TargetSize}
  <2>1. /\ performed \in Seq(Variant) /\ n >= 1 /\ IsInjective(performed)
        /\ sweeps => {performed[k].size : k \in 1 .. n} = TopKGrid \cup {TargetSize}
    <3> DEFINE tests == Variants(sweeps)
    <3>1. /\ tests \in Seq(Variant) /\ Len(tests) >= 1 /\ IsInjective(tests)
          /\ sweeps => {tests[k].size : k \in 1 .. Len(tests)} = TopKGrid \cup {TargetSize}
      BY VariantsFacts
    <3>2. tests = performed
      OBVIOUS
    <3> HIDE DEF tests
    <3> QED
      BY <3>1, <3>2, Zenon
  <2>2. n \in Nat /\ DOMAIN performed = 1 .. n
    BY <2>1, LenProperties
  <2> QED
    BY <2>1, <2>2
<1>2. /\ result.baseline = m /\ result.evidence = evidence /\ result.sweeps = sweeps
      /\ result.failed = detected /\ result.trials = Len(TrialSharpes(measured))
      /\ result.verdict = Verdict(detected, evidence.fragile, evidence.concentrated, result.warned)
  BY DEF Outcome
<1>3. result.trials = n
  BY <1>1, <1>2, TrialSharpesLength
<1>4. /\ evidence.gross = GrossCagr(m) /\ evidence.surface = Surface(measured)
      /\ evidence.topology = Topology(Surface(measured))
      /\ evidence.fragile = IsCostFragile(GrossCagr(m), m.turnover)
  BY DEF Robustness
<1>5. Surface(measured) \in [sizes -> Int] /\ IsFiniteSet(sizes) /\ sizes # {}
  BY SurfaceOfAllSizes
<1>6. m.cagr \in Int /\ m.turnover \in Nat /\ SlippageBps \in Nat
  BY <1>1, MeasurementAssumption, TrialAssumption DEF Measurement
<1>7. m.turnover * SlippageBps * 2 \in Int
  BY <1>6
<1>8. NetCagr(GrossCagr(m), m.turnover, SlippageBps) = m.cagr
  BY <1>6, <1>7 DEF NetCagr, GrossCagr
<1>9. NetCagr(GrossCagr(m), m.turnover, 10) < 0 => IsCostFragile(GrossCagr(m), m.turnover)
  <2>1. GrossCagr(m) \in Int
    BY <1>6, <1>7 DEF GrossCagr
  <2> QED
    BY <1>6, <2>1 DEF NetCagr, IsCostFragile
<1>10. (detected # {}) = (Verdict(detected, evidence.fragile, evidence.concentrated, result.warned)
                            = "REJECTED")
  BY DEF Verdict
<1>11. /\ Topology(Surface(measured)) = "plateau" =>
            \A a, b \in sizes : Surface(measured)[a] - Surface(measured)[b] < 35
       /\ Topology(Surface(measured)) = "spike" =>
            \E a, b \in sizes : Surface(measured)[a] - Surface(measured)[b] > 75
  <2> HIDE DEF sizes
  <2> QED
    BY <1>5, TopologyMeansSpread
<1>12. DOMAIN Surface(measured) = sizes
  BY <1>5
<1> HIDE DEF evidence, m
<1>13. /\ result.evidence.surface = Surface(measured)
       /\ result.evidence.topology = Topology(Surface(measured))
       /\ DOMAIN result.evidence.surface = sizes
  BY <1>2, <1>4, <1>12
<1>14. /\ result.evidence.topology = "plateau" => \A j, k \in DOMAIN result.evidence.surface :
            result.evidence.surface[j] - result.evidence.surface[k] < 35
       /\ result.evidence.topology = "spike" => \E j, k \in DOMAIN result.evidence.surface :
            result.evidence.surface[j] - result.evidence.surface[k] > 75
  <2> HIDE DEF sizes
  <2> QED
    BY <1>11, <1>13
<1>15. result.sweeps => sizes = TopKGrid \cup {TargetSize}
  BY <1>1, <1>2
<1>16. /\ NetCagr(result.evidence.gross, result.baseline.turnover, SlippageBps)
             = result.baseline.cagr
       /\ NetCagr(result.evidence.gross, result.baseline.turnover, 10) < 0
             => result.evidence.fragile
       /\ (result.failed # {}) = (result.verdict = "REJECTED")
  BY <1>2, <1>4, <1>8, <1>9, <1>10
<1>17. result.trials = Len(performed) /\ IsInjective(performed)
  BY <1>1, <1>3
<1> QED
  BY <1>13, <1>14, <1>15, <1>16, <1>17

LEMMA RankOfOutcome ==
    ASSUME NEW c, NEW sweeps, NEW measured, NEW detected \in SUBSET Gates,
           result = Outcome(c, sweeps, measured, detected),
           NEW failed \in SUBSET Gates, NEW f \in BOOLEAN, NEW d \in BOOLEAN, NEW w \in BOOLEAN,
           result.failed \subseteq failed, result.evidence.fragile => f,
           result.evidence.concentrated => d, result.warned => w
    PROVE  Rank(Verdict(failed, f, d, w)) <= Rank(result.verdict)
<1>1. /\ result.failed = detected /\ result.evidence = Robustness(measured)
      /\ result.verdict = Verdict(detected, result.evidence.fragile, result.evidence.concentrated,
                                  result.warned)
  BY DEF Outcome
<1>2. result.evidence.fragile \in BOOLEAN /\ result.evidence.concentrated \in BOOLEAN
  <2>1. /\ result.evidence.fragile = IsCostFragile(GrossCagr(measured[1]), measured[1].turnover)
        /\ result.evidence.concentrated = IsConcentrated(measured[1])
    BY <1>1 DEF Robustness
  <2>2. IsCostFragile(GrossCagr(measured[1]), measured[1].turnover) \in BOOLEAN
    BY DEF IsCostFragile
  <2>3. IsConcentrated(measured[1]) \in BOOLEAN
    <3> DEFINE weights == measured[1].weights
               squares == MapThenSumSet(LAMBDA k : weights[k] * weights[k], DOMAIN weights)
    <3>1. IsConcentrated(measured[1])
            = (/\ \E k \in DOMAIN weights : weights[k] > 0
               /\ squares > 1500 \/ measured[1].topSector > 40)
      BY DEF IsConcentrated
    <3> HIDE DEF squares
    <3> QED
      BY <3>1
  <2> QED
    BY <2>1, <2>2, <2>3
<1>3. result.warned \in BOOLEAN
  BY DEF Outcome, IsWarned
<1> QED
  BY <1>1, <1>2, <1>3, EvidenceNeverHelps

LEMMA VerdictFollows == IInv => VerdictRestsOnEvidence
<1> SUFFICES ASSUME IInv PROVE VerdictRestsOnEvidence
  OBVIOUS
<1>1. Verifies(report) => \A k \in DOMAIN report.body.dialogue :
        report.body.reports[k].passed
            = (report.body.verdicts[report.body.dialogue[k]] = "VALIDATED")
  BY ReportAgrees DEF IInv, RecordsInv
<1>2. CASE result = None
  BY <1>1, <1>2 DEF VerdictRestsOnEvidence
<1>3. CASE result # None
  <2>1. PICK c \in Candidates, sweeps \in BOOLEAN,
             measured \in [DOMAIN performed -> Measurements], detected \in SUBSET Gates :
                performed = Variants(sweeps) /\ result = Outcome(c, sweeps, measured, detected)
    BY <1>3 DEF IInv, ValidationInv, ResultInv
  <2>2. \A failed \in SUBSET Gates, f, k, w \in BOOLEAN :
          (/\ result.failed \subseteq failed /\ (result.evidence.fragile => f)
           /\ (result.evidence.concentrated => k) /\ (result.warned => w)) =>
              Rank(Verdict(failed, f, k, w)) <= Rank(result.verdict)
    BY <2>1, RankOfOutcome
  <2> QED
    BY <1>1, <2>1, <2>2, VerdictOfOutcome DEF VerdictRestsOnEvidence, Rank
<1> QED
  BY <1>2, <1>3

(* A verdict deflates by exactly the backtests that were run, each once;   *)
(* its plateau is flat and its spike is not; the cost sweep meets the      *)
(* realized return; nothing found against a candidate betters it; and a    *)
(* report that verifies has validated what was falsified without success:  *)
(* for any grid, sleeves, measurements, thresholds of trials and agendas.  *)
(* (application/validation.py: run_validation; research/report.py)         *)
THEOREM VerdictSound == Spec => []VerdictRestsOnEvidence
BY Invariance, VerdictFollows, PTL

LEMMA TypesFollow == IInv => TypeOK
<1> SUFFICES ASSUME IInv PROVE TypeOK
  OBVIOUS
<1>1. task # None => /\ task.candidate \in Candidates /\ task.sweeps \in BOOLEAN
                     /\ task.measured \in Seq(Measurements)
                     /\ Len(task.measured) = Len(performed)
  BY DEF IInv, ValidationInv, RunningInv, ValidationTask
<1>2. ASSUME result # None
      PROVE  result.verdict \in ToSet(Verdicts) /\ result.failed \subseteq Gates
  <2>1. PICK c \in Candidates, sweeps \in BOOLEAN,
             measured \in [DOMAIN performed -> Measurements], detected \in SUBSET Gates :
                result = Outcome(c, sweeps, measured, detected)
    BY <1>2 DEF IInv, ValidationInv, ResultInv
  <2>2. result.failed = detected
    BY <2>1 DEF Outcome
  <2>3. \E fragile, concentrated, warned :
          result.verdict = Verdict(detected, fragile, concentrated, warned)
    BY <2>1 DEF Outcome
  <2>4. result.verdict \in {"REJECTED", "RESEARCH_ONLY", "PAPER_CANDIDATE"}
    BY <2>3 DEF Verdict
  <2>5. {"REJECTED", "RESEARCH_ONLY", "PAPER_CANDIDATE"} \subseteq ToSet(Verdicts)
    <3>1. /\ DOMAIN Verdicts = 1 .. 3 /\ Verdicts[1] = "REJECTED"
          /\ Verdicts[2] = "RESEARCH_ONLY" /\ Verdicts[3] = "PAPER_CANDIDATE"
      BY DEF Verdicts
    <3> QED
      BY <3>1 DEF ToSet
  <2> QED
    BY <2>2, <2>4, <2>5
<1>3. \A k \in DOMAIN trials : trials[k].campaign \in Campaigns
  <2>1. trials \in Seq(Trial) /\ DOMAIN trials = 1 .. Len(trials)
    BY LenProperties DEF IInv, RecordsInv, LedgerInv
  <2>2. \A k \in 1 .. Len(trials) : trials[k] \in Trial
    BY <2>1
  <2> QED
    BY <2>1, <2>2 DEF Trial
<1>4. \A k \in DOMAIN holdouts : holdouts[k].at < time
  BY DEF IInv, RecordsInv, TimesInv
<1>5. ASSUME report # None PROVE Len(report.body.reports) = Len(report.body.dialogue)
  <2>1. PICK agenda \in Agendas :
          report = [body |-> [dialogue |-> agenda, reports |-> Campaign(agenda, Figures).reports,
                              verdicts |-> report.body.verdicts],
                    hash |-> Campaign(agenda, Figures)]
    BY <1>5 DEF IInv, RecordsInv, CampaignInv
  <2>2. report.body.dialogue = agenda /\ report.body.reports = [k \in DOMAIN agenda |-> Figures]
    BY <2>1 DEF Campaign
  <2>3. DOMAIN agenda = 1 .. Len(agenda) /\ Len(agenda) \in Nat
    BY AgendaAssumption, LenProperties
  <2>4. [k \in 1 .. Len(agenda) |-> Figures] \in Seq({Figures})
    BY <2>3
  <2>5. Len([k \in 1 .. Len(agenda) |-> Figures]) = Len(agenda)
    BY <2>3
  <2> QED
    BY <2>2, <2>3, <2>5
<1>6. \A p, q \in scheme : p # q => (p.end < q.start \/ q.end < p.start)
  BY DEF IInv, RecordsInv, Disjoint
<1> QED
  BY <1>1, <1>2, <1>3, <1>4, <1>5, <1>6 DEF TypeOK

(* Types of validations, ledgers and reports, and disjoint partitions,     *)
(* for any candidates, schemes and agendas.                                *)
THEOREM TypeCorrect == Spec => []TypeOK
BY Invariance, TypesFollow, PTL

-----------------------------------------------------------------------------
(* Sums and products over finite sets.                                     *)

(* The recursive functions behind sums and products over finite sets: one  *)
(* element taken with what the rest comes to.                              *)
Some(T) == CHOOSE x \in T : TRUE
FoldStep(base, step, g, T) ==
    IF T = {} THEN base ELSE step[<<Some(T), g[T \ {Some(T)}]>>]
IsFold(base, step, S, g) == g = [T \in SUBSET S |-> FoldStep(base, step, g, T)]

LEMMA SomeIsIn == ASSUME NEW T, T # {} PROVE Some(T) \in T
BY DEF Some

LEMMA FoldsExist ==
    ASSUME NEW S, IsFiniteSet(S)
    PROVE  \A base, step : \E g : IsFold(base, step, S, g)
<1> TAKE base, step
<1> DEFINE Upto(n, g) ==
               \A T \in SUBSET S : Cardinality(T) < n => g[T] = FoldStep(base, step, g, T)
           Has(n) == \E g : g = [T \in SUBSET S |-> g[T]] /\ Upto(n, g)
           G == {n \in Nat : Has(n)}
<1>1. \A T \in SUBSET S : Cardinality(T) \in Nat
  BY FS_Subset, FS_CardinalityType
<1>2. ASSUME NEW n \in Nat, Has(n) PROVE Has(n + 1)
  <2>1. PICK g : g = [T \in SUBSET S |-> g[T]] /\ Upto(n, g)
    BY <1>2
  <2> DEFINE h == [T \in SUBSET S |-> IF Cardinality(T) = n THEN FoldStep(base, step, g, T)
                                     ELSE g[T]]
  <2>2. ASSUME NEW T \in SUBSET S, Cardinality(T) < n + 1 PROVE h[T] = FoldStep(base, step, h, T)
    <3>1. h[T] = FoldStep(base, step, g, T)
      <4>1. CASE Cardinality(T) = n
        BY <4>1
      <4>2. CASE Cardinality(T) < n
        <5>1. g[T] = FoldStep(base, step, g, T)
          BY <2>1, <4>2
        <5>2. h[T] = g[T]
          BY <1>1, <4>2
        <5> QED
          BY <5>1, <5>2
      <4> QED
        BY <1>1, <2>2, <4>1, <4>2
    <3>2. CASE T = {}
      BY <3>1, <3>2 DEF FoldStep
    <3>3. CASE T # {}
      <4> DEFINE U == T \ {Some(T)}
      <4>1. Some(T) \in T /\ IsFiniteSet(T)
        BY <3>3, SomeIsIn, FS_Subset
      <4>2. Cardinality(U) = Cardinality(T) - 1 /\ U \in SUBSET S
        BY <4>1, FS_RemoveElement
      <4>3. h[U] = g[U]
        BY <1>1, <2>2, <4>2
      <4> QED
        BY <3>1, <3>3, <4>3 DEF FoldStep
    <3> QED
      BY <3>2, <3>3
  <2>3. h = [T \in SUBSET S |-> h[T]]
    OBVIOUS
  <2> HIDE DEF h
  <2> QED
    BY <2>2, <2>3
<1>3. Has(0)
  <2> DEFINE z == [T \in SUBSET S |-> base]
  <2>1. z = [T \in SUBSET S |-> z[T]]
    OBVIOUS
  <2>2. Upto(0, z)
    BY <1>1
  <2> HIDE DEF z, Upto
  <2> QED
    BY <2>1, <2>2
<1>4. \A n \in Nat : n \in G
  <2>1. 0 \in G /\ \A n \in Nat : n \in G => n + 1 \in G
    <3> HIDE DEF Has
    <3> QED
      BY <1>2, <1>3
  <2> HIDE DEF G
  <2> QED
    BY <2>1, BySteps
<1>5. Cardinality(S) + 1 \in Nat
  BY FS_CardinalityType
<1>6. PICK g : g = [T \in SUBSET S |-> g[T]] /\ Upto(Cardinality(S) + 1, g)
  <2> HIDE DEF Upto
  <2> QED
    BY <1>4, <1>5
<1>7. ASSUME NEW T \in SUBSET S PROVE g[T] = FoldStep(base, step, g, T)
  <2>1. IsFiniteSet(T) /\ Cardinality(T) <= Cardinality(S)
    BY FS_Subset
  <2>2. Cardinality(T) < Cardinality(S) + 1
    BY <2>1, FS_CardinalityType
  <2> QED
    BY <1>6, <2>2
<1> QED
  BY <1>6, <1>7 DEF IsFold

(* The function behind a sum.                                              *)
SumStep(f, g, T) == IF T = {} THEN 0 ELSE f[Some(T)] + g[T \ {Some(T)}]
Sums(f, S) == CHOOSE g : g = [T \in SUBSET S |-> SumStep(f, g, T)]
IsSums(f, S, g) == g = [T \in SUBSET S |-> SumStep(f, g, T)]

LEMMA SumsAreInts ==
    ASSUME NEW S, IsFiniteSet(S), NEW f, \A x \in S : f[x] \in Int, NEW g, IsSums(f, S, g)
    PROVE  \A T \in SUBSET S : g[T] = SumStep(f, g, T) /\ g[T] \in Int
<1> DEFINE G == {T \in SUBSET S : g[T] \in Int}
<1>1. \A T \in SUBSET S : g[T] = SumStep(f, g, T)
  BY DEF IsSums
<1>2. ASSUME NEW T \in SUBSET S, \A x \in T : T \ {x} \in G PROVE T \in G
  <2>1. CASE T = {}
    <3>1. g[T] = 0
      BY <1>1, <2>1 DEF SumStep
    <3> QED
      BY <3>1
  <2>2. CASE T # {}
    <3>1. Some(T) \in T /\ g[T \ {Some(T)}] \in Int
      BY <1>2, <2>2, SomeIsIn
    <3>2. g[T] = f[Some(T)] + g[T \ {Some(T)}]
      BY <1>1, <2>2 DEF SumStep
    <3> QED
      BY <3>1, <3>2
  <2> QED
    BY <2>1, <2>2
<1>3. \A T \in SUBSET S : T \in G
  <2> HIDE DEF G
  <2> QED
    BY <1>2, BySubsets
<1> QED
  BY <1>1, <1>3

LEMMA SumsExist ==
    ASSUME NEW S, IsFiniteSet(S), NEW f, \A x \in S : f[x] \in Int
    PROVE  \E g : IsSums(f, S, g)
<1> DEFINE step == [p \in S \X Int |-> f[p[1]] + p[2]]
<1>1. PICK g : IsFold(0, step, S, g)
  <2> HIDE DEF step
  <2> QED
    BY FoldsExist
<1>2. \A T \in SUBSET S : g[T] = FoldStep(0, step, g, T)
  <2> HIDE DEF step
  <2> QED
    BY <1>1 DEF IsFold
<1>3. \A x \in S, n \in Int : step[<<x, n>>] = f[x] + n /\ f[x] + n \in Int
  OBVIOUS
<1> HIDE DEF step
<1> DEFINE G == {T \in SUBSET S : g[T] \in Int}
<1>4. ASSUME NEW T \in SUBSET S, T = {} \/ T \ {Some(T)} \in G
      PROVE  g[T] = SumStep(f, g, T) /\ g[T] \in Int
  <2>1. CASE T = {}
    <3>1. g[T] = 0 /\ SumStep(f, g, T) = 0
      BY <1>2, <2>1 DEF FoldStep, SumStep
    <3> QED
      BY <3>1
  <2>2. CASE T # {}
    <3>1. Some(T) \in S /\ g[T \ {Some(T)}] \in Int
      BY <1>4, <2>2, SomeIsIn
    <3>2. g[T] = step[<<Some(T), g[T \ {Some(T)}]>>]
      BY <1>2, <2>2 DEF FoldStep
    <3>3. SumStep(f, g, T) = f[Some(T)] + g[T \ {Some(T)}]
      BY <2>2 DEF SumStep
    <3> QED
      BY <1>3, <3>1, <3>2, <3>3
  <2> QED
    BY <2>1, <2>2
<1>5. \A T \in SUBSET S : T \in G
  <2>1. ASSUME NEW T \in SUBSET S, \A x \in T : T \ {x} \in G PROVE T \in G
    <3>1. g[T] \in Int
      <4> HIDE DEF G
      <4> QED
        BY <1>4, <2>1, SomeIsIn
    <3> QED
      BY <3>1
  <2> HIDE DEF G
  <2> QED
    BY <2>1, BySubsets
<1>6. \A T \in SUBSET S : g[T] = SumStep(f, g, T)
  <2> SUFFICES ASSUME NEW T \in SUBSET S PROVE g[T] = SumStep(f, g, T)
    OBVIOUS
  <2>1. T \ {Some(T)} \in G
    <3> HIDE DEF G
    <3> QED
      BY <1>5
  <2> HIDE DEF G
  <2> QED
    BY <1>4, <2>1
<1>7. g = [T \in SUBSET S |-> SumStep(f, g, T)]
  <2>1. g = [T \in SUBSET S |-> g[T]]
    BY <1>1 DEF IsFold
  <2> QED
    BY <1>6, <2>1
<1> QED
  BY <1>7 DEF IsSums

LEMMA TotalIsSums ==
    ASSUME NEW S, IsFiniteSet(S), NEW f, \A x \in S : f[x] \in Int
    PROVE  \E g : IsSums(f, S, g) /\ Total(f, S) = g[S]
<1>1. Total(f, S) = Sums(f, S)[S]
  BY DEF Total, MapThenSumSet, MapThenFoldSet, Sums, SumStep, Some
<1>2. IsSums(f, S, Sums(f, S))
  BY SumsExist DEF Sums, IsSums
<1> QED
  BY <1>1, <1>2

LEMMA SumsAgree ==
    ASSUME NEW S, IsFiniteSet(S), NEW f, NEW T \in SUBSET S,
           NEW g, IsSums(f, S, g), NEW h, IsSums(f, T, h)
    PROVE  h[T] = g[T]
<1> DEFINE G == {U \in SUBSET T : h[U] = g[U]}
<1>1. /\ \A U \in SUBSET S : g[U] = SumStep(f, g, U)
      /\ \A U \in SUBSET T : h[U] = SumStep(f, h, U)
  BY DEF IsSums
<1>2. ASSUME NEW U \in SUBSET T, \A x \in U : U \ {x} \in G PROVE U \in G
  <2>1. CASE U = {}
    BY <1>1, <2>1 DEF SumStep
  <2>2. CASE U # {}
    <3>1. h[U \ {Some(U)}] = g[U \ {Some(U)}]
      BY <1>2, <2>2, SomeIsIn
    <3> QED
      BY <1>1, <2>2, <3>1 DEF SumStep
  <2> QED
    BY <2>1, <2>2
<1>3. IsFiniteSet(T)
  BY FS_Subset
<1>4. \A U \in SUBSET T : U \in G
  <2> HIDE DEF G
  <2> QED
    BY <1>2, <1>3, BySubsets
<1> QED
  BY <1>4

(* A sum is an integer; it is that of the rest and any one element.        *)
LEMMA TotalFacts ==
    ASSUME NEW S, IsFiniteSet(S), NEW f, \A x \in S : f[x] \in Int
    PROVE  /\ Total(f, S) \in Int
           /\ S = {} => Total(f, S) = 0
           /\ \A x \in S : Total(f, S) = f[x] + Total(f, S \ {x})
<1>1. PICK g : IsSums(f, S, g) /\ Total(f, S) = g[S]
  BY TotalIsSums
<1>2. \A T \in SUBSET S : g[T] = SumStep(f, g, T) /\ g[T] \in Int
  BY <1>1, SumsAreInts
<1>3. \A T \in SUBSET S : Total(f, T) = g[T]
  <2> SUFFICES ASSUME NEW T \in SUBSET S PROVE Total(f, T) = g[T]
    OBVIOUS
  <2>1. PICK h : IsSums(f, T, h) /\ Total(f, T) = h[T]
    BY FS_Subset, TotalIsSums
  <2> QED
    BY <1>1, <2>1, SumsAgree
<1> DEFINE G == {T \in SUBSET S : \A x \in T : g[T] = f[x] + g[T \ {x}]}
<1>4. ASSUME NEW T \in SUBSET S, \A x \in T : T \ {x} \in G PROVE T \in G
  <2> SUFFICES ASSUME NEW x \in T PROVE g[T] = f[x] + g[T \ {x}]
    OBVIOUS
  <2> DEFINE y == Some(T)
  <2>1. y \in T /\ g[T] = f[y] + g[T \ {y}]
    BY <1>2, SomeIsIn DEF SumStep
  <2>2. CASE x = y
    BY <2>1, <2>2
  <2>3. CASE x # y
    <3>1. g[T \ {y}] = f[x] + g[(T \ {y}) \ {x}]
      BY <1>4, <2>1, <2>3
    <3>2. g[T \ {x}] = f[y] + g[(T \ {x}) \ {y}]
      BY <1>4, <2>1, <2>3
    <3>3. (T \ {x}) \ {y} = (T \ {y}) \ {x}
      OBVIOUS
    <3>4. /\ f[x] \in Int /\ f[y] \in Int
          /\ g[(T \ {x}) \ {y}] \in Int
      BY <1>2, <2>1
    <3> DEFINE r == g[(T \ {x}) \ {y}]
    <3> HIDE DEF y, G
    <3>5. g[T \ {y}] = f[x] + r
      BY <3>1, <3>3
    <3>6. r \in Int /\ g[T \ {x}] = f[y] + r
      BY <3>2, <3>4
    <3> HIDE DEF r
    <3>7. f[y] + (f[x] + r) = f[x] + (f[y] + r)
      BY <3>4, <3>6
    <3> QED
      BY <2>1, <3>5, <3>6, <3>7
  <2> QED
    BY <2>2, <2>3
<1>5. \A T \in SUBSET S : T \in G
  <2> HIDE DEF G
  <2> QED
    BY <1>4, BySubsets
<1>6. \A x \in S : g[S] = f[x] + g[S \ {x}]
  BY <1>5
<1>7. S = {} => g[S] = 0
  BY <1>2 DEF SumStep
<1> QED
  BY <1>2, <1>3, <1>6, <1>7

(* Two functions that agree have one sum.                                  *)
LEMMA TotalCongruence ==
    ASSUME NEW S, IsFiniteSet(S), NEW f, NEW g, \A x \in S : f[x] \in Int /\ f[x] = g[x]
    PROVE  Total(f, S) = Total(g, S)
<1> DEFINE G == {T \in SUBSET S : Total(f, T) = Total(g, T)}
<1>1. ASSUME NEW T \in SUBSET S, \A x \in T : T \ {x} \in G PROVE T \in G
  <2>1. /\ IsFiniteSet(T) /\ \A x \in T : f[x] \in Int
        /\ \A x \in T : g[x] \in Int
    BY FS_Subset
  <2>2. /\ T = {} => Total(f, T) = 0
        /\ \A x \in T : Total(f, T) = f[x] + Total(f, T \ {x})
    BY <2>1, TotalFacts
  <2>3. /\ T = {} => Total(g, T) = 0
        /\ \A x \in T : Total(g, T) = g[x] + Total(g, T \ {x})
    BY <2>1, TotalFacts
  <2>4. CASE T = {}
    BY <2>2, <2>3, <2>4
  <2>5. CASE T # {}
    <3>1. PICK x \in T : Total(f, T \ {x}) = Total(g, T \ {x})
      BY <1>1, <2>5
    <3> QED
      BY <2>2, <2>3, <3>1
  <2> QED
    BY <2>4, <2>5
<1>2. \A T \in SUBSET S : T \in G
  <2> HIDE DEF G
  <2> QED
    BY <1>1, BySubsets
<1> QED
  BY <1>2

(* What adds nothing may be left out.                                      *)
LEMMA TotalOfRest ==
    ASSUME NEW S, IsFiniteSet(S), NEW f, NEW U \in SUBSET S,
           \A x \in S : f[x] \in Int, \A x \in S \ U : f[x] = 0
    PROVE  Total(f, S) = Total(f, U)
<1> DEFINE G == {T \in SUBSET S : U \subseteq T => Total(f, T) = Total(f, U)}
<1>1. ASSUME NEW T \in SUBSET S, \A x \in T : T \ {x} \in G PROVE T \in G
  <2> SUFFICES ASSUME U \subseteq T PROVE Total(f, T) = Total(f, U)
    OBVIOUS
  <2>1. CASE U = T
    BY <2>1
  <2>2. CASE U # T
    <3>1. PICK x \in T : x \notin U
      BY <2>2
    <3>2. T \ {x} \in G /\ U \subseteq T \ {x}
      BY <1>1, <3>1
    <3>3. Total(f, T \ {x}) = Total(f, U)
      BY <3>2
    <3> HIDE DEF G
    <3>4. IsFiniteSet(T) /\ IsFiniteSet(T \ {x})
      BY FS_Subset
    <3>5. Total(f, T) = f[x] + Total(f, T \ {x}) /\ Total(f, T \ {x}) \in Int
      BY <3>4, TotalFacts
    <3>6. f[x] = 0
      BY <3>1
    <3> QED
      BY <3>3, <3>5, <3>6
  <2> QED
    BY <2>1, <2>2
<1>2. \A T \in SUBSET S : T \in G
  <2> HIDE DEF G
  <2> QED
    BY <1>1, BySubsets
<1> QED
  BY <1>2

(* A bound on a multiple of each is one on that of the sum.                *)
LEMMA TotalIsBounded ==
    ASSUME NEW S, IsFiniteSet(S), NEW f, \A x \in S : f[x] \in Int,
           NEW k \in Int, NEW b \in Int, \A x \in S : f[x] * k <= b
    PROVE  Total(f, S) * k <= Cardinality(S) * b
<1> DEFINE G == {T \in SUBSET S : Total(f, T) * k <= Cardinality(T) * b}
<1>1. ASSUME NEW T \in SUBSET S, \A x \in T : T \ {x} \in G PROVE T \in G
  <2>1. IsFiniteSet(T) /\ \A x \in T : f[x] \in Int
    BY FS_Subset
  <2>2. CASE T = {}
    <3>1. Total(f, T) = 0 /\ Cardinality(T) = 0
      BY <2>1, <2>2, TotalFacts, FS_EmptySet
    <3>2. 0 * k <= 0 * b
      OBVIOUS
    <3> QED
      BY <3>1, <3>2
  <2>3. CASE T # {}
    <3>1. PICK x \in T : Total(f, T \ {x}) * k <= Cardinality(T \ {x}) * b
      BY <1>1, <2>3
    <3>2. Total(f, T) = f[x] + Total(f, T \ {x})
      BY <2>1, TotalFacts
    <3>3. IsFiniteSet(T \ {x}) /\ Cardinality(T \ {x}) = Cardinality(T) - 1
      BY <2>1, FS_RemoveElement
    <3>4. Total(f, T \ {x}) \in Int
      BY <3>3, TotalFacts
    <3>5. Cardinality(T) \in Nat
      BY <2>1, FS_CardinalityType
    <3> DEFINE rest == Total(f, T \ {x})
               n == Cardinality(T)
    <3> HIDE DEF rest, n, G
    <3>6. (f[x] + rest) * k = f[x] * k + rest * k
      BY <3>4 DEF rest
    <3>7. n * b = (n - 1) * b + b
      BY <3>5 DEF n
    <3>8. f[x] * k <= b /\ f[x] * k \in Int /\ rest * k \in Int /\ (n - 1) * b \in Int
      BY <3>4, <3>5 DEF rest, n
    <3>9. rest * k <= (n - 1) * b
      BY <3>1, <3>3 DEF rest, n
    <3>10. (f[x] + rest) * k <= n * b
      BY <3>6, <3>7, <3>8, <3>9
    <3> QED
      BY <3>2, <3>10 DEF rest, n, G
  <2> QED
    BY <2>2, <2>3
<1>2. \A T \in SUBSET S : T \in G
  <2> HIDE DEF G
  <2> QED
    BY <1>1, BySubsets
<1>3. S \in G
  BY <1>2
<1> QED
  BY <1>3

(* Of natural numbers none is above the sum.                               *)
LEMMA TotalOfNats ==
    ASSUME NEW S, IsFiniteSet(S), NEW f, \A x \in S : f[x] \in Nat
    PROVE  Total(f, S) \in Nat /\ \A x \in S : f[x] <= Total(f, S)
<1> DEFINE G == {T \in SUBSET S : Total(f, T) \in Nat}
<1>1. ASSUME NEW T \in SUBSET S, \A x \in T : T \ {x} \in G PROVE T \in G
  <2>1. IsFiniteSet(T) /\ \A x \in T : f[x] \in Int
    BY FS_Subset
  <2>2. /\ T = {} => Total(f, T) = 0
        /\ \A x \in T : Total(f, T) = f[x] + Total(f, T \ {x})
    BY <2>1, TotalFacts
  <2>3. CASE T = {}
    BY <2>2, <2>3
  <2>4. CASE T # {}
    <3>1. PICK x \in T : Total(f, T \ {x}) \in Nat
      BY <1>1, <2>4
    <3> QED
      BY <2>2, <3>1
  <2> QED
    BY <2>3, <2>4
<1>2. \A T \in SUBSET S : T \in G
  <2> HIDE DEF G
  <2> QED
    BY <1>1, BySubsets
<1>3. ASSUME NEW x \in S PROVE f[x] <= Total(f, S)
  <2>1. Total(f, S) = f[x] + Total(f, S \ {x})
    BY TotalFacts
  <2>2. Total(f, S \ {x}) \in Nat
    BY <1>2
  <2> QED
    BY <2>1, <2>2
<1> QED
  BY <1>2, <1>3

(* The product that a fold over a function computes.                       *)
ProductStep(v, g, T) == IF T = {} THEN 1 ELSE v[Some(T)] * g[T \ {Some(T)}]
Products(v, S) == CHOOSE g : g = [T \in SUBSET S |-> ProductStep(v, g, T)]
IsProducts(v, S, g) == g = [T \in SUBSET S |-> ProductStep(v, g, T)]

LEMMA ProductsExist ==
    ASSUME NEW S, IsFiniteSet(S), NEW v, \A x \in S : v[x] \in Nat \ {0}
    PROVE  \E g : IsProducts(v, S, g)
<1> DEFINE step == [p \in S \X Int |-> v[p[1]] * p[2]]
<1>1. PICK g : IsFold(1, step, S, g)
  <2> HIDE DEF step
  <2> QED
    BY FoldsExist
<1>2. \A T \in SUBSET S : g[T] = FoldStep(1, step, g, T)
  <2> HIDE DEF step
  <2> QED
    BY <1>1 DEF IsFold
<1>3. \A x \in S, n \in Int : step[<<x, n>>] = v[x] * n /\ v[x] * n \in Int
  OBVIOUS
<1> HIDE DEF step
<1> DEFINE G == {T \in SUBSET S : g[T] \in Int}
<1>4. ASSUME NEW T \in SUBSET S, T = {} \/ T \ {Some(T)} \in G
      PROVE  g[T] = ProductStep(v, g, T) /\ g[T] \in Int
  <2>1. CASE T = {}
    <3>1. g[T] = 1 /\ ProductStep(v, g, T) = 1
      BY <1>2, <2>1 DEF FoldStep, ProductStep
    <3> QED
      BY <3>1
  <2>2. CASE T # {}
    <3>1. Some(T) \in S /\ g[T \ {Some(T)}] \in Int
      BY <1>4, <2>2, SomeIsIn
    <3>2. g[T] = step[<<Some(T), g[T \ {Some(T)}]>>]
      BY <1>2, <2>2 DEF FoldStep
    <3>3. ProductStep(v, g, T) = v[Some(T)] * g[T \ {Some(T)}]
      BY <2>2 DEF ProductStep
    <3> QED
      BY <1>3, <3>1, <3>2, <3>3
  <2> QED
    BY <2>1, <2>2
<1>5. \A T \in SUBSET S : T \in G
  <2>1. ASSUME NEW T \in SUBSET S, \A x \in T : T \ {x} \in G PROVE T \in G
    <3>1. g[T] \in Int
      <4> HIDE DEF G
      <4> QED
        BY <1>4, <2>1, SomeIsIn
    <3> QED
      BY <3>1
  <2> HIDE DEF G
  <2> QED
    BY <2>1, BySubsets
<1>6. \A T \in SUBSET S : g[T] = ProductStep(v, g, T)
  <2> SUFFICES ASSUME NEW T \in SUBSET S PROVE g[T] = ProductStep(v, g, T)
    OBVIOUS
  <2>1. T \ {Some(T)} \in G
    <3> HIDE DEF G
    <3> QED
      BY <1>5
  <2> HIDE DEF G
  <2> QED
    BY <1>4, <2>1
<1>7. g = [T \in SUBSET S |-> ProductStep(v, g, T)]
  <2>1. g = [T \in SUBSET S |-> g[T]]
    BY <1>1 DEF IsFold
  <2> QED
    BY <1>6, <2>1
<1> QED
  BY <1>7 DEF IsProducts

(* A product of positive numbers is at least each of them.                 *)
LEMMA ProductFacts ==
    ASSUME NEW v, IsFiniteSet(DOMAIN v), \A x \in DOMAIN v : v[x] \in Nat \ {0}
    PROVE  /\ FoldFunction(LAMBDA x, y : x * y, 1, v) \in Nat \ {0}
           /\ \A x \in DOMAIN v : FoldFunction(LAMBDA a, b : a * b, 1, v) >= v[x]
<1> DEFINE S == DOMAIN v
           g == Products(v, S)
<1>1. FoldFunction(LAMBDA x, y : x * y, 1, v) = g[S]
  BY DEF FoldFunction, FoldFunctionOnSet, MapThenFoldSet, Products, ProductStep, Some
<1>2. IsProducts(v, S, g)
  BY ProductsExist DEF Products, IsProducts
<1> HIDE DEF g
<1>3. \A T \in SUBSET S : g[T] = ProductStep(v, g, T)
  BY <1>2 DEF IsProducts
<1> DEFINE G == {T \in SUBSET S : g[T] \in Nat \ {0} /\ \A x \in T : g[T] >= v[x]}
<1>4. ASSUME NEW T \in SUBSET S, \A x \in T : T \ {x} \in G PROVE T \in G
  <2>1. CASE T = {}
    <3>1. g[T] = 1
      BY <1>3, <2>1 DEF ProductStep
    <3> QED
      BY <2>1, <3>1
  <2>2. CASE T # {}
    <3> DEFINE y == Some(T)
               r == g[T \ {y}]
    <3>1. y \in T /\ r \in Nat \ {0} /\ \A x \in T \ {y} : r >= v[x]
      BY <1>4, <2>2, SomeIsIn
    <3>2. g[T] = v[y] * r /\ v[y] \in Nat \ {0}
      BY <1>3, <2>2, <3>1 DEF ProductStep
    <3> HIDE DEF y, r
    <3>3. v[y] * r \in Nat \ {0} /\ v[y] * r >= v[y] /\ v[y] * r >= r
      BY <3>1, <3>2
    <3>4. \A x \in T : v[y] * r >= v[x]
      <4> SUFFICES ASSUME NEW x \in T PROVE v[y] * r >= v[x]
        OBVIOUS
      <4>1. CASE x = y
        BY <3>3, <4>1
      <4>2. CASE x # y
        <5>1. r >= v[x] /\ v[x] \in Nat
          BY <3>1, <4>2
        <5> QED
          BY <3>1, <3>2, <3>3, <5>1
      <4> QED
        BY <4>1, <4>2
    <3> QED
      BY <3>2, <3>3, <3>4
  <2> QED
    BY <2>1, <2>2
<1>5. \A T \in SUBSET S : T \in G
  <2> HIDE DEF G
  <2> QED
    BY <1>4, BySubsets
<1>6. g[S] \in Nat \ {0} /\ \A x \in S : g[S] >= v[x]
  BY <1>5
<1> QED
  BY <1>1, <1>6

(* A sum of positive numbers is positive.                                  *)
LEMMA TotalPositive ==
    ASSUME NEW S, IsFiniteSet(S), NEW f, \A x \in S : f[x] \in Nat \ {0}
    PROVE  Total(f, S) \in Nat /\ (S # {} => Total(f, S) > 0)
<1> DEFINE G == {T \in SUBSET S : Total(f, T) \in Nat /\ (T # {} => Total(f, T) > 0)}
<1>1. ASSUME NEW T \in SUBSET S, \A x \in T : T \ {x} \in G PROVE T \in G
  <2>1. IsFiniteSet(T) /\ \A x \in T : f[x] \in Int
    BY FS_Subset
  <2>2. /\ T = {} => Total(f, T) = 0
        /\ \A x \in T : Total(f, T) = f[x] + Total(f, T \ {x})
    BY <2>1, TotalFacts
  <2>3. CASE T = {}
    BY <2>2, <2>3
  <2>4. CASE T # {}
    <3>1. PICK x \in T : TRUE
      BY <2>4
    <3>2. /\ Total(f, T) = f[x] + Total(f, T \ {x})
          /\ Total(f, T \ {x}) \in Nat /\ f[x] \in Nat \ {0}
      BY <1>1, <2>2, <3>1
    <3> QED
      BY <3>2
  <2> QED
    BY <2>3, <2>4
<1>2. \A T \in SUBSET S : T \in G
  <2> HIDE DEF G
  <2> QED
    BY <1>1, BySubsets
<1> QED
  BY <1>2

-----------------------------------------------------------------------------
(* Scores, ranks and the selection.                                        *)

LEMMA TableIsItself == \A f : Table(f) = f
BY DEF Table

(* A composite score: a ratio of integers, the lower one above zero.       *)
AreRatios(scores) ==
    /\ DOMAIN scores \subseteq Instruments
    /\ scores = [i \in DOMAIN scores |-> scores[i]]
    /\ \A i \in DOMAIN scores : scores[i].sum \in Int /\ scores[i].weight \in Nat \ {0}

LEMMA ScoresAreRatios ==
    ASSUME CompositesAssumption, NEW components, NEW kept \in SUBSET Factors, kept # {}
    PROVE  AreRatios(Combine(components, kept))
<1> DEFINE z == Table([f \in kept |-> Transform(components[f], 1)])
           Having(i) == {f \in kept : i \in DOMAIN z[f]}
           Enough(i) == 100 * Total(FactorWeights, Having(i))
                            >= MinWeightPercent * Total(FactorWeights, kept)
           sums(i) == [f \in Having(i) |-> FactorWeights[f] * z[f][i]]
           score(i) == [sum |-> Total(sums(i), Having(i)),
                        weight |-> Total(FactorWeights, Having(i))]
           scores == [i \in {i \in Instruments : Enough(i)} |-> score(i)]
<1>1. IsFiniteSet(kept) /\ \A f \in kept : FactorWeights[f] \in Nat \ {0}
  <2>1. IsFiniteSet(Factors) /\ \A f \in Factors : FactorWeights[f] \in 1 .. 100
    BY DEF CompositesAssumption, Factors
  <2> QED
    BY <2>1, FS_Subset
<1>2. Total(FactorWeights, kept) \in Nat \ {0}
  BY <1>1, TotalPositive
<1>3. MinWeightPercent \in 1 .. 100
  BY DEF CompositesAssumption
<1>4. z = [f \in kept |-> ZScore(components[f])]
  <2> DEFINE w == [f \in kept |-> Transform(components[f], 1)]
  <2>1. w = [f \in kept |-> ZScore(components[f])]
    BY DEF Transform
  <2>2. z = w
    BY TableIsItself
  <2> HIDE DEF w, z
  <2> QED
    BY <2>1, <2>2
<1>5. ASSUME NEW f \in kept, NEW i \in DOMAIN z[f] PROVE z[f][i] \in Int
  <2> DEFINE values == components[f]
             D == DOMAIN values
             s == Total(values, D)
             n == Cardinality(D)
             u == [j \in D |-> IF n * values[j] > s THEN 1
                               ELSE IF n * values[j] < s THEN -1 ELSE 0]
  <2>1. z[f] = ZScore(values)
    BY <1>4
  <2>2. ZScore(values) = Table(u)
    BY DEF ZScore
  <2>3. z[f] = u
    <3> HIDE DEF u, z
    <3> QED
      BY <2>1, <2>2, TableIsItself
  <2>4. \A j \in DOMAIN u : u[j] \in Int
    <3> HIDE DEF n, s, D
    <3> QED
      OBVIOUS
  <2> HIDE DEF u, z
  <2> QED
    BY <2>3, <2>4
<1> HIDE DEF z
<1>6. ASSUME NEW i \in Instruments, Enough(i)
      PROVE  score(i).sum \in Int /\ score(i).weight \in Nat \ {0}
  <2>1. Having(i) \in SUBSET kept /\ IsFiniteSet(Having(i))
    BY <1>1, FS_Subset
  <2>2. \A f \in Having(i) : sums(i)[f] \in Int
    BY <1>1, <1>5
  <2>3. Total(sums(i), Having(i)) \in Int
    <3> DEFINE S == Having(i)
               t == sums(i)
    <3>1. \A f \in S : t[f] \in Int
      BY <2>2
    <3>2. IsFiniteSet(S)
      BY <2>1
    <3> HIDE DEF S, t
    <3>3. Total(t, S) \in Int
      BY <3>1, <3>2, TotalFacts
    <3> QED
      BY <3>3 DEF S, t
  <2>4. Total(FactorWeights, Having(i)) \in Nat
    <3> HIDE DEF Having
    <3> QED
      BY <1>1, <2>1, TotalPositive
  <2>5. Total(FactorWeights, Having(i)) # 0
    <3> HIDE DEF Having
    <3> DEFINE a == Total(FactorWeights, kept)
    <3> HIDE DEF a
    <3>1. a \in Nat \ {0} /\ Total(FactorWeights, Having(i)) \in Nat
      BY <1>2, <2>4 DEF a
    <3>2. 100 * Total(FactorWeights, Having(i)) >= MinWeightPercent * a
      BY <1>6 DEF a
    <3>3. MinWeightPercent * a > 0
      BY <1>3, <3>1
    <3> QED
      BY <3>1, <3>2, <3>3, <1>3
  <2> QED
    BY <2>3, <2>4, <2>5
<1>7. scores = [i \in DOMAIN scores |-> scores[i]]
  OBVIOUS
<1>8. AreRatios(scores)
  <2>1. DOMAIN scores = {i \in Instruments : Enough(i)}
    OBVIOUS
  <2>2. \A i \in DOMAIN scores : scores[i] = score(i)
    OBVIOUS
  <2> HIDE DEF scores, score, Enough
  <2> QED
    BY <1>6, <1>7, <2>1, <2>2 DEF AreRatios
<1>9. Combine(components, kept) = Table(scores)
  BY DEF Combine, z
<1> HIDE DEF scores
<1> QED
  BY <1>8, <1>9, TableIsItself

LEMMA TimesKeepsOrder ==
    ASSUME NEW x \in Int, NEW y \in Int, NEW w \in Nat
    PROVE  /\ x <= y => x * w <= y * w
           /\ x < y /\ w > 0 => x * w < y * w
<1>1. y * w - x * w = (y - x) * w
  OBVIOUS
<1>2. y - x >= 0 => (y - x) * w >= 0
  OBVIOUS
<1>3. y - x > 0 /\ w > 0 => (y - x) * w > 0
  OBVIOUS
<1>4. x * w \in Int /\ y * w \in Int /\ (y - x) * w \in Int
  OBVIOUS
<1> QED
  BY <1>1, <1>2, <1>3, <1>4

(* Ratios compare as fractions do: the order by cross products is          *)
(* transitive.                                                             *)
LEMMA RatiosAreOrdered ==
    ASSUME NEW a \in Int, NEW b \in Int, NEW c \in Int,
           NEW u \in Nat \ {0}, NEW v \in Nat \ {0}, NEW w \in Nat \ {0},
           a * v >= b * u, b * w >= c * v
    PROVE  /\ a * w >= c * u
           /\ (a * v > b * u \/ b * w > c * v) => a * w > c * u
<1> DEFINE av == a * v
           bu == b * u
           bw == b * w
           cv == c * v
           aw == a * w
           cu == c * u
<1>1. av \in Int /\ bu \in Int /\ bw \in Int /\ cv \in Int /\ aw \in Int /\ cu \in Int
  OBVIOUS
<1>2. av * w = aw * v /\ bu * w = bw * u /\ cv * u = cu * v
  OBVIOUS
<1>3. av >= bu /\ bw >= cv
  OBVIOUS
<1> HIDE DEF av, bu, bw, cv, aw, cu
<1>4. /\ bu * w <= av * w /\ (bu < av => bu * w < av * w)
      /\ cv * u <= bw * u /\ (cv < bw => cv * u < bw * u)
      /\ aw < cu => aw * v < cu * v
      /\ aw <= cu => aw * v <= cu * v
  BY <1>1, <1>3, TimesKeepsOrder
<1>5. /\ bu * w \in Int /\ av * w \in Int /\ cv * u \in Int /\ bw * u \in Int
      /\ aw * v \in Int /\ cu * v \in Int
  BY <1>1
<1>6. cu <= aw /\ (av > bu \/ bw > cv => cu < aw)
  BY <1>1, <1>2, <1>4, <1>5
<1> QED
  BY <1>6, <1>1 DEF av, bu, bw, cv, aw, cu

(* Descending score, ascending identifier: a strict total order.           *)
LEMMA AheadIsTotal ==
    ASSUME CompositesAssumption, NEW scores, AreRatios(scores),
           NEW i \in DOMAIN scores, NEW j \in DOMAIN scores, NEW k \in DOMAIN scores
    PROVE  /\ ~IsAhead(scores, i, i)
           /\ i # j => IsAhead(scores, i, j) \/ IsAhead(scores, j, i)
           /\ IsAhead(scores, i, j) /\ IsAhead(scores, j, k) => IsAhead(scores, i, k)
<1> DEFINE a == scores[i].sum
           b == scores[j].sum
           c == scores[k].sum
           u == scores[i].weight
           v == scores[j].weight
           w == scores[k].weight
<1>1. /\ a \in Int /\ b \in Int /\ c \in Int /\ i \in Int /\ j \in Int /\ k \in Int
      /\ u \in Nat \ {0} /\ v \in Nat \ {0} /\ w \in Nat \ {0}
  BY DEF AreRatios, CompositesAssumption
<1>2. /\ IsAhead(scores, i, i) <=> (a * u > a * u \/ i < i)
      /\ IsAhead(scores, i, j) <=> (a * v > b * u \/ (~(b * u > a * v) /\ i < j))
      /\ IsAhead(scores, j, i) <=> (b * u > a * v \/ (~(a * v > b * u) /\ j < i))
      /\ IsAhead(scores, j, k) <=> (b * w > c * v \/ (~(c * v > b * w) /\ j < k))
      /\ IsAhead(scores, i, k) <=> (a * w > c * u \/ (~(c * u > a * w) /\ i < k))
  BY DEF IsAhead, Higher
<1> HIDE DEF a, b, c, u, v, w
<1>3. /\ a * u \in Int /\ a * v \in Int /\ b * u \in Int /\ b * w \in Int /\ c * v \in Int
      /\ a * w \in Int /\ c * u \in Int
  BY <1>1
<1>4. ~IsAhead(scores, i, i) /\ (i # j => IsAhead(scores, i, j) \/ IsAhead(scores, j, i))
  BY <1>1, <1>2, <1>3
<1>5. ASSUME IsAhead(scores, i, j), IsAhead(scores, j, k) PROVE IsAhead(scores, i, k)
  <2>1. /\ a * v >= b * u /\ b * w >= c * v
        /\ a * v > b * u \/ b * w > c * v \/ i < k
    BY <1>1, <1>2, <1>3, <1>5
  <2>2. a * w >= c * u /\ ((a * v > b * u \/ b * w > c * v) => a * w > c * u)
    BY <1>1, <2>1, RatiosAreOrdered
  <2> QED
    BY <1>2, <1>3, <2>1, <2>2
<1> QED
  BY <1>4, <1>5

(* No two share a rank.                                                    *)
AreRanks(ranks) ==
    /\ IsFiniteSet(DOMAIN ranks)
    /\ \A i \in DOMAIN ranks : ranks[i] \in Nat
    /\ \A i, j \in DOMAIN ranks : i # j => ranks[i] # ranks[j]

LEMMA RanksAreDistinct ==
    ASSUME CompositesAssumption, NEW scores, AreRatios(scores)
    PROVE  AreRanks(Ranks(scores)) /\ DOMAIN Ranks(scores) = DOMAIN scores
<1> DEFINE D == DOMAIN scores
           ahead(i) == {j \in D : IsAhead(scores, j, i)}
           ranks == [i \in D |-> 1 + Cardinality(ahead(i))]
<1>1. IsFiniteSet(D)
  BY FS_Subset DEF AreRatios, CompositesAssumption
<1>2. ASSUME NEW i \in D PROVE IsFiniteSet(ahead(i)) /\ Cardinality(ahead(i)) \in Nat
  BY <1>1, FS_Subset, FS_CardinalityType
<1>3. ASSUME NEW i \in D, NEW j \in D, IsAhead(scores, i, j)
      PROVE  Cardinality(ahead(i)) < Cardinality(ahead(j))
  <2>1. ahead(i) \subseteq ahead(j) /\ i \in ahead(j) /\ i \notin ahead(i)
    BY <1>3, AheadIsTotal
  <2> DEFINE A == ahead(i)
             B == ahead(j)
  <2>2. /\ A \in SUBSET B /\ A # B /\ IsFiniteSet(B)
        /\ Cardinality(A) \in Nat /\ Cardinality(B) \in Nat
    BY <1>2, <2>1
  <2> HIDE DEF A, B
  <2>3. Cardinality(A) <= Cardinality(B) /\ Cardinality(A) # Cardinality(B)
    BY <2>2, FS_Subset
  <2> QED
    BY <2>2, <2>3 DEF A, B
<1>4. ASSUME NEW i \in D, NEW j \in D, i # j
      PROVE  Cardinality(ahead(i)) # Cardinality(ahead(j))
  <2>1. IsAhead(scores, i, j) \/ IsAhead(scores, j, i)
    BY <1>4, AheadIsTotal
  <2> HIDE DEF ahead
  <2> QED
    BY <1>2, <1>3, <2>1
<1>5. AreRanks(ranks)
  <2> HIDE DEF ahead
  <2> QED
    BY <1>1, <1>2, <1>4 DEF AreRanks
<1>6. Ranks(scores) = ranks
  BY TableIsItself DEF Ranks
<1> HIDE DEF ahead
<1> QED
  BY <1>5, <1>6

(* The n best of some: as many as there are, none ranked below one that is *)
(* left out.                                                               *)
LEMMA BestAreFirst ==
    ASSUME NEW ranks, AreRanks(ranks), NEW S \in SUBSET DOMAIN ranks, NEW n \in Nat
    PROVE  /\ Best(ranks, S, n) \subseteq S /\ IsFiniteSet(Best(ranks, S, n))
           /\ IsFiniteSet(S) /\ Cardinality(S) \in Nat
           /\ Cardinality(Best(ranks, S, n)) = IF n <= Cardinality(S) THEN n ELSE Cardinality(S)
           /\ Cardinality(S) <= n => Best(ranks, S, n) = S
           /\ \A i \in Best(ranks, S, n), j \in S \ Best(ranks, S, n) : ranks[i] < ranks[j]
<1> DEFINE before(T, i) == {j \in T : ranks[j] < ranks[i]}
           best(T) == {i \in T : Cardinality(before(T, i)) < n}
           G == {T \in SUBSET S : Cardinality(best(T)) = IF n <= Cardinality(T) THEN n
                                                         ELSE Cardinality(T)}
<1>1. IsFiniteSet(S) /\ \A i \in S : ranks[i] \in Nat
  BY FS_Subset DEF AreRanks
<1>2. ASSUME NEW T \in SUBSET S
      PROVE  /\ IsFiniteSet(T) /\ Cardinality(T) \in Nat
             /\ \A i \in T : /\ IsFiniteSet(before(T, i)) /\ Cardinality(before(T, i)) \in Nat
                             /\ Cardinality(before(T, i)) < Cardinality(T)
  <2>1. IsFiniteSet(T) /\ Cardinality(T) \in Nat
    BY <1>1, FS_Subset, FS_CardinalityType
  <2>2. ASSUME NEW i \in T
        PROVE  /\ IsFiniteSet(before(T, i)) /\ Cardinality(before(T, i)) \in Nat
               /\ Cardinality(before(T, i)) < Cardinality(T)
    <3> DEFINE A == before(T, i)
    <3>1. A \in SUBSET T /\ A # T
      BY <1>1
    <3> HIDE DEF A
    <3>2. IsFiniteSet(A) /\ Cardinality(A) <= Cardinality(T) /\ Cardinality(A) # Cardinality(T)
      BY <2>1, <3>1, FS_Subset
    <3>3. Cardinality(A) \in Nat
      BY <3>2, FS_CardinalityType
    <3> QED
      BY <2>1, <3>2, <3>3 DEF A
  <2> QED
    BY <2>1, <2>2
<1>3. ASSUME NEW T \in SUBSET S, Cardinality(T) <= n PROVE best(T) = T
  <2> HIDE DEF before
  <2> QED
    BY <1>2, <1>3
<1>4. ASSUME NEW i \in S, NEW j \in S, ranks[i] < ranks[j]
      PROVE  Cardinality(before(S, i)) < Cardinality(before(S, j))
  <2> DEFINE A == before(S, i)
             B == before(S, j)
  <2>1. A \in SUBSET B /\ i \in B /\ i \notin A
    BY <1>1, <1>4
  <2>2. IsFiniteSet(B) /\ Cardinality(A) \in Nat /\ Cardinality(B) \in Nat
    BY <1>2
  <2> HIDE DEF A, B
  <2>3. Cardinality(A) <= Cardinality(B) /\ Cardinality(A) # Cardinality(B)
    BY <2>1, <2>2, FS_Subset
  <2> QED
    BY <2>2, <2>3 DEF A, B
<1>5. ASSUME NEW i \in best(S), NEW j \in S \ best(S) PROVE ranks[i] < ranks[j]
  <2>1. i \in S /\ j \in S /\ ranks[i] \in Nat /\ ranks[j] \in Nat /\ i # j
    BY <1>1
  <2>2. ranks[i] # ranks[j]
    BY <2>1 DEF AreRanks
  <2>3. ~(ranks[j] < ranks[i])
    <3>1. Cardinality(before(S, i)) < n /\ ~(Cardinality(before(S, j)) < n)
      BY <1>5
    <3>2. Cardinality(before(S, i)) \in Nat /\ Cardinality(before(S, j)) \in Nat
      BY <1>2, <2>1
    <3> HIDE DEF before
    <3> QED
      BY <1>4, <2>1, <3>1, <3>2
  <2> QED
    BY <2>1, <2>2, <2>3
<1>6. ASSUME NEW T \in SUBSET S, \A x \in T : T \ {x} \in G PROVE T \in G
  <2>1. CASE Cardinality(T) <= n
    <3>1. best(T) = T
      BY <1>3, <2>1
    <3> HIDE DEF best
    <3> QED
      BY <1>2, <2>1, <3>1
  <2>2. CASE ~(Cardinality(T) <= n)
    <3>1. IsFiniteSet(T) /\ Cardinality(T) \in Nat /\ Cardinality(T) > n
      BY <1>2, <2>2
    <3>2. T # {}
      BY <3>1, FS_EmptySet
    <3>3. PICK m \in T : \A i \in T : ranks[m] >= ranks[i]
      <4> DEFINE V == {ranks[i] : i \in T}
      <4>1. V \in SUBSET Int /\ V # {}
        BY <1>1, <3>2
      <4>2. IsFiniteSet(V)
        <5> DEFINE f == [i \in T |-> ranks[i]]
        <5>1. f \in Surjection(T, V)
          BY DEF Surjection
        <5> QED
          BY <3>1, <5>1, FS_Surjection
      <4>3. PICK v \in V : \A y \in V : v >= y
        <5> HIDE DEF V
        <5> QED
          BY <4>1, <4>2, HasAMaximum
      <4> QED
        BY <4>3
    <3>4. \A i \in T : i # m => ranks[i] < ranks[m]
      BY <1>1, <3>3 DEF AreRanks
    <3>5. before(T, m) = T \ {m}
      BY <1>1, <3>4
    <3>6. IsFiniteSet(T \ {m}) /\ Cardinality(T \ {m}) = Cardinality(T) - 1
      BY <3>1, FS_RemoveElement
    <3>7. m \notin best(T)
      <4>1. ~(Cardinality(T) - 1 < n)
        BY <3>1
      <4> QED
        BY <3>5, <3>6, <4>1
    <3>8. \A i \in T \ {m} : before(T, i) = before(T \ {m}, i)
      BY <1>1, <3>4
    <3>9. best(T) = best(T \ {m})
      <4> HIDE DEF before
      <4> QED
        BY <3>7, <3>8
    <3>10. Cardinality(best(T \ {m})) = IF n <= Cardinality(T \ {m}) THEN n
                                        ELSE Cardinality(T \ {m})
      BY <1>6
    <3> HIDE DEF best
    <3> QED
      BY <3>1, <3>6, <3>9, <3>10
  <2> QED
    BY <2>1, <2>2
<1>7. S \in G
  <2>1. \A T \in SUBSET S : T \in G
    <3> HIDE DEF G
    <3> QED
      BY <1>1, <1>6, BySubsets
  <2> QED
    BY <2>1
<1>8. Best(ranks, S, n) = best(S)
  BY DEF Best
<1>9. IsFiniteSet(best(S)) /\ best(S) \subseteq S
  BY <1>1, FS_Subset
<1>10. Cardinality(best(S)) = IF n <= Cardinality(S) THEN n ELSE Cardinality(S)
  BY <1>7
<1> HIDE DEF best
<1> QED
  BY <1>2, <1>3, <1>5, <1>8, <1>9, <1>10

(* What SelectionFollowsBuffer says of one decision.                       *)
FollowsBuffer(ranks, held, size, buffer, chosen) ==
    LET kept == {i \in held \cap DOMAIN ranks : ranks[i] <= buffer}
    IN  /\ Cardinality(chosen) = Min({size, Cardinality(DOMAIN ranks)})
        /\ \A i \in kept \ chosen :
             /\ chosen \subseteq kept
             /\ \A j \in chosen : ranks[j] < ranks[i]
        /\ \A i \in chosen \ kept, j \in DOMAIN ranks \ (chosen \cup kept) :
             ranks[i] < ranks[j]

LEMMA LesserOfTwo ==
    ASSUME NEW a \in Int, NEW b \in Int
    PROVE  Min({a, b}) = IF a <= b THEN a ELSE b
BY DEF Min

LEMMA SelectsByBuffer ==
    ASSUME NEW ranks, AreRanks(ranks), NEW held, NEW size \in Nat, NEW buffer
    PROVE  FollowsBuffer(ranks, held, size, buffer, Select(ranks, held, size, buffer))
<1> DEFINE D == DOMAIN ranks
           kept == {i \in held \cap D : ranks[i] <= buffer}
           I == Best(ranks, kept, size)
           left == size - Cardinality(I)
           F == Best(ranks, D \ I, left)
           chosen == I \cup F
<1>1. /\ I \subseteq kept /\ IsFiniteSet(I) /\ IsFiniteSet(kept) /\ Cardinality(kept) \in Nat
      /\ Cardinality(I) = IF size <= Cardinality(kept) THEN size ELSE Cardinality(kept)
      /\ Cardinality(kept) <= size => I = kept
      /\ \A i \in I, j \in kept \ I : ranks[i] < ranks[j]
  <2>1. kept \in SUBSET DOMAIN ranks
    OBVIOUS
  <2> HIDE DEF kept
  <2> QED
    BY <2>1, BestAreFirst
<1>2. IsFiniteSet(D) /\ Cardinality(D) \in Nat
  BY FS_CardinalityType DEF AreRanks
<1>3. Cardinality(I) \in Nat /\ Cardinality(I) <= Cardinality(D) /\ left \in Nat
  <2>1. I \in SUBSET D
    BY <1>1
  <2>2. Cardinality(I) <= Cardinality(D)
    BY <1>2, <2>1, FS_Subset
  <2> HIDE DEF I, D, kept
  <2> QED
    BY <1>1, <2>2
<1>4. Cardinality(D \ I) = Cardinality(D) - Cardinality(I)
  <2>1. D \cap I = I
    BY <1>1
  <2>2. Cardinality(D \ I) = Cardinality(D) - Cardinality(D \cap I)
    <3> HIDE DEF D, I
    <3> QED
      BY <1>2, FS_Difference
  <2> QED
    BY <2>1, <2>2
<1>5. /\ F \subseteq D \ I /\ IsFiniteSet(F)
      /\ Cardinality(F) = IF left <= Cardinality(D \ I) THEN left ELSE Cardinality(D \ I)
      /\ \A i \in F, j \in (D \ I) \ F : ranks[i] < ranks[j]
  <2>1. D \ I \in SUBSET DOMAIN ranks
    OBVIOUS
  <2> HIDE DEF I, left
  <2> QED
    BY <1>3, <2>1, BestAreFirst
<1>6. Cardinality(chosen) = Cardinality(I) + Cardinality(F)
  <2>1. I \cap F = {}
    BY <1>5
  <2>2. IsFiniteSet(I) /\ IsFiniteSet(F)
    BY <1>1, <1>5
  <2> HIDE DEF I, F
  <2>3. Cardinality(I \cup F) = Cardinality(I) + Cardinality(F) - Cardinality(I \cap F)
    BY <2>2, FS_Union
  <2>4. Cardinality(I \cap F) = 0 /\ Cardinality(I) \in Nat /\ Cardinality(F) \in Nat
    BY <2>1, <2>2, FS_EmptySet, FS_CardinalityType
  <2> QED
    BY <2>3, <2>4
<1>7. Select(ranks, held, size, buffer) = chosen
  BY DEF Select, Incumbents
<1>8. Cardinality(chosen) = Min({size, Cardinality(D)})
  <2> HIDE DEF chosen, F, I, D, kept
  <2>1. Cardinality(chosen) = IF size <= Cardinality(D) THEN size ELSE Cardinality(D)
    BY <1>2, <1>3, <1>4, <1>5, <1>6
  <2> QED
    BY <1>2, <2>1, LesserOfTwo
<1>9. ASSUME NEW i \in kept \ chosen
      PROVE  chosen \subseteq kept /\ \A j \in chosen : ranks[j] < ranks[i]
  <2>1. i \in kept \ I
    BY <1>9
  <2>2. F = {}
    <3> HIDE DEF kept, I, F, D
    <3>1. Cardinality(I) = size
      BY <1>1, <2>1
    <3>2. left = 0 /\ Cardinality(F) = 0
      BY <1>3, <1>4, <1>5, <1>2, <3>1
    <3> QED
      BY <1>5, <3>2, FS_EmptySet
  <2> HIDE DEF kept, I, F
  <2> QED
    BY <1>1, <2>1, <2>2
<1>10. ASSUME NEW i \in chosen \ kept, NEW j \in D \ (chosen \cup kept)
       PROVE  ranks[i] < ranks[j]
  <2> HIDE DEF kept, I, F
  <2> QED
    BY <1>1, <1>5, <1>10
<1> HIDE DEF chosen
<1> QED
  BY <1>7, <1>8, <1>9, <1>10 DEF FollowsBuffer

-----------------------------------------------------------------------------
(* The weights of a book.                                                  *)

(* Rounding misses by half a unit at the most, and what rounds a quotient  *)
(* that is at most w is at most w.                                         *)
LEMMA RoundingFacts ==
    ASSUME NEW a \in Int, NEW b \in Nat \ {0}
    PROVE  LET r == RoundHalfEven(a, b)
           IN  /\ r \in Int
               /\ 2 * (a - r * b) <= b /\ 2 * (r * b - a) <= b
               /\ a >= 0 => r >= 0
               /\ \A w \in Int : a <= w * b => r <= w
<1> DEFINE q == a \div b
           m == a % b
           r == RoundHalfEven(a, b)
<1>1. q \in Int /\ m \in 0 .. b - 1 /\ a = b * q + m
  OBVIOUS
<1>2. r = IF 2 * m < b \/ (2 * m = b /\ q % 2 = 0) THEN q ELSE q + 1
  BY DEF RoundHalfEven
<1> HIDE DEF q, m, r
<1>3. (2 * m <= b /\ r = q) \/ (2 * m >= b /\ r = q + 1)
  BY <1>1, <1>2
<1>4. r \in Int
  BY <1>1, <1>3
<1>5. q * b \in Int /\ b * q = q * b /\ (q + 1) * b = q * b + b
  BY <1>1
<1>6. 2 * (a - r * b) <= b /\ 2 * (r * b - a) <= b
  BY <1>1, <1>3, <1>5
<1>7. a >= 0 => q >= 0
  <2>1. q <= -1 => q * b <= (-1) * b
    BY <1>1, TimesKeepsOrder
  <2> QED
    BY <1>1, <1>5, <2>1
<1>8. ASSUME NEW w \in Int, a <= w * b PROVE r <= w
  <2>1. w <= q - 1 => w * b <= (q - 1) * b
    BY <1>1, TimesKeepsOrder
  <2>2. w <= q => w * b <= q * b
    BY <1>1, TimesKeepsOrder
  <2>3. (q - 1) * b = q * b - b /\ w * b \in Int
    BY <1>1
  <2> QED
    BY <1>1, <1>3, <1>5, <1>8, <2>1, <2>2, <2>3
<1> QED
  BY <1>1, <1>3, <1>4, <1>6, <1>7, <1>8 DEF r

(* The rounding difference goes to one name: the book is whole.            *)
LEMMA DustMakesWhole ==
    ASSUME NEW S, IsFiniteSet(S), NEW w, DOMAIN w = S, \A i \in S : w[i] \in Int,
           NEW top \in S, NEW gross \in Int
    PROVE  LET u == WithDust(w, top, gross)
           IN  /\ u = [i \in S |-> u[i]] /\ \A i \in S : u[i] \in Int
               /\ Total(u, S) = gross
<1> DEFINE u == WithDust(w, top, gross)
           R == S \ {top}
           dust == gross - Total(w, S)
<1>1. Total(w, S) \in Int /\ Total(w, S) = w[top] + Total(w, R)
  BY TotalFacts
<1>2. u = [i \in S |-> IF i = top THEN w[top] + gross - Total(w, S) ELSE w[i]]
  BY DEF WithDust
<1>3. /\ u = [i \in S |-> u[i]] /\ \A i \in S : u[i] \in Int
      /\ u[top] = w[top] + gross - Total(w, S) /\ \A i \in R : u[i] = w[i]
  BY <1>1, <1>2
<1> HIDE DEF u
<1>4. IsFiniteSet(R)
  BY FS_Subset
<1>5. Total(u, R) = Total(w, R)
  BY <1>3, <1>4, TotalCongruence
<1>6. Total(u, S) = u[top] + Total(u, R)
  BY <1>3, TotalFacts
<1>7. Total(w, R) \in Int
  BY <1>4, TotalFacts
<1>8. Total(u, S) = gross
  BY <1>1, <1>3, <1>5, <1>6, <1>7
<1> QED
  BY <1>3, <1>8 DEF u

(* Whichever the scheme, the weights of a book are the whole of it.        *)
LEMMA BooksAreWhole ==
    ASSUME ConstructorAssumption, NEW S, IsFiniteSet(S), NEW top \in S, NEW m,
           NEW metrics, \A i \in DOMAIN metrics : metrics[i] \in Nat
    PROVE  LET w == Weights(m, S, top, metrics)
           IN  /\ w = [i \in S |-> w[i]] /\ \A i \in S : w[i] \in Int
               /\ Total(w, S) = Scale - CashBuffer
<1> DEFINE gross == Scale - CashBuffer
           IsWhole(w) == /\ w = [i \in S |-> w[i]] /\ \A i \in S : w[i] \in Int
                         /\ Total(w, S) = gross
<1>1. gross \in Nat /\ Scale \in Nat \ {0} /\ DefaultVolatility \in Nat \ {0}
  BY DEF ConstructorAssumption
<1>2. ASSUME NEW w, DOMAIN w = S, \A i \in S : w[i] \in Int
      PROVE  IsWhole(WithDust(w, top, gross))
  <2> HIDE DEF gross
  <2> QED
    BY <1>1, <1>2, DustMakesWhole
<1>3. IsWhole(EqualWeights(S, top, gross))
  <2> DEFINE n == Cardinality(S)
             w == [i \in S |-> RoundHalfEven(gross, n)]
  <2>1. n \in Nat \ {0}
    BY FS_CardinalityType, FS_EmptySet
  <2>2. RoundHalfEven(gross, n) \in Int
    <3> HIDE DEF n, gross
    <3> QED
      BY <1>1, <2>1, RoundingFacts
  <2>3. DOMAIN w = S /\ \A i \in S : w[i] \in Int
    BY <2>2
  <2>4. EqualWeights(S, top, gross) = WithDust(w, top, gross)
    BY DEF EqualWeights
  <2> HIDE DEF w, IsWhole
  <2> QED
    BY <1>2, <2>3, <2>4
<1>4. IsWhole(InverseVolatilityWeights(S, top, gross, metrics))
  <2> DEFINE vol == Volatilities(S, metrics)
             product == FoldFunction(LAMBDA x, y : x * y, 1, vol)
             inverse == [i \in S |-> product \div vol[i]]
             sum == Total(inverse, S)
             Fraction(i) == RoundHalfEven(Scale * inverse[i], sum)
             w == [i \in S |-> RoundHalfEven(gross * Fraction(i), Scale)]
  <2>1. DOMAIN vol = S /\ \A i \in S : vol[i] \in Nat \ {0}
    BY <1>1 DEF Volatilities
  <2>2. product \in Nat \ {0} /\ \A i \in S : product >= vol[i]
    <3> HIDE DEF vol
    <3> QED
      BY <2>1, ProductFacts
  <2> HIDE DEF product, vol
  <2>3. \A i \in S : inverse[i] \in Nat \ {0}
    <3> SUFFICES ASSUME NEW i \in S PROVE product \div vol[i] \in Nat \ {0}
      OBVIOUS
    <3> DEFINE q == product \div vol[i]
               r == product % vol[i]
    <3>1. q \in Int /\ r \in 0 .. vol[i] - 1 /\ product = vol[i] * q + r
      BY <2>1, <2>2
    <3>2. vol[i] \in Nat \ {0} /\ product >= vol[i] /\ product \in Nat
      BY <2>1, <2>2
    <3> HIDE DEF q, r
    <3>3. q <= 0 => q * vol[i] <= 0 * vol[i]
      BY <3>1, <3>2, TimesKeepsOrder
    <3>4. q > 0
      BY <3>1, <3>2, <3>3
    <3> QED
      BY <3>1, <3>4 DEF q
  <2> HIDE DEF inverse
  <2>4. sum \in Nat \ {0}
    BY <2>3, TotalPositive
  <2> HIDE DEF sum
  <2>5. ASSUME NEW i \in S PROVE RoundHalfEven(gross * Fraction(i), Scale) \in Int
    <3>1. Scale * inverse[i] \in Int
      BY <1>1, <2>3
    <3>2. Fraction(i) \in Int
      BY <2>4, <3>1, RoundingFacts
    <3> HIDE DEF Fraction
    <3>3. gross * Fraction(i) \in Int
      BY <1>1, <3>2
    <3> QED
      BY <1>1, <3>3, RoundingFacts
  <2>6. DOMAIN w = S /\ \A i \in S : w[i] \in Int
    <3> HIDE DEF Fraction, gross
    <3> QED
      BY <2>5
  <2>7. InverseVolatilityWeights(S, top, gross, metrics) = WithDust(w, top, gross)
    BY DEF InverseVolatilityWeights, vol, product, inverse, sum
  <2> HIDE DEF w, IsWhole
  <2> QED
    BY <1>2, <2>6, <2>7
<1>5. IsWhole(Weights(m, S, top, metrics))
  <2> HIDE DEF IsWhole
  <2> QED
    BY <1>3, <1>4 DEF Weights
<1> HIDE DEF gross
<1> QED
  BY <1>5 DEF gross

-----------------------------------------------------------------------------
(* The rounds of the risk engine.                                          *)

NoneRaised(D, v, w) == v \in [D -> Nat] /\ \A i \in D : v[i] <= w[i]

LEMMA StagesRaiseNothing ==
    ASSUME RiskAssumption, NEW D, IsFiniteSet(D), NEW w \in [D -> Nat]
    PROVE  /\ \A cap \in Nat : /\ NoneRaised(D, Capped(w, cap), w)
                               /\ \A i \in D : Capped(w, cap)[i] <= cap
           /\ NoneRaised(D, ScaledBySector(w), w)
           /\ NoneRaised(D, ScaledToGross(w), w)
<1>1. \A S \in SUBSET D : Total(w, S) \in Nat
  BY FS_Subset, TotalOfNats
<1>2. ASSUME NEW i \in D, NEW c \in Nat, NEW t \in Nat, t > c
      PROVE  RoundHalfEven(w[i] * c, t) \in Nat /\ RoundHalfEven(w[i] * c, t) <= w[i]
  <2> DEFINE a == w[i] * c
  <2>1. w[i] \in Nat /\ a \in Nat /\ t \in Nat \ {0}
    BY <1>2
  <2>2. a <= w[i] * t
    <3>1. c * w[i] <= t * w[i]
      BY <1>2, <2>1, TimesKeepsOrder
    <3> QED
      BY <1>2, <2>1, <3>1
  <2> HIDE DEF a
  <2>3. RoundHalfEven(a, t) \in Int /\ RoundHalfEven(a, t) >= 0 /\ RoundHalfEven(a, t) <= w[i]
    BY <2>1, <2>2, RoundingFacts
  <2> QED
    BY <2>3 DEF a
<1>3. ASSUME NEW cap \in Nat
      PROVE  NoneRaised(D, Capped(w, cap), w) /\ \A i \in D : Capped(w, cap)[i] <= cap
  BY DEF Capped, NoneRaised
<1>4. NoneRaised(D, ScaledBySector(w), w)
  <2> DEFINE v == ScaledBySector(w)
  <2>1. DOMAIN v = D /\ v = [i \in D |-> v[i]]
    BY DEF ScaledBySector
  <2>2. ASSUME NEW i \in D PROVE v[i] \in Nat /\ v[i] <= w[i]
    <3>1. CASE OverSector(w, i)
      <4>1. Total(w, Peers(w, i)) \in Nat
        BY <1>1 DEF Peers
      <4>2. SectorCap(SectorOf(i)) \in Nat /\ Total(w, Peers(w, i)) > SectorCap(SectorOf(i))
        BY <3>1 DEF OverSector, SectorCap, RiskAssumption
      <4>3. v[i] = RoundHalfEven(w[i] * SectorCap(SectorOf(i)), Total(w, Peers(w, i)))
        BY <3>1 DEF ScaledBySector
      <4> QED
        BY <1>2, <4>1, <4>2, <4>3
    <3>2. CASE ~OverSector(w, i)
      BY <3>2 DEF ScaledBySector
    <3> QED
      BY <3>1, <3>2
  <2> HIDE DEF v
  <2> QED
    BY <2>1, <2>2 DEF NoneRaised, v
<1>5. NoneRaised(D, ScaledToGross(w), w)
  <2>1. CASE OverGross(w)
    <3> DEFINE t == Total(w, D)
    <3>1. t \in Nat /\ MaxAllowed \in Nat /\ t > MaxAllowed
      BY <1>1, <2>1 DEF OverGross, MaxAllowed, RiskAssumption
    <3>2. ScaledToGross(w) = [i \in D |-> RoundHalfEven(w[i] * MaxAllowed, t)]
      BY <2>1 DEF ScaledToGross
    <3> HIDE DEF t
    <3> QED
      BY <1>2, <3>1, <3>2 DEF NoneRaised
  <2>2. CASE ~OverGross(w)
    BY <2>2 DEF ScaledToGross, NoneRaised
  <2> QED
    BY <2>1, <2>2
<1> QED
  BY <1>3, <1>4, <1>5

(* A round that changes nothing leaves nothing to any of its stages.       *)
LEMMA RoundFacts ==
    ASSUME RiskAssumption, NEW D, IsFiniteSet(D), NEW w \in [D -> Nat]
    PROVE  /\ NoneRaised(D, Round(w), w)
           /\ Round(w) = w => /\ \A i \in D : w[i] <= RiskNameWeight
                              /\ ScaledBySector(w) = w /\ ScaledToGross(w) = w
<1> DEFINE x == Capped(w, RiskNameWeight)
           y == ScaledBySector(x)
           z == ScaledToGross(y)
<1>1. RiskNameWeight \in Nat
  BY DEF RiskAssumption
<1>2. NoneRaised(D, x, w) /\ \A i \in D : x[i] <= RiskNameWeight
  BY <1>1, StagesRaiseNothing
<1>3. x \in [D -> Nat]
  BY <1>2 DEF NoneRaised
<1>4. NoneRaised(D, y, x)
  <2> HIDE DEF x
  <2> QED
    BY <1>3, StagesRaiseNothing
<1>5. y \in [D -> Nat]
  BY <1>4 DEF NoneRaised
<1>6. NoneRaised(D, z, y)
  <2> HIDE DEF y
  <2> QED
    BY <1>5, StagesRaiseNothing
<1>7. Round(w) = z
  BY TableIsItself DEF Round
<1>8. y = ScaledBySector(x) /\ z = ScaledToGross(y)
  OBVIOUS
<1> HIDE DEF x, y, z
<1>9. z \in [D -> Nat] /\ \A i \in D : /\ x[i] \in Nat /\ y[i] \in Nat /\ z[i] \in Nat
                                       /\ z[i] <= y[i] /\ y[i] <= x[i] /\ x[i] <= w[i]
  BY <1>2, <1>4, <1>6 DEF NoneRaised
<1>10. NoneRaised(D, z, w)
  BY <1>9 DEF NoneRaised
<1>11. ASSUME z = w
       PROVE  x = w /\ y = w
  <2>1. \A i \in D : x[i] = w[i] /\ y[i] = w[i]
    BY <1>9, <1>11
  <2> QED
    BY <1>3, <1>5, <2>1
<1> QED
  BY <1>2, <1>7, <1>8, <1>10, <1>11

LEMMA RoundsAreRounds ==
    ASSUME RiskAssumption, NEW target
    PROVE  LET after == Rounds(target)
           IN  after[0] = target /\ \A n \in 1 .. MaxIterations : after[n] = Round(after[n - 1])
<1> DEFINE IsUpto(n, g) == g = [k \in 0 .. n |-> IF k = 0 THEN target ELSE Round(g[k - 1])]
           G == {n \in Nat : \E g : IsUpto(n, g)}
<1>1. 0 \in G
  <2> DEFINE g == [k \in 0 .. 0 |-> target]
  <2>1. g = [k \in 0 .. 0 |-> IF k = 0 THEN target ELSE Round(g[k - 1])]
    OBVIOUS
  <2>2. IsUpto(0, g)
    BY <2>1
  <2> HIDE DEF IsUpto, g
  <2> QED
    BY <2>2
<1>2. ASSUME NEW n \in Nat, n \in G PROVE n + 1 \in G
  <2>1. PICK g : IsUpto(n, g)
    BY <1>2
  <2> DEFINE h == [k \in 0 .. n + 1 |-> IF k = n + 1 THEN Round(g[n]) ELSE g[k]]
  <2>2. ASSUME NEW k \in 0 .. n + 1
        PROVE  h[k] = IF k = 0 THEN target ELSE Round(h[k - 1])
    <3>1. \A j \in 0 .. n : g[j] = IF j = 0 THEN target ELSE Round(g[j - 1])
      BY <2>1
    <3>2. \A j \in 0 .. n : h[j] = g[j]
      OBVIOUS
    <3>3. CASE k = n + 1
      <4>1. h[k] = Round(g[n]) /\ h[n] = g[n] /\ k - 1 = n /\ k # 0
        BY <3>2, <3>3
      <4> QED
        BY <4>1
    <3>4. CASE k # n + 1
      <4>1. k \in 0 .. n /\ (k # 0 => k - 1 \in 0 .. n)
        BY <3>4
      <4> HIDE DEF h
      <4> QED
        BY <3>1, <3>2, <4>1
    <3> QED
      BY <3>3, <3>4
  <2>3. h = [k \in 0 .. n + 1 |-> h[k]]
    OBVIOUS
  <2> HIDE DEF h
  <2>4. IsUpto(n + 1, h)
    BY <2>2, <2>3
  <2> HIDE DEF IsUpto
  <2> QED
    BY <2>4
<1>3. \A n \in Nat : n \in G
  <2> HIDE DEF G
  <2> QED
    BY <1>1, <1>2, BySteps
<1>4. MaxIterations \in Nat
  BY DEF RiskAssumption
<1>5. \E g : IsUpto(MaxIterations, g)
  BY <1>3, <1>4
<1>6. Rounds(target) = CHOOSE g : IsUpto(MaxIterations, g)
  BY DEF Rounds
<1>7. IsUpto(MaxIterations, Rounds(target))
  <2> HIDE DEF IsUpto
  <2> QED
    BY <1>5, <1>6
<1>8. Rounds(target) = [k \in 0 .. MaxIterations |-> IF k = 0 THEN target
                                                    ELSE Round(Rounds(target)[k - 1])]
  BY <1>7
<1> QED
  BY <1>4, <1>8

LEMMA RoundsRaiseNothing ==
    ASSUME RiskAssumption, NEW D, IsFiniteSet(D), NEW target \in [D -> Nat]
    PROVE  \A n \in 0 .. MaxIterations : NoneRaised(D, Rounds(target)[n], target)
<1> DEFINE after == Rounds(target)
           G == {n \in Nat : n <= MaxIterations => NoneRaised(D, after[n], target)}
<1>1. after[0] = target /\ \A n \in 1 .. MaxIterations : after[n] = Round(after[n - 1])
  BY RoundsAreRounds
<1> HIDE DEF after
<1>2. MaxIterations \in Nat
  BY DEF RiskAssumption
<1>3. 0 \in G
  BY <1>1 DEF NoneRaised
<1>4. ASSUME NEW n \in Nat, n \in G PROVE n + 1 \in G
  <2> SUFFICES ASSUME n + 1 <= MaxIterations PROVE NoneRaised(D, after[n + 1], target)
    OBVIOUS
  <2>1. NoneRaised(D, after[n], target)
    BY <1>2, <1>4
  <2>2. n + 1 \in 1 .. MaxIterations /\ (n + 1) - 1 = n
    BY <1>2
  <2>3. after[n + 1] = Round(after[n])
    BY <1>1, <2>2
  <2>4. after[n] \in [D -> Nat]
    BY <2>1 DEF NoneRaised
  <2>5. NoneRaised(D, Round(after[n]), after[n])
    BY <2>4, RoundFacts
  <2> DEFINE v == after[n]
             u == Round(after[n])
  <2>6. NoneRaised(D, u, v) /\ NoneRaised(D, v, target)
    BY <2>1, <2>5
  <2> HIDE DEF u, v
  <2>7. NoneRaised(D, u, target)
    BY <2>6 DEF NoneRaised
  <2> QED
    BY <2>3, <2>7 DEF u
<1>5. \A n \in Nat : n \in G
  <2> HIDE DEF G
  <2> QED
    BY <1>3, <1>4, BySteps
<1> QED
  BY <1>2, <1>5 DEF after

(* No name is added on the way.                                            *)
LEMMA RoundsKeepNames ==
    ASSUME RiskAssumption, NEW target
    PROVE  \A n \in 0 .. MaxIterations : DOMAIN Rounds(target)[n] = DOMAIN target
<1> DEFINE after == Rounds(target)
           G == {n \in Nat : n <= MaxIterations => DOMAIN after[n] = DOMAIN target}
<1>1. after[0] = target /\ \A n \in 1 .. MaxIterations : after[n] = Round(after[n - 1])
  BY RoundsAreRounds
<1> HIDE DEF after
<1>2. MaxIterations \in Nat
  BY DEF RiskAssumption
<1>3. 0 \in G
  BY <1>1
<1>4. ASSUME NEW n \in Nat, n \in G PROVE n + 1 \in G
  <2> SUFFICES ASSUME n + 1 <= MaxIterations PROVE DOMAIN after[n + 1] = DOMAIN target
    OBVIOUS
  <2>1. DOMAIN after[n] = DOMAIN target
    BY <1>2, <1>4
  <2>2. n + 1 \in 1 .. MaxIterations /\ (n + 1) - 1 = n
    BY <1>2
  <2>3. after[n + 1] = Round(after[n])
    BY <1>1, <2>2
  <2>4. \A w : DOMAIN Round(w) = DOMAIN w
    BY TableIsItself DEF Round, Capped, ScaledBySector, ScaledToGross
  <2> QED
    BY <2>1, <2>3, <2>4
<1>5. \A n \in Nat : n \in G
  <2> HIDE DEF G
  <2> QED
    BY <1>3, <1>4, BySteps
<1> QED
  BY <1>2, <1>5 DEF after

(* Scaled to a cap they are over and not changed by it: the sum is above   *)
(* the cap by half a unit for each positive weight at the most.            *)
LEMMA SettledSum ==
    ASSUME NEW D, IsFiniteSet(D), NEW w \in [D -> Nat], NEW S \in SUBSET D, NEW c \in Nat,
           Total(w, S) > c => \A j \in S : w[j] = RoundHalfEven(w[j] * c, Total(w, S))
    PROVE  LET held == {j \in S : w[j] > 0}
           IN  2 * (Total(w, held) - c) <= Cardinality(held)
<1> DEFINE U == {j \in S : w[j] > 0}
           t == Total(w, S)
           n == Cardinality(U)
<1>1. IsFiniteSet(S) /\ IsFiniteSet(U) /\ n \in Nat
  <2>1. U \in SUBSET S
    OBVIOUS
  <2> HIDE DEF U
  <2> QED
    BY <2>1, FS_Subset, FS_CardinalityType
<1>2. Total(w, U) = t
  BY <1>1, TotalOfRest
<1>3. t \in Nat
  BY <1>1, TotalOfNats
<1>4. CASE t <= c
  BY <1>1, <1>2, <1>3, <1>4
<1>5. CASE t > c
  <2> DEFINE k == 2 * (t - c)
  <2>1. k \in Nat /\ t \in Nat \ {0}
    BY <1>3, <1>5
  <2>2. ASSUME NEW j \in U PROVE w[j] * k <= t
    <3>1. w[j] \in Nat /\ w[j] * c \in Int
      OBVIOUS
    <3> DEFINE a == w[j] * c
    <3>2. w[j] = RoundHalfEven(a, t)
      BY <1>5
    <3> HIDE DEF a, t
    <3>3. 2 * (w[j] * t - a) <= t
      BY <2>1, <3>1, <3>2, RoundingFacts DEF a
    <3>4. w[j] * (2 * (t - c)) = 2 * (w[j] * t - w[j] * c)
      BY <2>1, <3>1
    <3> QED
      BY <3>3, <3>4 DEF a
  <2>3. Total(w, U) * k <= n * t
    <3>1. \A j \in U : w[j] \in Int
      OBVIOUS
    <3> HIDE DEF U, t, k
    <3> QED
      BY <1>1, <2>1, <2>2, <3>1, TotalIsBounded
  <2>4. k <= n
    <3> HIDE DEF t, k, n, U
    <3>1. k * t <= n * t
      BY <1>2, <2>1, <2>3
    <3>2. n < k => n * t < k * t
      BY <1>1, <2>1, TimesKeepsOrder
    <3>3. k * t \in Int /\ n * t \in Int
      BY <1>1, <2>1
    <3> QED
      BY <1>1, <2>1, <3>1, <3>2, <3>3
  <2> QED
    BY <1>2, <2>4
<1> QED
  BY <1>3, <1>4, <1>5

(* What a target must be after the risk engine.                            *)
WithinCaps(target, raw) ==
    LET names == DOMAIN target
    IN  /\ names \subseteq DOMAIN raw /\ target = [i \in names |-> target[i]]
        /\ \A i \in names : /\ target[i] \in Nat \ {0} /\ target[i] <= RiskNameWeight
                            /\ target[i] <= raw[i]
        /\ \A i \in names : DOMAIN Sector # {} =>
             2 * (Total(target, Peers(target, i)) - SectorCap(SectorOf(i)))
                <= Cardinality(Peers(target, i))
        /\ 2 * (Total(target, names) - MaxAllowed) <= Cardinality(names)

LEMMA SettledIsWithinCaps ==
    ASSUME RiskAssumption, NEW D, IsFiniteSet(D), NEW raw, DOMAIN raw = D, NEW w \in [D -> Nat],
           \A i \in D : w[i] <= raw[i], Round(w) = w
    PROVE  WithinCaps(Positive(w), raw)
<1> DEFINE P == {i \in D : w[i] > 0}
           p == Positive(w)
<1>1. p = [i \in P |-> w[i]]
  BY DEF Positive, Restrict
<1>2. /\ \A i \in D : w[i] <= RiskNameWeight
      /\ ScaledBySector(w) = w /\ ScaledToGross(w) = w
  BY RoundFacts
<1>3. ASSUME NEW S \in SUBSET P PROVE Total(p, S) = Total(w, S)
  <2>1. IsFiniteSet(S) /\ \A i \in S : p[i] \in Int /\ p[i] = w[i]
    BY <1>1, FS_Subset
  <2> HIDE DEF p
  <2> QED
    BY <2>1, TotalCongruence
<1>4. \A i \in P : w[i] \in Nat \ {0}
  OBVIOUS
<1>5. ASSUME NEW i \in P, DOMAIN Sector # {}
      PROVE  2 * (Total(p, Peers(p, i)) - SectorCap(SectorOf(i))) <= Cardinality(Peers(p, i))
  <2> DEFINE S == Peers(w, i)
             c == SectorCap(SectorOf(i))
             U == {j \in S : w[j] > 0}
  <2>1. S \in SUBSET D /\ \A j \in S : Peers(w, j) = S /\ SectorOf(j) = SectorOf(i)
    BY DEF Peers
  <2>2. c \in Nat
    BY DEF SectorCap, RiskAssumption
  <2>3. ASSUME Total(w, S) > c, NEW j \in S PROVE w[j] = RoundHalfEven(w[j] * c, Total(w, S))
    <3>1. Peers(w, j) = S /\ SectorCap(SectorOf(j)) = c /\ j \in D
      BY <2>1
    <3> HIDE DEF S, c
    <3>2. OverSector(w, j)
      BY <1>5, <2>3, <3>1 DEF OverSector
    <3>3. ScaledBySector(w)[j] = RoundHalfEven(w[j] * c, Total(w, S))
      BY <3>1, <3>2 DEF ScaledBySector
    <3> QED
      BY <1>2, <3>3
  <2>4. Peers(p, i) = U /\ U \in SUBSET P
    BY <1>1, <2>1 DEF Peers
  <2> HIDE DEF S, c, P, p
  <2>5. 2 * (Total(w, U) - c) <= Cardinality(U)
    BY <2>1, <2>2, <2>3, SettledSum
  <2> HIDE DEF U
  <2>6. Total(p, U) = Total(w, U)
    BY <1>3, <2>4
  <2> QED
    BY <2>4, <2>5, <2>6 DEF c
<1>6. 2 * (Total(p, P) - MaxAllowed) <= Cardinality(P)
  <2>1. MaxAllowed \in Nat
    BY DEF MaxAllowed, RiskAssumption
  <2>2. ASSUME Total(w, D) > MaxAllowed, NEW j \in D
        PROVE  w[j] = RoundHalfEven(w[j] * MaxAllowed, Total(w, D))
    <3>1. ScaledToGross(w)[j] = RoundHalfEven(w[j] * MaxAllowed, Total(w, D))
      BY <2>2 DEF ScaledToGross, OverGross
    <3> QED
      BY <1>2, <3>1
  <2>3. 2 * (Total(w, P) - MaxAllowed) <= Cardinality(P)
    <3>1. D \in SUBSET D
      OBVIOUS
    <3> QED
      BY <2>1, <2>2, <3>1, SettledSum
  <2>4. Total(p, P) = Total(w, P)
    <3>1. P \in SUBSET P
      OBVIOUS
    <3> HIDE DEF P, p
    <3> QED
      BY <1>3, <3>1
  <2> QED
    BY <2>3, <2>4
<1>7. DOMAIN p = P /\ p = [i \in P |-> p[i]] /\ \A i \in P : p[i] = w[i]
  BY <1>1
<1>8. \A i \in P : i \in D /\ w[i] <= raw[i]
  OBVIOUS
<1> HIDE DEF p, P
<1>9. WithinCaps(p, raw)
  BY <1>2, <1>4, <1>5, <1>6, <1>7, <1>8 DEF WithinCaps
<1> QED
  BY <1>9 DEF p

(* The decision, by what the rounds come to.                               *)
DecisionAfter(target, after) ==
    LET settled == {n \in 1 .. MaxIterations : after[n] = after[n - 1]}
    IN  IF DOMAIN target = {} THEN [status |-> "pass", target |-> target]
        ELSE IF settled = {} THEN [status |-> "reject", target |-> target]
        ELSE [status |-> IF Adjusts(target) THEN "adjust" ELSE "pass",
              target |-> Positive(after[Min(settled)])]

LEMMA ApplyIsDecision == \A target : Apply(target) = DecisionAfter(target, Rounds(target))
<1> TAKE target
<1>1. Apply(target) = DecisionAfter(target, Table(Rounds(target)))
  BY DEF Apply, DecisionAfter
<1> QED
  BY <1>1, TableIsItself

LEMMA ApplyKeepsNames ==
    ASSUME RiskAssumption, NEW target
    PROVE  DOMAIN Apply(target).target \subseteq DOMAIN target
<1> DEFINE after == Rounds(target)
           settled == {n \in 1 .. MaxIterations : after[n] = after[n - 1]}
<1>1. Apply(target).target = target \/ (settled # {} /\
        Apply(target).target = Positive(after[Min(settled)]))
  <2> HIDE DEF after
  <2>1. Apply(target) = DecisionAfter(target, after)
    BY ApplyIsDecision DEF after
  <2> QED
    BY <2>1 DEF DecisionAfter
<1>2. settled # {} => Min(settled) \in 0 .. MaxIterations
  <2> SUFFICES ASSUME settled # {} PROVE Min(settled) \in settled
    OBVIOUS
  <2>1. settled \subseteq Nat
    OBVIOUS
  <2> HIDE DEF settled
  <2>2. PICK n \in settled : \A m \in settled : ~(m < n)
    BY <2>1, LeastNat
  <2>3. \A m \in settled : n <= m
    BY <2>1, <2>2
  <2> QED
    BY <2>3 DEF Min
<1> HIDE DEF settled
<1>3. \A n \in 0 .. MaxIterations : DOMAIN Positive(after[n]) \subseteq DOMAIN target
  <2>1. \A n \in 0 .. MaxIterations : DOMAIN after[n] = DOMAIN target
    BY RoundsKeepNames
  <2> HIDE DEF after
  <2> QED
    BY <2>1 DEF Positive, Restrict
<1> HIDE DEF after
<1> QED
  BY <1>1, <1>2, <1>3

(* What is not rejected is within its caps.                                *)
LEMMA ApplyCaps ==
    ASSUME RiskAssumption, NEW D, IsFiniteSet(D), D # {}, NEW target \in [D -> Nat],
           Apply(target).status # "reject"
    PROVE  WithinCaps(Apply(target).target, target)
<1> DEFINE after == Rounds(target)
           settled == {n \in 1 .. MaxIterations : after[n] = after[n - 1]}
<1>1. settled # {} /\ Apply(target).target = Positive(after[Min(settled)])
  <2> HIDE DEF after
  <2>1. Apply(target) = DecisionAfter(target, after)
    BY ApplyIsDecision DEF after
  <2> QED
    BY <2>1 DEF DecisionAfter
<1>2. PICK n \in settled : Min(settled) = n
  <2>1. settled \subseteq Nat
    OBVIOUS
  <2> HIDE DEF settled
  <2>2. PICK n \in settled : \A m \in settled : ~(m < n)
    BY <1>1, <2>1, LeastNat
  <2>3. \A m \in settled : n <= m
    BY <2>1, <2>2
  <2>4. Min(settled) \in settled
    BY <2>3 DEF Min
  <2> QED
    BY <2>4
<1>3. n \in 1 .. MaxIterations /\ after[n] = after[n - 1]
  BY <1>2
<1>4. after[n] = Round(after[n - 1])
  BY <1>3, RoundsAreRounds
<1>5. NoneRaised(D, after[n], target)
  BY <1>3, RoundsRaiseNothing
<1> DEFINE w == after[n]
<1>6. w \in [D -> Nat] /\ (\A i \in D : w[i] <= target[i]) /\ Round(w) = w
  BY <1>3, <1>4, <1>5 DEF NoneRaised
<1> HIDE DEF w
<1>7. WithinCaps(Positive(w), target)
  BY <1>6, SettledIsWithinCaps
<1> QED
  BY <1>1, <1>2, <1>7 DEF w

-----------------------------------------------------------------------------
(* A sweep of runs over one cache of snapshots.                            *)

(* The buffer a run of a size works with.                                  *)
BufferOf(size) ==
    IF size = ConfiguredSize THEN ConfiguredBuffer
    ELSE Larger(size + BufferMargin, ConfiguredBuffer)

(* What a rebalance decides from the snapshots of its session.             *)
Decided(m, session, components, size, kept, held, metrics) ==
    LET scores == Combine(components, kept)
        raw == Construct(scores, held, size, BufferOf(size), m, metrics)
        decision == Apply(raw)
    IN  [session |-> session, size |-> size, buffer |-> BufferOf(size),
         kept |-> kept, held |-> held, metrics |-> metrics,
         ranks |-> Ranks(scores), raw |-> raw,
         status |-> decision.status, target |-> decision.target]

(* d is a decision from cached snapshots under the method m.               *)
IsDecision(d, cache, m) ==
    \E session \in DOMAIN cache, size \in Nat, kept \in SUBSET Factors,
       held \in SUBSET Instruments, metrics \in RiskMetrics :
        kept # {} /\ d = Decided(m, session, cache[session], size, kept, held, metrics)

RunInv ==
    /\ run \in [size : Nat, buffer : Nat, kept : SUBSET Factors,
                next : 0 .. RebalanceSessions, held : SUBSET Instruments]
    /\ run.size <= run.buffer /\ runs \in 0 .. MaxRuns
    /\ run.next > 0 => run.buffer = BufferOf(run.size) /\ run.kept # {}

CacheInv ==
    /\ method \in Methods
    /\ DOMAIN snapshots \subseteq Sessions
    /\ \A s \in DOMAIN snapshots : snapshots[s] \in Snapshots

SweepInv == RunInv /\ CacheInv /\ \A d \in decisions : IsDecision(d, snapshots, method)

LEMMA BufferIsLarger ==
    ASSUME RebalancesAssumption, NEW size \in Nat
    PROVE  BufferOf(size) \in Nat /\ size <= BufferOf(size)
<1>1. ConfiguredBuffer \in Nat /\ ConfiguredBuffer >= ConfiguredSize /\ BufferMargin \in Nat
  BY DEF RebalancesAssumption
<1> QED
  BY <1>1 DEF BufferOf, Larger

(* A portfolio is a book of the names selected, or empty.                  *)
IsPortfolio(ranks, selected, raw, m, metrics) ==
    /\ AreRanks(ranks)
    /\ DOMAIN raw = selected /\ selected \subseteq Instruments
    /\ selected = {} => raw = <<>>
    /\ selected # {} => \E top \in selected : raw = Targeted(Weights(m, selected, top, metrics))

LEMMA PortfolioIsABook ==
    ASSUME CompositesAssumption, NEW components, NEW kept \in SUBSET Factors, kept # {},
           NEW held, NEW size \in Nat, NEW buffer, NEW m, NEW metrics
    PROVE  IsPortfolio(Ranks(Combine(components, kept)),
                       Select(Ranks(Combine(components, kept)), held, size, buffer),
                       Construct(Combine(components, kept), held, size, buffer, m, metrics),
                       m, metrics)
<1> DEFINE scores == Combine(components, kept)
           ranks == Ranks(scores)
           selected == Select(ranks, held, size, buffer)
           raw == Construct(scores, held, size, buffer, m, metrics)
           top == Top(ranks, selected)
           weights == Weights(m, selected, top, metrics)
<1>1. AreRanks(ranks) /\ DOMAIN ranks \subseteq Instruments
  <2>1. AreRatios(scores)
    BY ScoresAreRatios
  <2> HIDE DEF scores
  <2>2. AreRanks(ranks) /\ DOMAIN ranks = DOMAIN scores
    BY <2>1, RanksAreDistinct
  <2> QED
    BY <2>1, <2>2 DEF AreRatios
<1>2. selected \subseteq DOMAIN ranks
  <2> HIDE DEF ranks
  <2> QED
    BY DEF Select, Incumbents, Best
<1>3. raw = IF selected = {} THEN <<>> ELSE Targeted(weights)
  <2>1. raw = IF selected = {} THEN <<>> ELSE Targeted(Table(weights))
    BY DEF Construct
  <2> HIDE DEF raw, selected, weights
  <2> QED
    BY <2>1, TableIsItself
<1> HIDE DEF ranks, raw
<1>4. DOMAIN weights = selected
  <2> HIDE DEF selected, top
  <2> QED
    BY DEF Weights, EqualWeights, InverseVolatilityWeights, WithDust
<1>5. DOMAIN raw = selected
  <2>1. DOMAIN Targeted(weights) = DOMAIN weights
    <3> HIDE DEF weights
    <3> QED
      BY DEF Targeted, Capped
  <2>2. CASE selected = {}
    <3>1. raw = <<>>
      BY <1>3, <2>2
    <3> HIDE DEF selected
    <3> QED
      BY <2>2, <3>1
  <2>3. CASE selected # {}
    <3> HIDE DEF selected, weights
    <3> QED
      BY <1>3, <1>4, <2>1, <2>3
  <2> QED
    BY <2>2, <2>3
<1>6. ASSUME selected # {} PROVE top \in selected
  <2> DEFINE S == selected
             V == {ranks[i] : i \in S}
  <2>1. S \subseteq DOMAIN ranks /\ S # {} /\ \A i \in DOMAIN ranks : ranks[i] \in Nat
    BY <1>1, <1>2, <1>6 DEF AreRanks
  <2> HIDE DEF S
  <2>2. V \subseteq Nat /\ V # {}
    BY <2>1
  <2>3. PICK v \in V : \A u \in V : ~(u < v)
    <3> HIDE DEF V
    <3> QED
      BY <2>2, LeastNat
  <2>4. PICK i \in S : v = ranks[i]
    BY <2>3
  <2>5. \A j \in S : ranks[i] <= ranks[j]
    <3> SUFFICES ASSUME NEW j \in S PROVE ranks[i] <= ranks[j]
      OBVIOUS
    <3>1. ranks[i] \in Nat /\ ranks[j] \in Nat /\ ~(ranks[j] < ranks[i])
      BY <2>1, <2>3, <2>4
    <3> QED
      BY <3>1
  <2>6. Top(ranks, S) \in S
    BY <2>4, <2>5 DEF Top
  <2> QED
    BY <2>6 DEF S
<1> HIDE DEF selected, top
<1>7. IsPortfolio(ranks, selected, raw, m, metrics)
  BY <1>1, <1>2, <1>3, <1>5, <1>6 DEF IsPortfolio, weights
<1> QED
  BY <1>7 DEF selected, ranks, raw

LEMMA InitSweep == SweepInit => SweepInv
<1> SUFFICES ASSUME SweepInit PROVE SweepInv
  OBVIOUS
<1>1. RunInv
  BY RebalancesAssumption DEF SweepInit, RunInv, NoRun
<1>2. CacheInv
  BY DEF SweepInit, CacheInv
<1> QED
  BY <1>1, <1>2 DEF SweepInv, SweepInit

LEMMA StartStep ==
    ASSUME RebalancesAssumption, SweepInv, NEW variant \in AskedVariants, Run(variant)
    PROVE  SweepInv'
<1>1. RunInv'
  <2> DEFINE size == IF variant.size = 0 THEN ConfiguredSize ELSE variant.size
             kept == Factors \ variant.drop
  <2>1. variant.size \in Nat \ {ConfiguredSize} /\ ConfiguredSize \in Nat
    BY DEF RebalancesAssumption
  <2>2. size \in Nat /\ BufferOf(size) =
          IF variant.size = 0 THEN ConfiguredBuffer
          ELSE Larger(variant.size + BufferMargin, ConfiguredBuffer)
    BY <2>1 DEF BufferOf
  <2>3. run' = [size |-> size, buffer |-> BufferOf(size), kept |-> kept, next |-> 1, held |-> {}]
    BY <2>2 DEF Run
  <2>4. kept # {} /\ runs < MaxRuns /\ runs' = runs + 1
    BY DEF Run
  <2>5. 1 \in 0 .. RebalanceSessions /\ MaxRuns \in Nat
    BY DEF RebalancesAssumption
  <2>6. runs \in 0 .. MaxRuns
    BY DEF SweepInv, RunInv
  <2>7. BufferOf(size) \in Nat /\ size <= BufferOf(size)
    <3> HIDE DEF size
    <3> QED
      BY <2>2, BufferIsLarger
  <2>8. kept \in SUBSET Factors
    OBVIOUS
  <2> HIDE DEF size, kept
  <2> QED
    BY <2>2, <2>3, <2>4, <2>5, <2>6, <2>7, <2>8 DEF RunInv
<1>2. UNCHANGED <<snapshots, method, decisions>>
  BY DEF Run
<1> QED
  BY <1>1, <1>2 DEF SweepInv, CacheInv

LEMMA RebalanceStep ==
    ASSUME CompositesAssumption, RiskAssumption, RebalancesAssumption, SweepInv, Rebalance
    PROVE  SweepInv'
<1> DEFINE next == run.next
           size == run.size
           kept == run.kept
           held == run.held
<1>1. /\ next \in 1 .. RebalanceSessions /\ size \in Nat /\ run.buffer = BufferOf(size)
      /\ kept \in SUBSET Factors /\ kept # {} /\ held \in SUBSET Instruments
      /\ method \in Methods
  BY DEF SweepInv, RunInv, CacheInv, Rebalance
<1>2. PICK components \in Components(next), metrics \in RiskMetrics :
        LET d == Decided(method, next, components, size, kept, held, metrics)
        IN  /\ snapshots' = [s \in DOMAIN snapshots \cup {next} |->
                               IF s = next THEN components ELSE snapshots[s]]
            /\ decisions' = decisions \cup {d}
            /\ \E h \in Outcomes(held, DOMAIN d.target) :
                 run' = IF next = RebalanceSessions THEN NoRun
                        ELSE [run EXCEPT !.next = @ + 1, !.held = h]
  BY <1>1 DEF Rebalance, Decided
<1> DEFINE d == Decided(method, next, components, size, kept, held, metrics)
<1>3. method' = method /\ runs' = runs
  BY DEF Rebalance
<1>4. /\ DOMAIN snapshots \subseteq DOMAIN snapshots'
      /\ \A s \in DOMAIN snapshots : snapshots'[s] = snapshots[s]
      /\ next \in DOMAIN snapshots' /\ snapshots'[next] = components
  BY <1>2 DEF Components
<1>5. CacheInv'
  <2>1. components \in Snapshots
    BY DEF Components, SweepInv, CacheInv
  <2>2. DOMAIN snapshots' = DOMAIN snapshots \cup {next} /\ next \in Sessions
    BY <1>1, <1>2 DEF Sessions
  <2> HIDE DEF next
  <2> QED
    BY <1>3, <1>4, <2>1, <2>2 DEF SweepInv, CacheInv
<1>6. ASSUME NEW e \in decisions PROVE IsDecision(e, snapshots', method')
  <2>1. IsDecision(e, snapshots, method)
    BY <1>6 DEF SweepInv
  <2> QED
    BY <1>3, <1>4, <2>1 DEF IsDecision
<1>7. IsDecision(d, snapshots', method')
  <2> HIDE DEF next, size, kept, held
  <2> QED
    BY <1>1, <1>3, <1>4 DEF IsDecision
<1>8. DOMAIN d.target \subseteq Instruments
  <2> DEFINE raw == Construct(Combine(components, kept), held, size, BufferOf(size), method, metrics)
  <2>1. d.target = Apply(raw).target
    BY DEF Decided
  <2>2. DOMAIN raw \subseteq Instruments
    <3> HIDE DEF size, kept, held
    <3>1. IsPortfolio(Ranks(Combine(components, kept)),
                      Select(Ranks(Combine(components, kept)), held, size, BufferOf(size)),
                      raw, method, metrics)
      BY <1>1, PortfolioIsABook
    <3> HIDE DEF raw
    <3> QED
      BY <3>1 DEF IsPortfolio
  <2> HIDE DEF raw, d
  <2> QED
    BY <2>1, <2>2, ApplyKeepsNames
<1>9. RunInv'
  <2>1. PICK h \in Outcomes(held, DOMAIN d.target) :
          run' = IF next = RebalanceSessions THEN NoRun
                 ELSE [run EXCEPT !.next = @ + 1, !.held = h]
    BY <1>2
  <2>2. h \subseteq Instruments
    BY <1>1, <1>8 DEF Outcomes
  <2>3. CASE next = RebalanceSessions
    BY <1>1, <1>3, <2>1, <2>3 DEF SweepInv, RunInv, NoRun
  <2>4. CASE next # RebalanceSessions
    <3> HIDE DEF d
    <3>1. run' = [run EXCEPT !.next = run.next + 1, !.held = h]
      BY <2>1, <2>4
    <3>2. /\ run \in [size : Nat, buffer : Nat, kept : SUBSET Factors,
                      next : 0 .. RebalanceSessions, held : SUBSET Instruments]
          /\ run.size <= run.buffer /\ runs \in 0 .. MaxRuns
      BY DEF SweepInv, RunInv
    <3>3. run.next + 1 \in 0 .. RebalanceSessions
      BY <1>1, <2>4
    <3>4. /\ run'.size = size /\ run'.buffer = run.buffer /\ run'.kept = kept
          /\ run' \in [size : Nat, buffer : Nat, kept : SUBSET Factors,
                       next : 0 .. RebalanceSessions, held : SUBSET Instruments]
      BY <2>2, <3>1, <3>2, <3>3
    <3> QED
      BY <1>1, <1>3, <3>2, <3>4 DEF RunInv
  <2> QED
    BY <2>3, <2>4
<1>10. decisions' = decisions \cup {d}
  BY <1>2
<1> HIDE DEF d
<1> QED
  BY <1>5, <1>6, <1>7, <1>9, <1>10 DEF SweepInv

LEMMA SweepStep == SweepInv /\ [SweepNext]_sweepVars => SweepInv'
<1> SUFFICES ASSUME SweepInv, [SweepNext]_sweepVars PROVE SweepInv'
  OBVIOUS
<1>1. ASSUME NEW variant \in AskedVariants, Run(variant) PROVE SweepInv'
  BY <1>1, StartStep, RebalancesAssumption
<1>2. CASE Rebalance
  BY <1>2, RebalanceStep, CompositesAssumption, RiskAssumption, RebalancesAssumption
<1>3. CASE UNCHANGED sweepVars
  BY <1>3 DEF sweepVars, SweepInv, RunInv, CacheInv
<1> QED
  BY <1>1, <1>2, <1>3 DEF SweepNext

(* Every decision is made of the cached snapshots of its session, whatever *)
(* run it belongs to.                                                      *)
THEOREM SweepInvariance == SweepSpec => []SweepInv
<1> QED
  BY InitSweep, SweepStep, PTL DEF SweepSpec

LEMMA DecisionDependsOn ==
    ASSUME SweepInv, NEW d \in decisions
    PROVE  /\ d = Decided(method, d.session, snapshots[d.session], d.size, d.kept, d.held, d.metrics)
           /\ d.ranks = Ranks(Combine(snapshots[d.session], d.kept))
<1>1. PICK session \in DOMAIN snapshots, size \in Nat, kept \in SUBSET Factors,
           held \in SUBSET Instruments, metrics \in RiskMetrics :
        d = Decided(method, session, snapshots[session], size, kept, held, metrics)
  BY DEF SweepInv, IsDecision
<1>2. /\ d.session = session /\ d.size = size /\ d.kept = kept /\ d.held = held
      /\ d.metrics = metrics /\ d.ranks = Ranks(Combine(snapshots[session], kept))
  BY <1>1 DEF Decided
<1> QED
  BY <1>1, <1>2

LEMMA SharedSignalFollows == SweepInv => VariantsShareTheSignal
<1> SUFFICES ASSUME SweepInv, NEW d \in decisions, NEW e \in decisions,
                    d.session = e.session, d.kept = e.kept
             PROVE  /\ d.ranks = e.ranks
                    /\ (d.size = e.size /\ d.held = e.held /\ d.metrics = e.metrics) => d = e
  BY DEF VariantsShareTheSignal
<1> QED
  BY DecisionDependsOn

(* Two runs that come to one session with the same holdings and the same   *)
(* assumptions decide the same: PreparedBacktest reuses the snapshots it   *)
(* computed, and a decision is a function of them (backtests.py:62-89).    *)
THEOREM SignalIsShared == SweepSpec => []VariantsShareTheSignal
BY SweepInvariance, SharedSignalFollows, PTL

LEMMA BufferFollows == SweepInv => SelectionFollowsBuffer
<1> SUFFICES ASSUME SweepInv, NEW d \in decisions
             PROVE  FollowsBuffer(d.ranks, d.held, d.size, d.buffer, DOMAIN d.raw)
  BY DEF SelectionFollowsBuffer, FollowsBuffer
<1>1. PICK session \in DOMAIN snapshots, size \in Nat, kept \in SUBSET Factors,
           held \in SUBSET Instruments, metrics \in RiskMetrics :
        kept # {} /\ d = Decided(method, session, snapshots[session], size, kept, held, metrics)
  BY DEF SweepInv, IsDecision
<1> DEFINE scores == Combine(snapshots[session], kept)
           ranks == Ranks(scores)
           raw == Construct(scores, held, size, BufferOf(size), method, metrics)
<1>2. /\ d.ranks = ranks /\ d.held = held /\ d.size = size /\ d.buffer = BufferOf(size)
      /\ d.raw = raw
  BY <1>1 DEF Decided
<1>3. IsPortfolio(ranks, Select(ranks, held, size, BufferOf(size)), raw, method, metrics)
  BY <1>1, PortfolioIsABook, CompositesAssumption
<1> HIDE DEF ranks, raw
<1>4. FollowsBuffer(ranks, held, size, BufferOf(size), Select(ranks, held, size, BufferOf(size)))
  BY <1>3, SelectsByBuffer DEF IsPortfolio
<1> QED
  BY <1>2, <1>3, <1>4 DEF IsPortfolio

(* The two passes of TopKBufferSelector.select give the seats to the names *)
(* the buffer rule promises, for any scores, ties, holdings, target sizes  *)
(* and buffers (portfolio/selection.py:53-110).                            *)
THEOREM SelectionIsBuffered == SweepSpec => []SelectionFollowsBuffer
BY SweepInvariance, BufferFollows, PTL

(* What is right of the weights of one decision.                           *)
SoundWeights(raw, status, target) ==
    /\ raw # <<>> /\ (\A i \in DOMAIN raw : MaxNameWeight = 0 \/ raw[i] < MaxNameWeight)
          => Total(raw, DOMAIN raw) = Scale - CashBuffer
    /\ status # "reject" /\ WithinCaps(target, raw)
    /\ DOMAIN raw \subseteq Instruments /\ \A i \in DOMAIN raw : raw[i] \in 0 .. Scale

LEMMA BooksAreSound ==
    ASSUME ConstructorAssumption, CompositesAssumption, RiskAssumption, RebalancesAssumption,
           DustIsCovered, AlwaysSettles,
           NEW m \in Methods, NEW S \in SUBSET Instruments, NEW top \in S, NEW metrics \in RiskMetrics
    PROVE  LET raw == Targeted(Weights(m, S, top, metrics))
           IN  SoundWeights(raw, Apply(raw).status, Apply(raw).target)
<1> DEFINE w == Weights(m, S, top, metrics)
           raw == Targeted(w)
<1>1. IsFiniteSet(S)
  BY FS_Subset DEF CompositesAssumption
<1>2. w \in Books
  <2> DEFINE B == {Weights(m, S, t, metrics) : t \in S}
  <2>1. w \in B
    OBVIOUS
  <2>2. B \in {{Weights(a, T, t, b) : t \in T} :
                  a \in Methods, T \in SUBSET Instruments, b \in RiskMetrics}
    OBVIOUS
  <2> HIDE DEF B, w
  <2> QED
    BY <2>1, <2>2 DEF Books
<1>3. w = [i \in S |-> w[i]] /\ (\A i \in S : w[i] \in Int) /\ Total(w, S) = Scale - CashBuffer
  <2>1. \A i \in DOMAIN metrics : metrics[i] \in Nat
    BY DEF RebalancesAssumption
  <2> QED
    BY <1>1, <2>1, BooksAreWhole
<1> HIDE DEF w
<1>4. \A i \in S : w[i] \in Nat
  BY <1>2, <1>3 DEF DustIsCovered
<1>5. MaxNameWeight \in Nat /\ CashBuffer \in Nat /\ Scale \in Nat /\ CashBuffer <= Scale
  BY DEF ConstructorAssumption
<1>6. /\ raw \in [S -> Nat]
      /\ \A i \in S : raw[i] <= w[i]
      /\ \A i \in S : MaxNameWeight = 0 \/ raw[i] < MaxNameWeight => raw[i] = w[i]
  BY <1>3, <1>4, <1>5 DEF Targeted, Capped
<1>7. Apply(raw).status # "reject"
  BY <1>2 DEF AlwaysSettles
<1> HIDE DEF raw
<1>8. WithinCaps(Apply(raw).target, raw)
  BY <1>1, <1>6, <1>7, ApplyCaps
<1>9. ASSUME \A i \in S : MaxNameWeight = 0 \/ raw[i] < MaxNameWeight
      PROVE  Total(raw, S) = Scale - CashBuffer
  <2>1. \A i \in S : raw[i] \in Int /\ raw[i] = w[i]
    BY <1>6, <1>9
  <2>2. Total(raw, S) = Total(w, S)
    BY <1>1, <2>1, TotalCongruence
  <2> QED
    BY <1>3, <2>2
<1>10. \A i \in S : raw[i] \in 0 .. Scale
  <2>1. \A i \in S : w[i] <= Total(w, S)
    BY <1>1, <1>4, TotalOfNats
  <2> QED
    BY <1>3, <1>4, <1>5, <1>6, <2>1
<1> QED
  BY <1>6, <1>7, <1>8, <1>9, <1>10 DEF SoundWeights, raw, w

LEMMA DecisionIsSound ==
    ASSUME SweepInv, DustIsCovered, AlwaysSettles, NEW d \in decisions
    PROVE  SoundWeights(d.raw, d.status, d.target)
<1>1. PICK session \in DOMAIN snapshots, size \in Nat, kept \in SUBSET Factors,
           held \in SUBSET Instruments, metrics \in RiskMetrics :
        kept # {} /\ d = Decided(method, session, snapshots[session], size, kept, held, metrics)
  BY DEF SweepInv, IsDecision
<1> DEFINE scores == Combine(snapshots[session], kept)
           selected == Select(Ranks(scores), held, size, BufferOf(size))
           raw == Construct(scores, held, size, BufferOf(size), method, metrics)
<1>2. d.raw = raw /\ d.status = Apply(raw).status /\ d.target = Apply(raw).target
  BY <1>1 DEF Decided
<1>3. IsPortfolio(Ranks(scores), selected, raw, method, metrics)
  BY <1>1, PortfolioIsABook, CompositesAssumption
<1> HIDE DEF raw, selected
<1>4. method \in Methods
  BY DEF SweepInv, CacheInv
<1>5. CASE selected = {}
  <2>1. raw = <<>> /\ DOMAIN raw = {}
    BY <1>3, <1>5 DEF IsPortfolio
  <2>2. Apply(raw) = [status |-> "pass", target |-> raw]
    BY <2>1, ApplyIsDecision DEF DecisionAfter
  <2>3. Total(raw, {}) = 0 /\ Cardinality({}) = 0
    BY TotalFacts, FS_EmptySet
  <2>4. MaxAllowed \in Nat
    BY RiskAssumption DEF RiskAssumption, MaxAllowed
  <2>5. WithinCaps(raw, raw)
    BY <2>1, <2>3, <2>4 DEF WithinCaps
  <2> QED
    BY <1>2, <2>1, <2>2, <2>5 DEF SoundWeights
<1>6. CASE selected # {}
  <2>1. PICK top \in selected : raw = Targeted(Weights(method, selected, top, metrics))
    BY <1>3, <1>6 DEF IsPortfolio
  <2>2. selected \in SUBSET Instruments
    BY <1>3 DEF IsPortfolio
  <2>3. SoundWeights(raw, Apply(raw).status, Apply(raw).target)
    BY <1>4, <2>2, <2>1, BooksAreSound, ConstructorAssumption, CompositesAssumption,
       RiskAssumption, RebalancesAssumption
  <2> QED
    BY <1>2, <2>3
<1> QED
  BY <1>5, <1>6

LEMMA WeightsFollow ==
    ASSUME DustIsCovered, AlwaysSettles
    PROVE  SweepInv => WeightsAreSound /\ SweepTypeOK
<1> SUFFICES ASSUME SweepInv PROVE WeightsAreSound /\ SweepTypeOK
  OBVIOUS
<1>1. \A d \in decisions : SoundWeights(d.raw, d.status, d.target)
  BY DecisionIsSound
<1>2. WeightsAreSound
  BY <1>1 DEF WeightsAreSound, SoundWeights, WithinCaps
<1>3. ASSUME NEW d \in decisions
      PROVE  /\ d.target \in WeightsOf(DOMAIN d.target)
             /\ DOMAIN d.target \subseteq DOMAIN d.raw
             /\ DOMAIN d.raw \subseteq Instruments
  <2>1. SoundWeights(d.raw, d.status, d.target)
    BY <1>1
  <2> DEFINE raw == d.raw
             target == d.target
  <2> HIDE DEF raw, target
  <2>2. /\ target = [i \in DOMAIN target |-> target[i]] /\ DOMAIN target \subseteq DOMAIN raw
        /\ DOMAIN raw \subseteq Instruments
        /\ \A i \in DOMAIN target : /\ target[i] \in Nat \ {0} /\ target[i] <= raw[i]
                                     /\ raw[i] \in 0 .. Scale
    BY <2>1 DEF SoundWeights, WithinCaps, raw, target
  <2>3. \A i \in DOMAIN target : target[i] \in 1 .. Scale
    <3>1. Scale \in Nat
      BY ConstructorAssumption DEF ConstructorAssumption
    <3> QED
      BY <2>2, <3>1
  <2> QED
    BY <2>2, <2>3 DEF WeightsOf, raw, target
<1>4. SweepTypeOK
  BY <1>3 DEF SweepTypeOK, SweepInv, RunInv, CacheInv
<1> QED
  BY <1>2, <1>4

(* From the scores to the orders no weight is lost or raised, and no name, *)
(* sector or book is above its cap by more than rounding (weighting.py,    *)
(* construction.py, risk.py).  The weighting gives the whole book whatever *)
(* the volatilities.  A pass of RiskEngine.apply means that nothing was    *)
(* left to adjust; that it comes within the rounds allowed is assumed of   *)
(* the books, as is that the best ranked name can bear the difference the  *)
(* rounding left: both speak of the constants alone.                       *)
THEOREM WeightsSound ==
    ASSUME DustIsCovered, AlwaysSettles
    PROVE  SweepSpec => []WeightsAreSound
<1>1. SweepInv => WeightsAreSound
  BY WeightsFollow
<1> QED
  BY <1>1, SweepInvariance, PTL

(* Types of a sweep: the cache holds what the calculators may answer, and  *)
(* a target gives each of its names a weight above zero and at most one    *)
(* (RiskEngine.apply drops the others, portfolio/risk.py:106-116).         *)
THEOREM SweepTypes ==
    ASSUME DustIsCovered, AlwaysSettles
    PROVE  SweepSpec => []SweepTypeOK
<1>1. SweepInv => SweepTypeOK
  BY WeightsFollow
<1> QED
  BY <1>1, SweepInvariance, PTL
=============================================================================
