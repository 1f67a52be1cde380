------------------------------ MODULE Counting ------------------------------
(***************************************************************************)
(* What Counts says of finite sets holds.                                  *)
(***************************************************************************)
EXTENDS Counts, FiniteSetTheorems, TLAPS

(* Adding one to every member of a set of numbers keeps their number.        *)
LEMMA Shifted ==
  ASSUME NEW T \in SUBSET Nat, IsFiniteSet(T)
  PROVE  Cardinality({n + 1 : n \in T}) = Cardinality(T)
<1> DEFINE U == {n + 1 : n \in T}
           f == [n \in T |-> n + 1]
<1>1. f \in [T -> U]
  OBVIOUS
<1>2. \A m, n \in T : f[m] = f[n] => m = n
  OBVIOUS
<1>3. \A u \in U : \E n \in T : f[n] = u
  OBVIOUS
<1>4. f \in Bijection(T, U)
  BY <1>1, <1>2, <1>3 DEF Bijection, Injection, Surjection, IsInjective
<1>5. ExistsBijection(T, U)
  BY <1>4 DEF ExistsBijection
<1>6. QED
  BY <1>5, FS_Bijection

(* All of them                                                               *)
LEMMA FiniteSetFactsHold == FiniteSetFacts
<1>1. /\ \A S : IsFiniteSet(S) => Cardinality(S) \in Nat
      /\ IsFiniteSet({}) /\ Cardinality({}) = 0
  BY FS_CardinalityType, FS_EmptySet
<1>2. \A n \in Nat : IsFiniteSet(1..n)
  BY FS_Interval
<1>3. \A S, x : IsFiniteSet(S) =>
        /\ IsFiniteSet(S \cup {x})
        /\ Cardinality(S \cup {x}) = IF x \in S THEN Cardinality(S) ELSE Cardinality(S) + 1
  BY FS_AddElement
<1>4. \A S, x : IsFiniteSet(S) =>
        Cardinality(S \ {x}) = IF x \in S THEN Cardinality(S) - 1 ELSE Cardinality(S)
  BY FS_RemoveElement
<1>5. \A S : \A T \in SUBSET S : IsFiniteSet(S) =>
        IsFiniteSet(T) /\ Cardinality(T) <= Cardinality(S)
  BY FS_Subset
<1>6. QED
  BY <1>1, <1>2, <1>3, <1>4, <1>5, Shifted, Zenon DEF FiniteSetFacts

(* So does what it says of sequences.                                        *)
LEMMA OneEachHolds == OneEach
<1> SUFFICES ASSUME NEW S, NEW n \in Nat, NEW f \in [1..n -> S], IsFiniteSet(S),
                    \A i, j \in 1..n : f[i] = f[j] => i = j
             PROVE  n <= Cardinality(S)
  BY DEF OneEach
<1>1. f \in Injection(1..n, S)
  BY DEF Injection, IsInjective
<1>2. Cardinality(1..n) <= Cardinality(S)
  BY <1>1, FS_Injection
<1>3. Cardinality(1..n) = n
  BY FS_Interval
<1>4. QED
  BY <1>2, <1>3

=============================================================================
