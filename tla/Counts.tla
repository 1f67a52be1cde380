------------------------------- MODULE Counts -------------------------------
(***************************************************************************)
(* What the proofs need to know of finite sets.  They assume it, and show  *)
(* it in the end from FiniteSetTheorems: with the library's theorems at    *)
(* hand from the start, every step would take several times as long.       *)
(***************************************************************************)
EXTENDS Integers, FiniteSets

FiniteSetFacts ==
  /\ \A S : IsFiniteSet(S) => Cardinality(S) \in Nat
  /\ IsFiniteSet({}) /\ Cardinality({}) = 0
  /\ \A n \in Nat : IsFiniteSet(1..n)
  /\ \A S, x : IsFiniteSet(S) =>
       /\ IsFiniteSet(S \cup {x})
       /\ Cardinality(S \cup {x}) = IF x \in S THEN Cardinality(S) ELSE Cardinality(S) + 1
       /\ Cardinality(S \ {x}) = IF x \in S THEN Cardinality(S) - 1 ELSE Cardinality(S)
  /\ \A S : \A T \in SUBSET S : IsFiniteSet(S) =>
       IsFiniteSet(T) /\ Cardinality(T) <= Cardinality(S)
  /\ \A T \in SUBSET Nat : IsFiniteSet(T) => Cardinality({n + 1 : n \in T}) = Cardinality(T)

(* A finite set has as many members as a sequence of some of them, without   *)
(* repetition, is long, or more.                                             *)
OneEach ==
  \A S : \A n \in Nat : \A f \in [1..n -> S] :
    IsFiniteSet(S) /\ (\A i, j \in 1..n : f[i] = f[j] => i = j) => n <= Cardinality(S)

=============================================================================
