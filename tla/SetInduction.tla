---------------------------- MODULE SetInduction ----------------------------
(***************************************************************************)
(* Induction without an operator parameter: what is shown of all numbers,  *)
(* or of all finite sets, is shown of the members of a SET of numbers or   *)
(* sets.  It rests on the strict subset ordering of the finite subsets of  *)
(* a set being well founded (FS_StrictSubsetOrderingWellFounded).          *)
(***************************************************************************)
EXTENDS FiniteSetTheorems, TLAPS

(* A nonempty set of natural numbers has a least member. *)
LEMMA LeastNatural ==
  ASSUME NEW S \in SUBSET Nat, S # {}
  PROVE  \E m \in S : \A n \in S : m <= n
  <1> DEFINE D == {0..n : n \in S}
  <1>1. D \subseteq FiniteSubsetsOf(Nat) /\ D # {}
    <2>1. \A n \in S : 0..n \in SUBSET Nat /\ IsFiniteSet(0..n)
      BY FS_Interval
    <2> QED
      BY <2>1 DEF FiniteSubsetsOf
  <1>2. \E x \in D : \A y \in D : <<y, x>> \notin StrictSubsetOrdering(Nat)
    <2> HIDE DEF D
    <2> QED
      BY <1>1, WFMin, FS_StrictSubsetOrderingWellFounded
  <1>3. PICK m \in S : \A n \in S : <<0..n, 0..m>> \notin StrictSubsetOrdering(Nat)
    BY <1>2
  <1>4. ASSUME NEW n \in S, n < m PROVE FALSE
    <2>1. 0..n \subseteq 0..m /\ m \in 0..m /\ m \notin 0..n
      BY <1>4
    <2>2. <<0..n, 0..m>> \in StrictSubsetOrdering(Nat)
      BY <2>1 DEF StrictSubsetOrdering
    <2> QED
      BY <1>3, <2>2
  <1> QED
    BY <1>4

(* A set that holds 0, and with a number the next one, holds them all. *)
LEMMA NatInSet ==
  ASSUME NEW S, 0 \in S, \A n \in Nat : n \in S => n + 1 \in S
  PROVE  Nat \subseteq S
  <1> SUFFICES ASSUME Nat \ S # {} PROVE FALSE
    OBVIOUS
  <1>1. PICK m \in Nat \ S : \A n \in Nat \ S : m <= n
    BY LeastNatural
  <1>2. m # 0 /\ m - 1 \in Nat
    BY <1>1
  <1>3. m - 1 \in S
    BY <1>1, <1>2
  <1> QED
    BY <1>1, <1>2, <1>3

(* A family that holds {}, and with a part of the finite set S every part with
   one more member, holds S. *)
LEMMA FiniteInSet ==
  ASSUME NEW S, IsFiniteSet(S), NEW F, {} \in F,
         \A T \in SUBSET S, x \in S : T \in F => T \cup {x} \in F
  PROVE  S \in F
  <1> DEFINE D == {n \in Nat : \A T \in SUBSET S : IsFiniteSet(T) /\ Cardinality(T) = n => T \in F}
  <1>1. 0 \in D
    BY FS_EmptySet
  <1>2. ASSUME NEW n \in Nat, n \in D PROVE n + 1 \in D
    <2> SUFFICES ASSUME NEW T \in SUBSET S, IsFiniteSet(T), Cardinality(T) = n + 1
                 PROVE  T \in F
      BY <1>2
    <2>1. \E x : x \in T
      BY FS_EmptySet
    <2> PICK x : x \in T
      BY <2>1
    <2>2. IsFiniteSet(T \ {x}) /\ Cardinality(T \ {x}) = n
      <3>1. /\ IsFiniteSet(T \ {x})
            /\ Cardinality(T \ {x}) = IF x \in T THEN Cardinality(T) - 1 ELSE Cardinality(T)
        BY FS_RemoveElement, Zenon
      <3> QED
        BY <3>1
    <2>3. T \ {x} \in F
      BY <1>2, <2>2
    <2>4. T = (T \ {x}) \cup {x} /\ x \in S /\ T \ {x} \in SUBSET S
      OBVIOUS
    <2> QED
      BY <2>3, <2>4
  <1>3. Nat \subseteq D
    <2> HIDE DEF D
    <2> QED
      BY <1>1, <1>2, NatInSet
  <1> QED
    BY <1>3, FS_CardinalityType
=============================================================================
