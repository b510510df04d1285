----------------------------- MODULE LeastNumber -----------------------------
(* A lemma of the proofs that look for the first of several things. *)
EXTENDS Naturals, TLAPS, WellFoundedInduction

(* A set of numbers that is not empty has a least one. *)
LEMMA HasMinimum ==
    ASSUME NEW S, S \subseteq Nat, S # {}
    PROVE  \E m \in S : \A k \in S : m <= k
  <1> DEFINE R == OpToRel(<, Nat)
  <1>1. IsWellFoundedOn(R, Nat)  BY NatLessThanWellFounded
  <1>2. \A k, m \in Nat : k < m => <<k, m>> \in R  BY DEF OpToRel
  <1> HIDE DEF R
  <1>3. PICK m \in S : \A k \in S : ~(<<k, m>> \in R)  BY <1>1, WFMin
  <1>4. \A k \in S : ~(k < m)  BY <1>2, <1>3
  <1> QED  BY <1>4
=============================================================================
