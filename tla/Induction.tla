------------------------------ MODULE Induction ------------------------------
(***************************************************************************)
(* Induction over the naturals without operator parameters: the predicate  *)
(* is a set, and a set of naturals has a least element.                    *)
(***************************************************************************)
EXTENDS Integers, WellFoundedInduction, TLAPS

LEMMA LeastNatural ==
  ASSUME NEW T, T \subseteq Nat, T # {}
  PROVE  \E n \in T : \A m \in T : n <= m
<1> DEFINE R == OpToRel(<, Nat)
<1>1. IsWellFoundedOn(R, Nat) BY NatLessThanWellFounded, Zenon
<1>2. \A n, m \in Nat : n < m => <<n, m>> \in R BY DEF OpToRel
<1> HIDE DEF R
<1>3. PICK n \in T : \A m \in T : ~ (<<m, n>> \in R) BY <1>1, WFMin, Zenon
<1>4. \A m \in T : ~ (m < n) BY <1>2, <1>3, Zenon
<1> QED BY <1>4

LEMMA SetInduction ==
  ASSUME NEW T, 0 \in T, \A n \in Nat : n \in T => n + 1 \in T
  PROVE  Nat \subseteq T
<1> SUFFICES ASSUME Nat \ T # {} PROVE FALSE OBVIOUS
<1>1. PICK n \in Nat \ T : \A m \in Nat \ T : n <= m BY LeastNatural, Zenon
<1>2. n # 0 /\ n - 1 \in Nat /\ n = (n - 1) + 1 BY <1>1
<1>3. n - 1 \in T BY <1>1, <1>2
<1> QED BY <1>1, <1>2, <1>3

\* A set of naturals below a bound has a greatest element.
LEMMA GreatestNatural ==
  ASSUME NEW n \in Nat, NEW T, T \subseteq 0 .. n, T # {}
  PROVE  \E k \in T : \A m \in T : m <= k
<1> DEFINE U == {d \in Nat : n - d \in T}
<1>1. PICK t \in T : TRUE BY Zenon
<1>2. n - t \in U
  <2>1. t \in 0 .. n BY <1>1
  <2>2. n - t \in Nat /\ n - (n - t) = t BY <2>1
  <2> QED BY <2>2
<1>3. PICK d \in U : \A e \in U : d <= e
  <2>1. U \subseteq Nat /\ U # {} BY <1>2, Zenon
  <2> HIDE DEF U
  <2> QED BY <2>1, LeastNatural, Zenon
<1>4. ASSUME NEW m \in T PROVE m <= n - d
  <2>1. m \in 0 .. n OBVIOUS
  <2>2. n - m \in Nat /\ n - (n - m) = m BY <2>1
  <2>3. n - m \in U BY <2>2
  <2>4. d <= n - m BY <1>3, <2>3, Zenon
  <2> QED BY <2>1, <2>4
<1> QED BY <1>3, <1>4
=============================================================================
