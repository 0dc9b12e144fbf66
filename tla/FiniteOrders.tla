----------------------------- MODULE FiniteOrders -----------------------------
(***************************************************************************)
(* Finite sets have a least element for whatever order they are in: the    *)
(* facts that the proofs about queues and about the order of claims need.  *)
(***************************************************************************)
EXTENDS FiniteSetTheorems, TLAPS

(* When those before y are among those before x whenever y is before x, somebody
   in the set has nobody before it. *)
LEMMA NestedSetsEnd ==
  ASSUME NEW S, S # {}, NEW before,
         \A x \in S : before[x] \subseteq S /\ IsFiniteSet(before[x]),
         \A x \in S : \A y \in before[x] : y \notin before[y] /\ before[y] \subseteq before[x]
  PROVE  \E x \in S : before[x] = {}
<1> DEFINE T == {before[x] : x \in S}
           R == StrictSubsetOrdering(S)
<1>1. T \subseteq FiniteSubsetsOf(S) /\ T # {}
  BY DEF FiniteSubsetsOf
<1>2. IsWellFoundedOn(R, FiniteSubsetsOf(S))
  BY FS_StrictSubsetOrderingWellFounded
<1>3. PICK m \in T : \A n \in T : ~ (<<n, m>> \in R)
  <2> HIDE DEF T, R
  <2> QED
    BY <1>1, <1>2, WFMin
<1>4. PICK x \in S : m = before[x]
  BY <1>3
<1>5. ASSUME NEW y \in before[x] PROVE FALSE
  <2>1. y \in S /\ y \in before[x] /\ y \notin before[y] /\ before[y] \subseteq before[x]
    BY <1>4
  <2>2. before[y] \in T /\ before[y] \in SUBSET S /\ before[x] \in SUBSET S
    BY <1>4, <2>1
  <2>3. <<before[y], m>> \in R
    BY <1>4, <2>1, <2>2 DEF StrictSubsetOrdering
  <2> QED
    BY <1>3, <2>2, <2>3
<1> QED
  BY <1>4, <1>5

(* A finite set has a least element in every strict order. *)
LEMMA FiniteOrderHasLeast ==
  ASSUME NEW S, S # {}, IsFiniteSet(S), NEW R,
         \A x \in S : <<x, x>> \notin R,
         \A x, y, z \in S : <<x, y>> \in R /\ <<y, z>> \in R => <<x, z>> \in R
  PROVE  \E x \in S : \A y \in S : <<y, x>> \notin R
<1> DEFINE before == [x \in S |-> {y \in S : <<y, x>> \in R}]
<1>1. \A x \in S : before[x] = {y \in S : <<y, x>> \in R}
  OBVIOUS
<1>2. \A x \in S : before[x] \subseteq S /\ IsFiniteSet(before[x])
  <2> SUFFICES ASSUME NEW x \in S PROVE before[x] \subseteq S /\ IsFiniteSet(before[x])
    OBVIOUS
  <2>1. before[x] \in SUBSET S
    BY <1>1
  <2> QED
    BY <2>1, FS_Subset
<1>3. \A x \in S : \A y \in before[x] : y \notin before[y] /\ before[y] \subseteq before[x]
  BY <1>1
<1> HIDE DEF before
<1>4. PICK x \in S : before[x] = {}
  BY <1>2, <1>3, NestedSetsEnd
<1> QED
  BY <1>1, <1>4

=============================================================================
