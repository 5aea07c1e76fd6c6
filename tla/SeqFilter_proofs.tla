--------------------------- MODULE SeqFilter_proofs ---------------------------
(***************************************************************************)
(* What is left of a list: the elements it keeps, once each if they were,  *)
(* and no more of them than before; and the least of a set of naturals.    *)
(***************************************************************************)
EXTENDS SeqFilter, FiniteSetsExt, FiniteSetTheorems, FunctionTheorems,
        WellFoundedInduction, TLAPS

Elements(seq) == {seq[i] : i \in DOMAIN seq}
OnceEach(seq) == \A i, j \in DOMAIN seq : seq[i] = seq[j] => i = j

\* The ranks of a set of positions are 1, 2, ... in the order of the positions.
LEMMA Ranks ==
  ASSUME NEW n \in Nat, NEW at \in SUBSET (1..n)
  PROVE  /\ IsFiniteSet(at) /\ Cardinality(at) \in 0..n
         /\ \A i \in at : Rank(at, i) \in 1..Cardinality(at)
         /\ \A i, j \in at : i < j => Rank(at, i) < Rank(at, j)
         /\ \A k \in 1..Cardinality(at) : \E i \in at : Rank(at, i) = k
<1> DEFINE upTo(i) == {j \in at : j <= i}
<1>0. \A i \in at : i \in Nat OBVIOUS
<1>1. /\ IsFiniteSet(at) /\ Cardinality(at) \in Nat /\ Cardinality(at) <= n
  <2>1. IsFiniteSet(1..n) /\ Cardinality(1..n) = n BY FS_Interval
  <2> QED BY <2>1, FS_Subset, FS_CardinalityType
<1>2. ASSUME NEW i \in at
      PROVE  /\ IsFiniteSet(upTo(i))
             /\ Rank(at, i) \in Nat /\ Rank(at, i) \in 1..Cardinality(at)
  <2>1. /\ IsFiniteSet(upTo(i)) /\ Cardinality(upTo(i)) <= Cardinality(at)
        /\ Cardinality(upTo(i)) \in Nat
    BY <1>1, FS_Subset, FS_CardinalityType
  <2>2. i \in upTo(i) OBVIOUS
  <2>3. Cardinality(upTo(i)) # 0 BY <2>1, <2>2, FS_EmptySet
  <2> QED BY <1>1, <2>1, <2>3 DEF Rank
<1>3. ASSUME NEW i \in at, NEW j \in at, i < j PROVE Rank(at, i) < Rank(at, j)
  <2>0. i \in Nat /\ j \in Nat /\ \A m \in at : m \in Nat BY <1>0
  <2>1. upTo(i) \in SUBSET upTo(j) /\ j \in upTo(j) /\ j \notin upTo(i)
    <3>1. \A m \in at : m <= i => m <= j BY <2>0, <1>3
    <3>2. j <= j /\ ~(j <= i) BY <2>0, <1>3
    <3> QED BY <3>1, <3>2
  <2>2. Cardinality(upTo(i)) <= Cardinality(upTo(j)) /\ Cardinality(upTo(i)) # Cardinality(upTo(j))
    BY <2>1, <1>2, FS_Subset
  <2> QED BY <1>1, <1>2, <2>2 DEF Rank
<1>4. ASSUME NEW k \in 1..Cardinality(at) PROVE \E i \in at : Rank(at, i) = k
  <2> DEFINE K == 1..Cardinality(at)
             r == [i \in at |-> Rank(at, i)]
  <2>1. IsFiniteSet(K) /\ Cardinality(K) = Cardinality(at) BY <1>1, FS_Interval
  <2>2. r \in [at -> K] BY <1>2
  <2>3. \A i, j \in at : r[i] = r[j] => i = j
    <3> SUFFICES ASSUME NEW i \in at, NEW j \in at, Rank(at, i) = Rank(at, j) PROVE i = j OBVIOUS
    <3>1. Rank(at, i) \in Nat /\ ~(Rank(at, i) < Rank(at, j)) /\ ~(Rank(at, j) < Rank(at, i))
      <4>1. Rank(at, i) \in Nat BY <1>2
      <4> QED BY <4>1
    <3>2. ~(i < j) /\ ~(j < i) BY <3>1, <1>3
    <3> QED BY <3>2, <1>0
  <2>4. r \in Injection(at, K) BY <2>2, <2>3 DEF Injection, IsInjective
  <2>5. r \in Surjection(at, K) BY <2>1, <2>4, FS_Injection
  <2>6. PICK i \in at : r[i] = k BY <2>5 DEF Surjection
  <2> QED BY <2>6
<1>5. Cardinality(at) \in 0..n BY <1>1
<1> QED BY <1>1, <1>2, <1>3, <1>4, <1>5

\* The positions that Picked takes, in order.
LEMMA PickedIs ==
  ASSUME NEW T, NEW seq \in Seq(T), NEW at \in SUBSET DOMAIN seq
  PROVE  /\ Picked(seq, at) \in Seq(T)
         /\ Len(Picked(seq, at)) = Cardinality(at) /\ Cardinality(at) \in 0..Len(seq)
         /\ \E pos \in [1..Cardinality(at) -> at] :
              /\ \A i \in at : \E k \in 1..Cardinality(at) : pos[k] = i
              /\ \A k, l \in 1..Cardinality(at) : k < l => pos[k] < pos[l]
              /\ \A k \in 1..Cardinality(at) : Picked(seq, at)[k] = seq[pos[k]]
<1> DEFINE K == Cardinality(at)
           pos == [k \in 1..K |-> CHOOSE i \in at : Rank(at, i) = k]
<1>1. /\ Len(seq) \in Nat /\ at \in SUBSET (1..Len(seq)) /\ K \in 0..Len(seq)
      /\ \A i \in at : Rank(at, i) \in 1..K
      /\ \A i, j \in at : i < j => Rank(at, i) < Rank(at, j)
      /\ \A k \in 1..K : \E i \in at : Rank(at, i) = k
  <2>1. Len(seq) \in Nat /\ at \in SUBSET (1..Len(seq)) OBVIOUS
  <2> QED BY <2>1, Ranks
<1>2. \A k \in 1..K : pos[k] \in at /\ Rank(at, pos[k]) = k BY <1>1
<1>3. \A k \in 1..K : Picked(seq, at)[k] = seq[pos[k]] BY DEF Picked
<1>4. Picked(seq, at) \in Seq(T) /\ Len(Picked(seq, at)) = K
  <2>1. \A k \in 1..K : seq[pos[k]] \in T BY <1>1, <1>2
  <2>2. Picked(seq, at) \in [1..K -> T] BY <1>3, <2>1 DEF Picked
  <2> QED BY <1>1, <2>2
<1>5. \A i \in at : \E k \in 1..K : pos[k] = i
  <2> TAKE i \in at
  <2> DEFINE k == Rank(at, i)
  <2>1. k \in 1..K /\ pos[k] \in at /\ Rank(at, pos[k]) = Rank(at, i) BY <1>1, <1>2
  <2>2. \A j \in at : Rank(at, j) = Rank(at, i) => ~(j < i) /\ ~(i < j) BY <1>1
  <2>3. pos[k] = i BY <1>1, <2>1, <2>2
  <2> QED BY <2>1, <2>3
<1>6. \A k, l \in 1..K : k < l => pos[k] < pos[l]
  <2> SUFFICES ASSUME NEW k \in 1..K, NEW l \in 1..K, k < l, ~(pos[k] < pos[l]) PROVE FALSE OBVIOUS
  <2>1. pos[k] \in at /\ pos[l] \in at /\ Rank(at, pos[k]) = k /\ Rank(at, pos[l]) = l BY <1>2
  <2>2. pos[k] = pos[l] \/ pos[l] < pos[k] BY <2>1, <1>1
  <2> QED BY <2>1, <2>2, <1>1
<1>7. pos \in [1..K -> at] BY <1>2
<1> QED BY <1>1, <1>3, <1>4, <1>5, <1>6, <1>7

\* What Picked leaves is what was at the positions, once each if the list had it once.
LEMMA PickedLeaves ==
  ASSUME NEW T, NEW seq \in Seq(T), NEW at \in SUBSET DOMAIN seq
  PROVE  /\ Picked(seq, at) \in Seq(T) /\ Len(Picked(seq, at)) <= Len(seq)
         /\ Elements(Picked(seq, at)) = {seq[i] : i \in at}
         /\ OnceEach(seq) => OnceEach(Picked(seq, at))
<1> DEFINE K == Cardinality(at)
           out == Picked(seq, at)
<1>1. out \in Seq(T) /\ Len(out) = K /\ K \in 0..Len(seq) BY PickedIs
<1>2. PICK pos \in [1..K -> at] :
        /\ \A i \in at : \E k \in 1..K : pos[k] = i
        /\ \A k, l \in 1..K : k < l => pos[k] < pos[l]
        /\ \A k \in 1..K : out[k] = seq[pos[k]]
  BY PickedIs
<1> HIDE DEF out
<1>3. DOMAIN out = 1..K BY <1>1
<1>4. Elements(out) = {seq[i] : i \in at} BY <1>2, <1>3 DEF Elements
<1>5. ASSUME OnceEach(seq), NEW k \in DOMAIN out, NEW l \in DOMAIN out, out[k] = out[l] PROVE k = l
  <2>1. k \in 1..K /\ l \in 1..K /\ pos[k] = pos[l] BY <1>2, <1>3, <1>5 DEF OnceEach
  <2>2. pos[k] \in DOMAIN seq /\ DOMAIN seq \subseteq Nat BY <2>1
  <2>3. ~(k < l) /\ ~(l < k) BY <1>2, <2>1, <2>2
  <2> QED BY <1>1, <2>1, <2>3
<1>6. OnceEach(seq) => OnceEach(out) BY <1>5 DEF OnceEach
<1> QED BY <1>1, <1>4, <1>6 DEF out

(* Taking elements out of a sequence leaves exactly the others. *)
LEMMA WithoutLeaves ==
  ASSUME NEW T, NEW seq \in Seq(T), NEW S
  PROVE  /\ Without(seq, S) \in Seq(T) /\ Len(Without(seq, S)) <= Len(seq)
         /\ Elements(Without(seq, S)) = Elements(seq) \ S
         /\ OnceEach(seq) => OnceEach(Without(seq, S))
<1> DEFINE at == {i \in DOMAIN seq : seq[i] \notin S}
<1>1. {seq[i] : i \in at} = Elements(seq) \ S BY DEF Elements
<1> QED BY <1>1, PickedLeaves DEF Without

(* Keeping elements of a sequence leaves exactly those. *)
LEMMA KeptLeaves ==
  ASSUME NEW T, NEW seq \in Seq(T), NEW S
  PROVE  /\ Kept(seq, S) \in Seq(T) /\ Len(Kept(seq, S)) <= Len(seq)
         /\ Elements(Kept(seq, S)) = Elements(seq) \cap S
         /\ OnceEach(seq) => OnceEach(Kept(seq, S))
<1> DEFINE at == {i \in DOMAIN seq : seq[i] \in S}
<1>1. {seq[i] : i \in at} = Elements(seq) \cap S BY DEF Elements
<1> QED BY <1>1, PickedLeaves DEF Kept

(* Appending adds one element. *)
LEMMA AppendAdds ==
  ASSUME NEW T, NEW seq \in Seq(T), NEW x \in T
  PROVE  /\ Append(seq, x) \in Seq(T) /\ Len(Append(seq, x)) = Len(seq) + 1
         /\ Elements(Append(seq, x)) = Elements(seq) \cup {x}
         /\ OnceEach(seq) /\ x \notin Elements(seq) => OnceEach(Append(seq, x))
<1> DEFINE out == Append(seq, x)
<1>1. /\ out \in Seq(T) /\ Len(out) = Len(seq) + 1 /\ DOMAIN out = 1..(Len(seq) + 1)
      /\ DOMAIN seq = 1..Len(seq) /\ Len(seq) \in Nat
      /\ \A i \in 1..Len(seq) : out[i] = seq[i]
      /\ out[Len(seq) + 1] = x
  OBVIOUS
<1> HIDE DEF out
<1>2. DOMAIN out = DOMAIN seq \cup {Len(seq) + 1} BY <1>1
<1>3. Elements(out) = Elements(seq) \cup {x} BY <1>1, <1>2 DEF Elements
<1>4. ASSUME OnceEach(seq), x \notin Elements(seq) PROVE OnceEach(out)
  <2>1. \A i \in DOMAIN seq : seq[i] # x BY <1>4 DEF Elements
  <2> QED BY <1>1, <1>2, <1>4, <2>1 DEF OnceEach
<1> QED BY <1>1, <1>3, <1>4 DEF out

\* A list that has its elements once each is as long as they are many.
LEMMA OnceEachCounts ==
  ASSUME NEW T, NEW seq \in Seq(T)
  PROVE  /\ IsFiniteSet(Elements(seq)) /\ Cardinality(Elements(seq)) <= Len(seq)
         /\ OnceEach(seq) <=> Cardinality(Elements(seq)) = Len(seq)
<1>1. Len(seq) \in Nat /\ DOMAIN seq = 1..Len(seq) OBVIOUS
<1>2. IsFiniteSet(DOMAIN seq) /\ Cardinality(DOMAIN seq) = Len(seq) BY <1>1, FS_Interval
<1>3. seq \in [DOMAIN seq -> Elements(seq)] BY DEF Elements
<1>4. seq \in Surjection(DOMAIN seq, Elements(seq)) BY <1>3 DEF Surjection, Elements
<1>5. seq \in Injection(DOMAIN seq, Elements(seq)) <=> OnceEach(seq)
  BY <1>3 DEF Injection, IsInjective, OnceEach
<1> QED BY <1>2, <1>4, <1>5, FS_Surjection

(* The empty sequence has no elements. *)
LEMMA EmptyHasNone == Elements(<< >>) = {} /\ OnceEach(<< >>)
BY DEF Elements, OnceEach

\* A set of naturals that is not empty has a least one, which is what Min chooses.
LEMMA LeastOfNaturals ==
  ASSUME NEW S, S \subseteq Nat, S # {}
  PROVE Min(S) \in S /\ \A y \in S : Min(S) <= y
<1>1. PICK x \in S : \A y \in S : <<y, x>> \notin OpToRel(<, Nat)
  BY NatLessThanWellFounded, WFMin
<1>2. \A y \in S : ~(y < x)
  <2> SUFFICES ASSUME NEW y \in S, y < x PROVE FALSE OBVIOUS
  <2>1. <<y, x>> \in Nat \X Nat /\ <<y, x>>[1] = y /\ <<y, x>>[2] = x OBVIOUS
  <2>2. <<y, x>> \in OpToRel(<, Nat) BY <2>1, Zenon DEF OpToRel
  <2> QED BY <2>2, <1>1
<1>3. \A y \in S : x <= y BY <1>2
<1> QED BY <1>3 DEF Min
=============================================================================
