------------------------------ MODULE SeqFilter ------------------------------
(***************************************************************************)
(* retain of a Vec or a VecDeque, and the filters over them: what is left  *)
(* of a list keeps its order.  Said by positions, without recursion: the   *)
(* n-th element that is kept is the one with n - 1 kept ones before it.    *)
(***************************************************************************)
EXTENDS Naturals, Sequences, FiniteSets

Rank(at, i) == Cardinality({j \in at : j <= i})
Picked(seq, at) == [n \in 1..Cardinality(at) |-> seq[CHOOSE i \in at : Rank(at, i) = n]]

Kept(seq, S) == Picked(seq, {i \in DOMAIN seq : seq[i] \in S})
Without(seq, S) == Picked(seq, {i \in DOMAIN seq : seq[i] \notin S})
=============================================================================
