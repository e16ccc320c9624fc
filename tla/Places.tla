-------------------------------- MODULE Places --------------------------------
(***************************************************************************)
(* What Array.filter leaves of a list.  SelectSeq says it with a recursive *)
(* function, of which nothing can be proved here; this says it of the      *)
(* places that are left.                                                   *)
(***************************************************************************)
EXTENDS Naturals, FiniteSets

\* The k-th of the places I, and what stands at all of them in their order.
PlaceOf(I, k) == CHOOSE i \in I : Cardinality({j \in I : j <= i}) = k
AllAt(es, I)  == [k \in 1..Cardinality(I) |-> es[PlaceOf(I, k)]]

=============================================================================
