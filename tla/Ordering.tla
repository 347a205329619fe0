------------------------------ MODULE Ordering ------------------------------
(***************************************************************************)
(* Array.sort and Array.slice. An order of a finite set is given by what   *)
(* is ahead of each of its members: an element's place is the number of    *)
(* those.                                                                  *)
(***************************************************************************)
EXTENDS Integers, FiniteSets, Sequences

\* The members of the domain of ahead, each after those that are ahead of it.
InOrder(ahead) ==
  [n \in 1 .. Cardinality(DOMAIN ahead) |->
     CHOOSE x \in DOMAIN ahead : Cardinality(ahead[x]) = n - 1]

least(a, b) == IF a < b THEN a ELSE b

\* The first n elements.
slice(seq, n) == SubSeq(seq, 1, least(n, Len(seq)))

=============================================================================
