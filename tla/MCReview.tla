------------------------------ MODULE MCReview ------------------------------
(* Instances of Review for TLC: which documents, threads and invoice numbers  *)
(* are interchangeable.                                                       *)
EXTENDS Review, TLC

Symmetry == Permutations(Worker) \union Permutations(Request)
              \union Permutations(Doc) \union Permutations(Number)
=============================================================================
