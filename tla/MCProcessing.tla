---------------------------- MODULE MCProcessing ----------------------------
(* Instances of Processing for TLC: which workers and requests are            *)
(* interchangeable.                                                           *)
EXTENDS Processing, TLC

Symmetry == Permutations(Worker) \union Permutations(Request)
=============================================================================
