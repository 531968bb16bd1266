---------------------------- MODULE MCBackoffice ----------------------------
(* Instances of Backoffice for TLC: any two requests may be exchanged.        *)
EXTENDS Backoffice, TLC

Symmetry == Permutations(Request)
=============================================================================
