---------------------------- MODULE MCDelivery ----------------------------
(* Instances of Delivery for TLC: a document with a key of its own.           *)
EXTENDS Delivery, TLC

CONSTANTS d1, k1

OwnKey == d1 :> {k1}

Symmetry == Permutations(Thread)
=============================================================================
