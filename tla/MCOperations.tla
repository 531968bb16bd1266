---------------------------- MODULE MCOperations ----------------------------
(* Instances of Retention for TLC: two documents, one of which may have been   *)
(* approved before the behaviour begins.                                      *)
EXTENDS Retention, TLC

CONSTANTS d1, d2

ApprovedBefore(old) ==
  /\ blob = [d \in Doc |-> IF d \in old THEN "OK" ELSE NoFile] /\ cache = {}
  /\ row = [d \in Doc |-> IF d \in old THEN "approved" ELSE Absent]
  /\ born = IF old = {} THEN << >> ELSE <<d2>>
  /\ traces = [d \in Doc |-> IF d \in old THEN {"job"} ELSE {}]
  /\ notice = [d \in Doc |-> "none"] /\ links = [i \in Item |-> {}]
  /\ req = [t \in Thread |-> Idle]
  /\ purged = {} /\ late = {} /\ strays = {} /\ halved = {}

MCSpec == (\E old \in SUBSET {d2} : ApprovedBefore(old)) /\ [][Next]_vars

Symmetry == Permutations(Thread)
=============================================================================
