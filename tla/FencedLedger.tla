---------------------------- MODULE FencedLedger ----------------------------
(***************************************************************************)
(* What the job ledger promises its callers, with nothing of how: a job is *)
(* held under at most one lease, granting it again disowns the previous    *)
(* holder, and only the current holder records an outcome, once.           *)
(***************************************************************************)
EXTENDS Naturals

CONSTANTS Job, NoJob, MaxLeases, Results

Lease == 1..MaxLeases
NoLease == 0

\* What the theorems ask of the constants.
LedgerAssumption ==
  MaxLeases \in Nat /\ NoJob \notin Job /\ {"unissued", "open"} \intersect Results = {}

VARIABLES
  holder,  \* the lease that holds each job
  ledger,  \* the job and the outcome of every lease
  issued   \* leases are numbered in the order they are issued

vars == <<holder, ledger, issued>>

Init ==
  /\ holder = [j \in Job |-> NoLease]
  /\ ledger = [l \in Lease |-> [job |-> NoJob, outcome |-> "unissued"]]
  /\ issued = 0

Grant(j) ==
  /\ issued < MaxLeases
  /\ issued' = issued + 1
  /\ holder' = [holder EXCEPT ![j] = issued + 1]
  /\ ledger' = [ledger EXCEPT ![issued + 1] = [job |-> j, outcome |-> "open"]]

Commit(j, result) ==
  /\ holder[j] # NoLease
  /\ holder' = [holder EXCEPT ![j] = NoLease]
  /\ ledger' = [ledger EXCEPT ![holder[j]] = [job |-> j, outcome |-> result]]
  /\ UNCHANGED issued

Next == \E j \in Job : Grant(j) \/ \E result \in Results : Commit(j, result)

Spec == Init /\ [][Next]_vars

-----------------------------------------------------------------------------
TypeOK ==
  /\ holder \in [Job -> Lease \union {NoLease}]
  /\ ledger \in [Lease -> [job: Job \union {NoJob},
                           outcome: Results \union {"unissued", "open"}]]
  /\ issued \in 0..MaxLeases

\* The lease that holds a job is the newest issued for it and is still open.
HolderIsNewest ==
  \A j \in Job : holder[j] # NoLease =>
    /\ ledger[holder[j]] = [job |-> j, outcome |-> "open"]
    /\ \A m \in Lease : ledger[m].job = j => m <= holder[j]

\* Leases above the counter are the ones not issued yet.
IssuedInOrder ==
  \A l \in Lease : /\ l > issued <=> ledger[l].outcome = "unissued"
                   /\ l > issued <=> ledger[l].job = NoJob

\* The former holder of a job can no longer finalize it: an outcome is only
\* recorded for the newest lease of its job, and a recorded outcome stands.
FormerHoldersAreFenced ==
  [][\A l \in Lease :
       ledger'[l] # ledger[l] =>
         \/ ledger[l].outcome = "unissued"
         \/ /\ ledger[l].outcome = "open"
            /\ \A m \in Lease : ledger[m].job = ledger[l].job => m <= l]_ledger
=============================================================================
