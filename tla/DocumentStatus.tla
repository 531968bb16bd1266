--------------------------- MODULE DocumentStatus ---------------------------
(***************************************************************************)
(* The persisted lifecycle of a document: the statuses of DocumentStatus   *)
(* and the table ALLOWED_TRANSITIONS that require_transition consults.     *)
(* "absent" stands for a document that has no row yet.                     *)
(***************************************************************************)

Status == {"uploaded", "queued", "processing", "extracted", "needs_review",
           "approved", "rejected", "failed", "exported", "cancelled"}

Absent == "absent"

AllowedTransitions ==
  {"uploaded"}     \X {"queued"}                           \union
  {"queued"}       \X {"processing", "cancelled"}          \union
  {"processing"}   \X {"queued", "extracted", "failed"}    \union
  {"extracted"}    \X {"queued", "approved", "needs_review", "failed"} \union
  {"needs_review"} \X {"queued", "approved", "rejected"}   \union
  {"approved"}     \X {"exported"}                         \union
  {"failed"}       \X {"queued", "cancelled"}              \union
  {"cancelled"}    \X {"queued"}

CanTransition(current, target) == <<current, target>> \in AllowedTransitions

\* Where a sequence of allowed transitions made in one transaction can lead.
\* An upload commits uploaded -> queued; a result commits
\* processing -> extracted -> needs_review.
CanReachInOneCommit(current, target) ==
  \/ CanTransition(current, target)
  \/ \E mid \in Status : CanTransition(current, mid) /\ CanTransition(mid, target)
=============================================================================
