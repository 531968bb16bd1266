----------------------------- MODULE Backoffice -----------------------------
(***************************************************************************)
(* One backoffice work item and the controlled execution of its plans: an  *)
(* administrator plans, approves and executes, the export tool runs between *)
(* two transactions while a heartbeat renews the reservation, and an        *)
(* administrator reconciles what never reported back.                      *)
(***************************************************************************)
EXTENDS Naturals, DocumentStatus

CONSTANTS
  Request,         \* threads serving the API
  Serialized,      \* a transaction excludes all others (SQLite), or not (PostgreSQL)
  MaxPlans,        \* bound: plans made for the item
  MaxReservations, \* bound: executions reserved
  MaxCrashes       \* bound: requests whose process dies

PlanId == 1..MaxPlans
NoPlan == 0
Token   == 1..MaxReservations
NoToken == 0

ASSUME ConstantsAssumption ==
  /\ Serialized \in BOOLEAN
  /\ MaxPlans \in Nat /\ MaxReservations \in Nat /\ MaxCrashes \in Nat

VARIABLES
  item,      \* the work item row
  steps,     \* the status of the step of each plan that may be executed
  approvals, \* the approval requested for that step
  doc,       \* the status of the linked document
  stale,     \* execution_heartbeat_at is at least EXECUTION_LEASE_SECONDS ago
  threads,   \* where each request is, and the transaction it has open
  issued,    \* tokens are numbered in the order they are drawn
  calls,     \* history: how often the tool was called for each plan
  exporter,  \* history: the plan whose call exported the document, if one did
  raced,     \* history: plans reconciled while their call was still running
  crashes

vars == <<item, steps, approvals, doc, stale, threads, issued, calls, exporter, raced, crashes>>

-----------------------------------------------------------------------------
StepStatus == {"none", "planned", "blocked", "waiting_for_approval",
               "executing", "executed", "failed"}
Decisions  == {"approved", "rejected"}

\* plan: current_plan_id.  target: execution_plan_id and execution_step_id.
ItemRow == [status: {"classified", "planning", "awaiting_human", "executing",
                     "resolved", "failed"},
            outcome: {"none", "in_flight", "unknown", "confirmed_success",
                      "confirmed_failure"},
            plan: PlanId \union {NoPlan}, target: PlanId \union {NoPlan},
            token: Token \union {NoToken}]
NewItem == [status |-> "classified", outcome |-> "none", plan |-> NoPlan,
            target |-> NoPlan, token |-> NoToken]

\* What a transaction has read.
View == [item: ItemRow, steps: [PlanId -> StepStatus],
         approvals: [PlanId -> Decisions \union {"none", "pending"}], doc: Status]
Database == [item |-> item, steps |-> steps, approvals |-> approvals, doc |-> doc]
NoView == [item |-> NewItem, steps |-> [p \in PlanId |-> "none"],
           approvals |-> [p \in PlanId |-> "none"], doc |-> "processing"]

\* evidence: what planning_input_from_evidence found.  listed: the tool found the
\* document among the approved ones.  response: what the tool answered.
ThreadRow == [pc: {"idle", "plan", "reserved", "render", "finalize", "unknown"},
              open: BOOLEAN, view: View,
              evidence: {"none", "unapproved", "approved"},
              plan: PlanId \union {NoPlan}, token: Token \union {NoToken},
              listed: BOOLEAN, response: {"none", "success", "failed"}]
IdleThread == [pc |-> "idle", open |-> FALSE, view |-> NoView, evidence |-> "none",
               plan |-> NoPlan, token |-> NoToken, listed |-> FALSE, response |-> "none"]

Init ==
  /\ item = NewItem
  /\ steps = [p \in PlanId |-> "none"]
  /\ approvals = [p \in PlanId |-> "none"]
  /\ doc = "processing"
  /\ stale = FALSE
  /\ threads = [r \in Request |-> IdleThread]
  /\ issued = 0
  /\ calls = [p \in PlanId |-> 0]
  /\ exporter = NoPlan
  /\ raced = {}
  /\ crashes = 0

-----------------------------------------------------------------------------
(* Transactions.  SQLite takes one lock for a whole transaction; PostgreSQL  *)
(* at READ COMMITTED lets two of them read, then write, the same rows.       *)

LockFree == Serialized => \A q \in Request : ~threads[q].open

Open(r) ==
  /\ threads[r].pc \in {"idle", "plan", "render", "finalize", "unknown"}
  /\ ~threads[r].open
  /\ LockFree
  /\ threads' = [threads EXCEPT ![r].open = TRUE, ![r].view = Database]
  /\ UNCHANGED <<item, steps, approvals, doc, stale, issued, calls, exporter, raced, crashes>>

InTransaction(r, pc) == threads[r].pc = pc /\ threads[r].open

Finish(r) == threads' = [threads EXCEPT ![r] = IdleThread]

\* The request goes on to pc; a transaction it had open has ended.
GoTo(r, pc, response) ==
  threads' = [threads EXCEPT ![r].pc = pc, ![r].open = FALSE, ![r].view = NoView,
                             ![r].response = response]

\* A command that is refused, or a replay that returns what is stored: a plan for
\* its idempotency key, an executed step, a decision already taken.
EndUnchanged(r) ==
  /\ InTransaction(r, "idle") \/ InTransaction(r, "plan")
  /\ Finish(r)
  /\ UNCHANGED <<item, steps, approvals, doc, stale, issued, calls, exporter, raced, crashes>>

-----------------------------------------------------------------------------
(* Planning and approvals.                                                   *)

\* The evidence is read before the transaction that plans.
BeginPlan(r) ==
  /\ threads[r].pc = "idle" /\ ~threads[r].open
  /\ threads' = [threads EXCEPT ![r].pc = "plan",
       ![r].evidence = CASE doc \in {"approved", "exported"} -> "approved"
                         [] doc \in {"extracted", "needs_review"} -> "unapproved"
                         [] OTHER -> "none"]
  /\ UNCHANGED <<item, steps, approvals, doc, stale, issued, calls, exporter, raced, crashes>>

\* Mutant: an unknown outcome does not keep the item from being planned again.
PendingExecutionInFlight(row) == row.outcome = "in_flight"
\* Mutant: nor does a call that is running.
PendingExecutionUnknown(row) == row.outcome = "unknown"
PendingExecution(row) == row.outcome \in {"in_flight", "unknown"}

PlannedStatus(evidence) ==
  CASE evidence = "none"       -> "planned"
    [] evidence = "unapproved" -> "blocked"
    [] OTHER                   -> "waiting_for_approval"

CommitPlan(r) ==
  LET v == threads[r].view
      evidence == threads[r].evidence
  IN /\ InTransaction(r, "plan")
     /\ ~PendingExecution(v.item)
     /\ \E p \in PlanId :
          /\ steps[p] = "none"
          /\ \A q \in 1..(p - 1) : steps[q] # "none"
          /\ steps' = [steps EXCEPT ![p] = PlannedStatus(evidence)]
          /\ approvals' = [approvals EXCEPT ![p] = IF evidence = "none" THEN "none" ELSE "pending"]
          /\ item' = [v.item EXCEPT !.plan = p,
               !.status = IF evidence = "approved" THEN "planning" ELSE "awaiting_human"]
     /\ Finish(r)
     /\ UNCHANGED <<doc, stale, issued, calls, exporter, raced, crashes>>

\* Mutant: a decision may replace an earlier one.
OpenForAnyDecision(status) == status # "none"
OpenForDecision(status) == status = "pending"

Decide(r, p, decision) ==
  /\ InTransaction(r, "idle")
  /\ OpenForDecision(threads[r].view.approvals[p])
  /\ approvals' = [approvals EXCEPT ![p] = decision]
  /\ Finish(r)
  /\ UNCHANGED <<item, steps, doc, stale, issued, calls, exporter, raced, crashes>>

\* Correction requested or submitted, escalation, and changes of title, priority
\* or assignee: the whole row is read and saved.
EditItem(r) ==
  /\ InTransaction(r, "idle")
  /\ \E status \in {threads[r].view.item.status, "awaiting_human"} :
       item' = [threads[r].view.item EXCEPT !.status = status]
  /\ Finish(r)
  /\ UNCHANGED <<steps, approvals, doc, stale, issued, calls, exporter, raced, crashes>>

-----------------------------------------------------------------------------
(* Execution.                                                                *)

\* Mutant: a step whose execution is unknown may be tried again.
ExecutableAgain(v, p) ==
  v.steps[p] \in {"waiting_for_approval", "executing"} /\ v.approvals[p] = "approved"
  /\ v.doc = "approved"
\* Of the steps a plan may have, the export step alone has a tool.
Executable(v, p) ==
  /\ v.steps[p] = "waiting_for_approval"
  /\ v.approvals[p] = "approved"
  /\ v.doc = "approved"

Reserve(r) ==
  LET v == threads[r].view
      p == v.item.plan
  IN /\ InTransaction(r, "idle")
     /\ p # NoPlan
     /\ Executable(v, p)
     /\ issued < MaxReservations
     /\ issued' = issued + 1
     /\ steps' = [steps EXCEPT ![p] = "executing"]
     /\ item' = [v.item EXCEPT !.status = "executing", !.outcome = "in_flight",
                   !.target = p, !.token = issued + 1]
     /\ stale' = FALSE
     /\ threads' = [threads EXCEPT ![r] =
          [IdleThread EXCEPT !.pc = "reserved", !.plan = p, !.token = issued + 1]]
     /\ UNCHANGED <<approvals, doc, calls, exporter, raced, crashes>>

Called(r) == calls' = [calls EXCEPT ![threads[r].plan] = @ + 1]

\* The tool selects the approved documents ...
CallTool(r) ==
  /\ threads[r].pc = "reserved"
  /\ Called(r)
  /\ threads' = [threads EXCEPT ![r].pc = "render", ![r].listed = doc = "approved"]
  /\ UNCHANGED <<item, steps, approvals, doc, stale, issued, exporter, raced, crashes>>

\* ... or answers that it may not or cannot run.
ToolRefuses(r) ==
  /\ threads[r].pc = "reserved"
  /\ Called(r)
  /\ GoTo(r, "finalize", "failed")
  /\ UNCHANGED <<item, steps, approvals, doc, stale, issued, exporter, raced, crashes>>

\* Mutant: an exception is taken for a failure.
ExceptionMeansFailure(r) == GoTo(r, "finalize", "failed")
OutcomeUnknown(r) == GoTo(r, "unknown", "none")

\* Every selected document becomes exported; a selection of none is a success.
\* The answer of the database may be lost with the connection.
CommitTool(r) ==
  LET p == threads[r].plan
  IN /\ InTransaction(r, "render")
     /\ threads[r].listed => threads[r].view.doc = "approved"
     /\ IF threads[r].listed THEN doc' = "exported" /\ exporter' = p
                             ELSE UNCHANGED <<doc, exporter>>
     /\ GoTo(r, "finalize", "success") \/ OutcomeUnknown(r)
     /\ UNCHANGED <<item, steps, approvals, stale, issued, calls, raced, crashes>>

\* The document was exported meanwhile, or the database fails.
ToolRaises(r) ==
  /\ threads[r].pc = "render"
  /\ OutcomeUnknown(r)
  /\ UNCHANGED <<item, steps, approvals, doc, stale, issued, calls, exporter, raced, crashes>>

Matches(v, r) ==
  /\ v.steps[threads[r].plan] = "executing"
  /\ v.item.token = threads[r].token
  /\ v.item.target = threads[r].plan

\* The heartbeat thread's transaction, while the tool runs and, for a renewal that
\* stop() no longer waited for, after it.
Renew(r) ==
  /\ threads[r].pc \in {"reserved", "render", "finalize", "unknown"}
  /\ LockFree
  /\ item.outcome = "in_flight"
  /\ Matches(Database, r)
  /\ stale' = FALSE
  /\ UNCHANGED <<item, steps, approvals, doc, threads, issued, calls, exporter, raced, crashes>>

\* Step p of the work item is settled.
Settle(v, p, success) ==
  /\ steps' = [steps EXCEPT ![p] = IF success THEN "executed" ELSE "failed"]
  /\ item' = [v.item EXCEPT
       !.status = IF success THEN "resolved" ELSE "failed",
       !.outcome = IF success THEN "confirmed_success" ELSE "confirmed_failure"]

\* Mutant: the reservation is not compared.
FinalizeAnyway(r) ==
  /\ InTransaction(r, "finalize")
  /\ Settle(threads[r].view, threads[r].plan, threads[r].response = "success")
  /\ Finish(r)
  /\ UNCHANGED <<approvals, doc, stale, issued, calls, exporter, raced, crashes>>

Finalize(r) ==
  /\ InTransaction(r, "finalize")
  /\ IF Matches(threads[r].view, r)
     THEN Settle(threads[r].view, threads[r].plan, threads[r].response = "success")
     ELSE UNCHANGED <<item, steps>>
  /\ Finish(r)
  /\ UNCHANGED <<approvals, doc, stale, issued, calls, exporter, raced, crashes>>

\* The transaction that finalizes is rolled back.
FinalizeFails(r) ==
  /\ threads[r].pc = "finalize"
  /\ OutcomeUnknown(r)
  /\ UNCHANGED <<item, steps, approvals, doc, stale, issued, calls, exporter, raced, crashes>>

\* Mutant: the outcome is written over the status.
UnknownRowMisplaced(row) == [row EXCEPT !.status = "unknown"]
UnknownRow(row) == [row EXCEPT !.status = "awaiting_human", !.outcome = "unknown"]

MarkUnknown(r) ==
  /\ InTransaction(r, "unknown")
  /\ item' = IF Matches(threads[r].view, r) THEN UnknownRow(threads[r].view.item) ELSE item
  /\ Finish(r)
  /\ UNCHANGED <<steps, approvals, doc, stale, issued, calls, exporter, raced, crashes>>

\* So is the one that marks: the step stays executing.
MarkFails(r) ==
  /\ threads[r].pc = "unknown"
  /\ Finish(r)
  /\ UNCHANGED <<item, steps, approvals, doc, stale, issued, calls, exporter, raced, crashes>>

-----------------------------------------------------------------------------
(* Recovery.                                                                 *)

Reconcilable(row) ==
  row.outcome = "unknown" \/ (row.outcome = "in_flight" /\ stale)

\* A call of plan p is running.
Calling(p) ==
  \E q \in Request : threads[q].pc \in {"reserved", "render"} /\ threads[q].plan = p

\* The administrator reports whether the document has been exported.
Reconcile(r, p) ==
  LET v == threads[r].view
  IN /\ InTransaction(r, "idle")
     /\ v.steps[p] = "executing"
     /\ v.item.target = p
     /\ Reconcilable(v.item)
     /\ Settle(v, p, v.doc = "exported")
     /\ raced' = IF Calling(p) THEN raced \union {p} ELSE raced
     /\ Finish(r)
     /\ UNCHANGED <<approvals, doc, stale, issued, calls, exporter, crashes>>

HeartbeatGoesStale ==
  /\ item.outcome = "in_flight"
  /\ ~stale
  /\ stale' = TRUE
  /\ UNCHANGED <<item, steps, approvals, doc, threads, issued, calls, exporter, raced, crashes>>

Crash(r) ==
  /\ threads[r] # IdleThread
  /\ crashes < MaxCrashes
  /\ crashes' = crashes + 1
  /\ Finish(r)
  /\ UNCHANGED <<item, steps, approvals, doc, stale, issued, calls, exporter, raced>>

\* The document is processed, reviewed, or exported in another way.
DocumentMoves ==
  /\ LockFree
  /\ \E status \in {"needs_review", "approved", "exported"} :
       CanReachInOneCommit(doc, status) /\ doc' = status
  /\ UNCHANGED <<item, steps, approvals, stale, threads, issued, calls, exporter, raced, crashes>>

-----------------------------------------------------------------------------
PlanningStep(r) ==
  \/ BeginPlan(r) \/ CommitPlan(r) \/ EditItem(r)
  \/ \E p \in PlanId, decision \in Decisions : Decide(r, p, decision)

ExecutionStep(r) ==
  \/ Reserve(r) \/ CallTool(r) \/ ToolRefuses(r) \/ CommitTool(r) \/ ToolRaises(r)
  \/ Renew(r) \/ Finalize(r) \/ FinalizeFails(r) \/ MarkUnknown(r) \/ MarkFails(r)

Next ==
  \/ \E r \in Request :
       \/ Open(r) \/ EndUnchanged(r) \/ PlanningStep(r) \/ ExecutionStep(r)
       \/ (\E p \in PlanId : Reconcile(r, p)) \/ Crash(r)
  \/ HeartbeatGoesStale
  \/ DocumentMoves

Spec == Init /\ [][Next]_vars

-----------------------------------------------------------------------------
TypeOK ==
  /\ item \in ItemRow
  /\ steps \in [PlanId -> StepStatus]
  /\ approvals \in [PlanId -> Decisions \union {"none", "pending"}]
  /\ doc \in Status
  /\ stale \in BOOLEAN
  /\ threads \in [Request -> ThreadRow]
  /\ issued \in 0..MaxReservations
  /\ calls \in [PlanId -> Nat]
  /\ exporter \in PlanId \union {NoPlan}
  /\ raced \subseteq PlanId
  /\ crashes \in 0..MaxCrashes

\* The tool is called at most once for a step, whatever fails, is replayed or
\* reconciled: reserving is the only way to a call, and a reserved step never
\* waits for approval again (execute_approved_step, _execution_tool_or_error).
EachStepRunsOnce == \A p \in PlanId : calls[p] <= 1

\* While a call is running no other plan of the item can be executed: the item is
\* neither planned again nor reserved until the call is over or an administrator
\* has reconciled it because its heartbeat was stale (require_no_pending_execution).
OneCallAtATime ==
  \A p, q \in PlanId : p # q /\ Calling(p) /\ Calling(q) => p \in raced \/ q \in raced

\* The item names the step it is executing and how that ended, so whatever fails an
\* executing step can be finalized by its holder or reconciled, and no other is left
\* behind executing (execution_target_matches, _execution_is_reconcilable).
ItemTracksItsExecution ==
  \A p \in PlanId :
    /\ steps[p] = "executing" <=>
         item.target = p /\ item.outcome \in {"in_flight", "unknown"}
    /\ item.target = p =>
         /\ steps[p] = "executed" <=> item.outcome = "confirmed_success"
         /\ steps[p] = "failed" <=> item.outcome = "confirmed_failure"

\* The tool is only called for a step whose approval stands, as it then does for
\* ever: no later rejection contradicts what was done (Approval.approve, reject).
CallsAreApproved == \A p \in PlanId : calls[p] > 0 => approvals[p] = "approved"

\* An executed step left its document exported, and the call of a failed step did
\* not export it, unless the step was reconciled while its call was still running.
RecordedOutcomeIsTrue ==
  \A p \in PlanId :
    /\ steps[p] = "executed" => doc = "exported"
    /\ steps[p] = "failed" /\ p \notin raced => exporter # p

\* Executed and failed are final: neither a late answer of the tool, nor a second
\* administrator, nor another execution changes them (reconcile_execution).
SettledStepsAreFinal ==
  [][\A p \in PlanId : steps[p] \in {"executed", "failed"} => steps'[p] = steps[p]]_steps
=============================================================================
