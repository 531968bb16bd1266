-------------------------- MODULE BackofficeProofs --------------------------
(***************************************************************************)
(* Proofs about Backoffice, for any requests and bounds: its types and,    *)
(* when transactions exclude each other, that a step runs at most once,    *)
(* only when approved, that a settled step stays settled, and that what it *)
(* records is what happened.                                               *)
(***************************************************************************)
EXTENDS Backoffice, TLAPS

\* One transaction is open at a time, and nothing changes under it.
LockInv ==
  /\ \A q, r \in Request : threads[q].open /\ threads[r].open => q = r
  /\ \A r \in Request : threads[r].open => threads[r].view = Database

Reserved == {"executing", "executed", "failed"}

\* A step that was reserved was approved; a call follows a reservation, and the
\* one thread that holds the reservation has not made it yet.
CallsInv ==
  /\ \A p \in PlanId : steps[p] \in Reserved => approvals[p] = "approved"
  /\ \A p \in PlanId : calls[p] <= 1
  /\ \A p \in PlanId : calls[p] > 0 => steps[p] \in Reserved
  /\ \A r \in Request : threads[r].pc = "reserved" =>
       /\ calls[threads[r].plan] = 0
       /\ steps[threads[r].plan] \in Reserved
  /\ \A q, r \in Request :
       threads[q].pc = "reserved" /\ threads[r].pc = "reserved"
         /\ threads[q].plan = threads[r].plan => q = r

\* What a thread past its reservation works for.
ThreadsInv ==
  \A r \in Request :
    /\ threads[r].pc \in {"reserved", "render", "finalize", "unknown"}
         => threads[r].plan \in PlanId
    /\ threads[r].open => threads[r].pc # "reserved"

IInv == TypeOK /\ ThreadsInv /\ LockInv /\ CallsInv

-----------------------------------------------------------------------------
(* Types.                                                                    *)

\* The rows Init and Finish use are rows.
LEMMA RowsOK == NewItem \in ItemRow /\ NoView \in View /\ IdleThread \in ThreadRow
<1>1. NewItem \in ItemRow
  BY DEF NewItem, ItemRow
<1>2. NoView \in View
  BY <1>1 DEF NoView, View, StepStatus, Status
<1>3. IdleThread \in ThreadRow
  BY <1>2 DEF IdleThread, ThreadRow
<1>4. QED
  BY <1>1, <1>2, <1>3

\* Only the row of thread r changes.
OnlyRow(r) == \A u \in Request : u # r => threads'[u] = threads[u]

\* The row of thread r after it has finished.
LEMMA FinishRow ==
  ASSUME TypeOK, NEW r \in Request, Finish(r)
  PROVE  /\ threads' \in [Request -> ThreadRow]
         /\ OnlyRow(r)
         /\ threads'[r].pc = "idle" /\ ~threads'[r].open
<1>1. threads' = [threads EXCEPT ![r] = IdleThread] /\ threads \in [Request -> ThreadRow]
  BY DEF TypeOK, Finish
<1>2. IdleThread \in ThreadRow /\ IdleThread.pc = "idle" /\ ~IdleThread.open
  BY RowsOK DEF IdleThread
<1>3. QED
  BY <1>1, <1>2 DEF OnlyRow

\* The row of thread r after it has gone on.
LEMMA GoToRow ==
  ASSUME TypeOK, NEW r \in Request, NEW pc \in {"finalize", "unknown"},
         NEW response \in {"none", "success", "failed"}, GoTo(r, pc, response)
  PROVE  /\ threads' \in [Request -> ThreadRow]
         /\ OnlyRow(r)
         /\ threads'[r].pc = pc /\ ~threads'[r].open /\ threads'[r].plan = threads[r].plan
<1>1. threads[r] \in ThreadRow /\ threads \in [Request -> ThreadRow]
  BY DEF TypeOK
<1>2. NoView \in View
  BY RowsOK
<1>3. threads'[r] = [threads[r] EXCEPT !.pc = pc, !.open = FALSE, !.view = NoView,
                                       !.response = response]
  BY <1>1 DEF GoTo
<1>4. threads'[r] \in ThreadRow
  BY <1>1, <1>2, <1>3 DEF ThreadRow
<1>5. threads' \in [Request -> ThreadRow] /\ OnlyRow(r)
  BY <1>1, <1>4 DEF GoTo, OnlyRow
<1>6. threads'[r].pc = pc /\ ~threads'[r].open /\ threads'[r].plan = threads[r].plan
  BY <1>1, <1>3 DEF ThreadRow
<1>7. QED
  BY <1>5, <1>6

\* What a transaction has read has the types of the tables.
LEMMA ViewOK ==
  ASSUME TypeOK, NEW r \in Request
  PROVE  /\ threads[r].view \in View
         /\ threads[r].view.item \in ItemRow
         /\ threads[r].view.item.plan \in PlanId \union {NoPlan}
         /\ threads[r].plan \in PlanId \union {NoPlan}
         /\ threads[r].token \in Token \union {NoToken}
<1>1. threads[r] \in ThreadRow
  BY DEF TypeOK
<1>2. threads[r].view \in View
  BY <1>1 DEF ThreadRow
<1>3. QED
  BY <1>1, <1>2 DEF ThreadRow, View, ItemRow

\* Settling a step writes rows of the tables.
LEMMA SettleTypes ==
  ASSUME TypeOK, NEW r \in Request, NEW p \in PlanId, NEW success \in BOOLEAN,
         Settle(threads[r].view, p, success)
  PROVE  item' \in ItemRow /\ steps' \in [PlanId -> StepStatus]
<1>1. threads[r].view.item \in ItemRow
  BY ViewOK
<1>2. item' \in ItemRow
  BY <1>1 DEF Settle, ItemRow
<1>3. steps' \in [PlanId -> StepStatus]
  BY DEF TypeOK, Settle, StepStatus
<1>4. QED
  BY <1>2, <1>3

\* One call more is counted for the plan of thread r, and none for the others.
LEMMA CalledOK ==
  ASSUME TypeOK, ThreadsInv, NEW r \in Request, threads[r].pc = "reserved", Called(r)
  PROVE  /\ threads[r].plan \in PlanId
         /\ calls' \in [PlanId -> Nat]
         /\ calls'[threads[r].plan] = calls[threads[r].plan] + 1
         /\ \A p \in PlanId : p # threads[r].plan => calls'[p] = calls[p]
<1>1. threads[r].plan \in PlanId /\ calls \in [PlanId -> Nat]
  BY DEF ThreadsInv, TypeOK
<1>2. calls' = [calls EXCEPT ![threads[r].plan] = calls[threads[r].plan] + 1]
  BY DEF Called
<1>3. QED
  BY <1>1, <1>2

\* Every step keeps the types.
LEMMA TypeStep == TypeOK /\ ThreadsInv /\ [Next]_vars => TypeOK'
<1> SUFFICES ASSUME TypeOK, ThreadsInv, [Next]_vars PROVE TypeOK'
  OBVIOUS
<1> USE ConstantsAssumption
<1>1. ASSUME NEW r \in Request, Open(r) PROVE TypeOK'
  <2>1. Database \in View
    BY DEF TypeOK, Database, View
  <2>2. threads' \in [Request -> ThreadRow]
    <3>1. threads[r] \in ThreadRow /\ threads \in [Request -> ThreadRow]
      BY DEF TypeOK
    <3>2. [threads[r] EXCEPT !.open = TRUE, !.view = Database] \in ThreadRow
      BY <2>1, <3>1 DEF ThreadRow
    <3>3. QED
      BY <1>1, <3>1, <3>2 DEF Open
  <2>3. QED
    BY <1>1, <2>2 DEF TypeOK, Open
<1>2. ASSUME NEW r \in Request, EndUnchanged(r) PROVE TypeOK'
  BY <1>2, FinishRow DEF TypeOK, EndUnchanged
<1>3. ASSUME NEW r \in Request, BeginPlan(r) PROVE TypeOK'
  <2>1. PICK evidence \in {"none", "unapproved", "approved"} :
          threads' = [threads EXCEPT ![r].pc = "plan", ![r].evidence = evidence]
    BY <1>3 DEF BeginPlan
  <2>2. threads[r] \in ThreadRow /\ threads \in [Request -> ThreadRow]
    BY DEF TypeOK
  <2>3. [threads[r] EXCEPT !.pc = "plan", !.evidence = evidence] \in ThreadRow
    BY <2>2 DEF ThreadRow
  <2>4. threads' \in [Request -> ThreadRow]
    BY <2>1, <2>2, <2>3
  <2>5. QED
    BY <1>3, <2>4 DEF TypeOK, BeginPlan
<1>4. ASSUME NEW r \in Request, CommitPlan(r) PROVE TypeOK'
  <2>1. PICK p \in PlanId :
          /\ steps' = [steps EXCEPT ![p] = PlannedStatus(threads[r].evidence)]
          /\ approvals' = [approvals EXCEPT ![p] =
                             IF threads[r].evidence = "none" THEN "none" ELSE "pending"]
          /\ item' = [threads[r].view.item EXCEPT !.plan = p,
               !.status = IF threads[r].evidence = "approved" THEN "planning"
                          ELSE "awaiting_human"]
    BY <1>4 DEF CommitPlan
  <2>2. item' \in ItemRow
    BY <2>1, ViewOK DEF ItemRow
  <2>3. PlannedStatus(threads[r].evidence) \in StepStatus
    BY DEF PlannedStatus, StepStatus
  <2>4. steps' \in [PlanId -> StepStatus]
        /\ approvals' \in [PlanId -> Decisions \union {"none", "pending"}]
    BY <2>1, <2>3 DEF TypeOK
  <2>5. threads' \in [Request -> ThreadRow]
    BY <1>4, FinishRow DEF CommitPlan
  <2>6. QED
    BY <1>4, <2>2, <2>4, <2>5 DEF TypeOK, CommitPlan
<1>5. ASSUME NEW r \in Request, EditItem(r) PROVE TypeOK'
  <2>1. item' \in ItemRow
    BY <1>5, ViewOK DEF EditItem, ItemRow
  <2>2. QED
    BY <1>5, <2>1, FinishRow DEF TypeOK, EditItem
<1>6. ASSUME NEW r \in Request, NEW p \in PlanId, NEW decision \in Decisions,
             Decide(r, p, decision)
      PROVE  TypeOK'
  BY <1>6, FinishRow DEF TypeOK, Decide
<1>7. ASSUME NEW r \in Request, Reserve(r) PROVE TypeOK'
  <2> DEFINE p == threads[r].view.item.plan
             row == [IdleThread EXCEPT !.pc = "reserved", !.plan = p, !.token = issued + 1]
  <2>1. p \in PlanId /\ issued + 1 \in Token /\ issued' \in 0..MaxReservations
    BY <1>7, ViewOK DEF Reserve, TypeOK, Token
  <2>2. item' \in ItemRow
    BY <1>7, <2>1, ViewOK DEF Reserve, ItemRow
  <2>3. row \in ThreadRow
    BY <2>1, RowsOK DEF ThreadRow
  <2>4. threads' \in [Request -> ThreadRow]
    BY <1>7, <2>3 DEF Reserve, TypeOK
  <2>5. steps' \in [PlanId -> StepStatus]
    BY <1>7 DEF Reserve, TypeOK, StepStatus
  <2>6. QED
    BY <1>7, <2>1, <2>2, <2>4, <2>5 DEF Reserve, TypeOK
<1>8. ASSUME NEW r \in Request, CallTool(r) PROVE TypeOK'
  <2>1. threads' \in [Request -> ThreadRow]
    <3>1. threads[r] \in ThreadRow /\ threads \in [Request -> ThreadRow]
      BY DEF TypeOK
    <3>2. [threads[r] EXCEPT !.pc = "render", !.listed = doc = "approved"] \in ThreadRow
      BY <3>1 DEF ThreadRow
    <3>3. QED
      BY <1>8, <3>1, <3>2 DEF CallTool
  <2>2. calls' \in [PlanId -> Nat]
    BY <1>8, CalledOK DEF CallTool
  <2>3. QED
    BY <1>8, <2>1, <2>2 DEF TypeOK, CallTool
<1>9. ASSUME NEW r \in Request, ToolRefuses(r) PROVE TypeOK'
  <2>1. calls' \in [PlanId -> Nat]
    BY <1>9, CalledOK DEF ToolRefuses
  <2>2. QED
    BY <1>9, <2>1, GoToRow DEF TypeOK, ToolRefuses
<1>10. ASSUME NEW r \in Request, CommitTool(r) PROVE TypeOK'
  <2>1. threads' \in [Request -> ThreadRow]
    BY <1>10, GoToRow DEF CommitTool, OutcomeUnknown
  <2>2. doc' \in Status /\ exporter' \in PlanId \union {NoPlan}
    BY <1>10, ViewOK DEF CommitTool, TypeOK, Status
  <2>3. QED
    BY <1>10, <2>1, <2>2 DEF TypeOK, CommitTool
<1>11. ASSUME NEW r \in Request, ToolRaises(r) PROVE TypeOK'
  BY <1>11, GoToRow DEF TypeOK, ToolRaises, OutcomeUnknown
<1>12. ASSUME NEW r \in Request, Renew(r) PROVE TypeOK'
  BY <1>12 DEF TypeOK, Renew
<1>13. ASSUME NEW r \in Request, Finalize(r) PROVE TypeOK'
  <2>1. threads[r].plan \in PlanId
    BY <1>13 DEF Finalize, InTransaction, ThreadsInv
  <2>2. item' \in ItemRow /\ steps' \in [PlanId -> StepStatus]
    <3>1. CASE Matches(threads[r].view, r)
      BY <1>13, <2>1, <3>1, SettleTypes DEF Finalize
    <3>2. CASE ~Matches(threads[r].view, r)
      BY <1>13, <3>2 DEF Finalize, TypeOK
    <3>3. QED
      BY <3>1, <3>2
  <2>3. QED
    BY <1>13, <2>2, FinishRow DEF TypeOK, Finalize
<1>14. ASSUME NEW r \in Request, FinalizeFails(r) PROVE TypeOK'
  BY <1>14, GoToRow DEF TypeOK, FinalizeFails, OutcomeUnknown
<1>15. ASSUME NEW r \in Request, MarkUnknown(r) PROVE TypeOK'
  <2>1. item' \in ItemRow
    BY <1>15, ViewOK DEF MarkUnknown, UnknownRow, ItemRow, TypeOK
  <2>2. QED
    BY <1>15, <2>1, FinishRow DEF TypeOK, MarkUnknown
<1>16. ASSUME NEW r \in Request, MarkFails(r) PROVE TypeOK'
  BY <1>16, FinishRow DEF TypeOK, MarkFails
<1>17. ASSUME NEW r \in Request, NEW p \in PlanId, Reconcile(r, p) PROVE TypeOK'
  <2>1. item' \in ItemRow /\ steps' \in [PlanId -> StepStatus]
    BY <1>17, SettleTypes DEF Reconcile
  <2>2. QED
    BY <1>17, <2>1, FinishRow DEF TypeOK, Reconcile
<1>18. ASSUME NEW r \in Request, Crash(r) PROVE TypeOK'
  BY <1>18, FinishRow DEF TypeOK, Crash
<1>19. CASE HeartbeatGoesStale
  BY <1>19 DEF TypeOK, HeartbeatGoesStale
<1>20. CASE DocumentMoves
  BY <1>20 DEF TypeOK, DocumentMoves, Status
<1>21. CASE UNCHANGED vars
  BY <1>21 DEF TypeOK, vars
<1>22. QED
  BY <1>1, <1>2, <1>3, <1>4, <1>5, <1>6, <1>7, <1>8, <1>9, <1>10, <1>11, <1>12, <1>13,
     <1>14, <1>15, <1>16, <1>17, <1>18, <1>19, <1>20, <1>21
     DEF Next, PlanningStep, ExecutionStep

\* Every step keeps what a thread past its reservation works for.
LEMMA ThreadsStep == TypeOK /\ ThreadsInv /\ [Next]_vars => ThreadsInv'
<1> SUFFICES ASSUME TypeOK, ThreadsInv, [Next]_vars PROVE ThreadsInv'
  OBVIOUS
<1>1. ASSUME NEW r \in Request, Finish(r) PROVE ThreadsInv'
  BY <1>1, FinishRow DEF ThreadsInv, OnlyRow
<1>2. ASSUME NEW r \in Request, NEW pc \in {"finalize", "unknown"},
             NEW response \in {"none", "success", "failed"}, GoTo(r, pc, response),
             threads[r].pc \in {"reserved", "render", "finalize"}
      PROVE  ThreadsInv'
  BY <1>2, GoToRow DEF ThreadsInv, OnlyRow
<1>3. ASSUME NEW r \in Request, Open(r) PROVE ThreadsInv'
  <2>1. threads[r] \in ThreadRow /\ threads \in [Request -> ThreadRow]
    BY DEF TypeOK
  <2>2. threads'[r].pc = threads[r].pc /\ threads'[r].plan = threads[r].plan
        /\ threads[r].pc # "reserved" /\ OnlyRow(r)
    BY <1>3, <2>1 DEF Open, ThreadRow, OnlyRow
  <2>3. QED
    BY <2>2 DEF ThreadsInv, OnlyRow
<1>4. ASSUME NEW r \in Request, BeginPlan(r) PROVE ThreadsInv'
  <2>1. threads[r] \in ThreadRow /\ threads \in [Request -> ThreadRow]
    BY DEF TypeOK
  <2>2. threads'[r].pc = "plan" /\ OnlyRow(r)
    BY <1>4, <2>1 DEF BeginPlan, ThreadRow, OnlyRow
  <2>3. QED
    BY <2>2 DEF ThreadsInv, OnlyRow
<1>5. ASSUME NEW r \in Request, Reserve(r) PROVE ThreadsInv'
  <2>1. threads \in [Request -> ThreadRow] /\ threads[r].view.item.plan \in PlanId
    BY <1>5, ViewOK DEF TypeOK, Reserve
  <2>2. /\ threads'[r].plan = threads[r].view.item.plan
        /\ ~threads'[r].open
        /\ OnlyRow(r)
    BY <1>5, <2>1 DEF Reserve, IdleThread, OnlyRow
  <2>3. QED
    BY <2>1, <2>2 DEF ThreadsInv, OnlyRow
<1>6. ASSUME NEW r \in Request, CallTool(r) PROVE ThreadsInv'
  <2>1. threads[r] \in ThreadRow /\ threads \in [Request -> ThreadRow]
    BY DEF TypeOK
  <2>2. threads'[r].pc = "render" /\ threads'[r].plan = threads[r].plan /\ OnlyRow(r)
        /\ threads[r].pc = "reserved"
    BY <1>6, <2>1 DEF CallTool, ThreadRow, OnlyRow
  <2>3. QED
    BY <2>2 DEF ThreadsInv, OnlyRow
<1>7. ASSUME UNCHANGED threads PROVE ThreadsInv'
  BY <1>7 DEF ThreadsInv
<1>8. ASSUME NEW r \in Request, PlanningStep(r) PROVE ThreadsInv'
  BY <1>1, <1>4, <1>8 DEF PlanningStep, CommitPlan, EditItem, Decide
<1>9. ASSUME NEW r \in Request, ExecutionStep(r) PROVE ThreadsInv'
  <2>1. CASE CommitTool(r)
    BY <1>2, <2>1 DEF CommitTool, InTransaction, OutcomeUnknown
  <2>2. CASE ToolRefuses(r)
    BY <1>2, <2>2 DEF ToolRefuses
  <2>3. CASE ToolRaises(r) \/ FinalizeFails(r)
    BY <1>2, <2>3 DEF ToolRaises, FinalizeFails, OutcomeUnknown
  <2>4. CASE Finalize(r) \/ MarkUnknown(r) \/ MarkFails(r)
    BY <1>1, <2>4 DEF Finalize, MarkUnknown, MarkFails
  <2>5. CASE Renew(r)
    BY <1>7, <2>5 DEF Renew
  <2>6. QED
    BY <1>5, <1>6, <1>9, <2>1, <2>2, <2>3, <2>4, <2>5 DEF ExecutionStep
<1>10. ASSUME NEW r \in Request,
              EndUnchanged(r) \/ Crash(r) \/ \E p \in PlanId : Reconcile(r, p)
       PROVE  ThreadsInv'
  BY <1>1, <1>10 DEF EndUnchanged, Crash, Reconcile
<1>11. CASE HeartbeatGoesStale \/ DocumentMoves \/ UNCHANGED vars
  BY <1>7, <1>11 DEF HeartbeatGoesStale, DocumentMoves, vars
<1>12. QED
  BY <1>3, <1>8, <1>9, <1>10, <1>11 DEF Next

\* The initial state is well formed.
LEMMA InitTypes == Init => TypeOK /\ ThreadsInv
<1> SUFFICES ASSUME Init PROVE TypeOK /\ ThreadsInv
  OBVIOUS
<1>1. item \in ItemRow /\ threads \in [Request -> ThreadRow]
  BY RowsOK DEF Init
<1>2. steps \in [PlanId -> StepStatus] /\ doc \in Status
  BY DEF Init, StepStatus, Status
<1>3. issued \in 0..MaxReservations /\ crashes \in 0..MaxCrashes /\ calls \in [PlanId -> Nat]
  BY ConstantsAssumption DEF Init
<1>4. TypeOK
  BY <1>1, <1>2, <1>3 DEF Init, TypeOK
<1>5. ThreadsInv
  BY DEF Init, ThreadsInv, IdleThread
<1>6. QED
  BY <1>4, <1>5

\* The specification keeps its types, whatever the isolation of transactions.
THEOREM TypeCorrect == Spec => []TypeOK
<1>1. TypeOK /\ ThreadsInv /\ [Next]_vars => (TypeOK /\ ThreadsInv)'
  BY TypeStep, ThreadsStep
<1>2. QED
  BY <1>1, InitTypes, PTL DEF Spec

-----------------------------------------------------------------------------
(* The lock, and the count of calls.                                         *)

\* A thread commits: no transaction is open any more.
LEMMA LockReleased ==
  ASSUME LockInv, NEW r \in Request, threads[r].open, OnlyRow(r), ~threads'[r].open
  PROVE  LockInv'
  BY DEF LockInv, OnlyRow

\* A thread without a transaction, or one that gives up, changes no table.
LEMMA LockKept ==
  ASSUME LockInv, NEW r \in Request, OnlyRow(r), ~threads'[r].open,
         UNCHANGED <<item, steps, approvals, doc>>
  PROVE  LockInv'
  BY DEF LockInv, OnlyRow, Database

\* Thread r holds no reservation and the tables that matter stay as they are.
LEMMA CallsKept ==
  ASSUME CallsInv, NEW r \in Request, OnlyRow(r), threads'[r].pc # "reserved",
         UNCHANGED <<steps, approvals, calls>>
  PROVE  CallsInv'
  BY DEF CallsInv, OnlyRow

\* A step that was executing is settled.
LEMMA CallsSettled ==
  ASSUME TypeOK, CallsInv, NEW r \in Request, OnlyRow(r), threads'[r].pc # "reserved",
         NEW p \in PlanId, steps[p] = "executing",
         NEW success \in BOOLEAN, Settle(threads[r].view, p, success),
         UNCHANGED <<approvals, calls>>
  PROVE  CallsInv'
<1>1. steps \in [PlanId -> StepStatus]
  BY DEF TypeOK
<1>2. \A q \in PlanId : steps'[q] \in Reserved <=> steps[q] \in Reserved
  BY <1>1 DEF Settle, Reserved
<1>3. \A u \in Request : threads'[u].pc = "reserved" =>
        u # r /\ threads'[u] = threads[u]
  BY DEF OnlyRow
<1>4. \A u \in Request : threads[u].pc = "reserved" => steps'[threads[u].plan] \in Reserved
  <2> SUFFICES ASSUME NEW u \in Request, threads[u].pc = "reserved"
               PROVE  steps'[threads[u].plan] \in Reserved
    OBVIOUS
  <2>1. steps[threads[u].plan] \in Reserved
    BY DEF CallsInv
  <2>2. CASE threads[u].plan \in PlanId
    BY <1>2, <2>1, <2>2
  <2>3. CASE threads[u].plan \notin PlanId
    BY <1>1, <2>1, <2>3 DEF Settle
  <2>4. QED
    BY <2>2, <2>3
<1>5. QED
  BY <1>2, <1>3, <1>4 DEF CallsInv

\* The tool is called: the reservation is used up.
LEMMA CallsCounted ==
  ASSUME TypeOK, ThreadsInv, CallsInv, NEW r \in Request, threads[r].pc = "reserved",
         Called(r), OnlyRow(r), threads'[r].pc # "reserved",
         UNCHANGED <<steps, approvals>>
  PROVE  CallsInv'
<1>1. /\ threads[r].plan \in PlanId
      /\ calls'[threads[r].plan] = calls[threads[r].plan] + 1
      /\ \A p \in PlanId : p # threads[r].plan => calls'[p] = calls[p]
  BY CalledOK
<1>2. calls[threads[r].plan] = 0 /\ steps[threads[r].plan] \in Reserved
  BY DEF CallsInv
<1>3. \A p \in PlanId : calls'[p] <= 1 /\ (calls'[p] > 0 => steps'[p] \in Reserved)
  BY <1>1, <1>2 DEF CallsInv
<1>4. \A u \in Request : threads'[u].pc = "reserved" =>
        /\ u # r /\ threads'[u] = threads[u]
        /\ threads[u].plan \in PlanId /\ threads[u].plan # threads[r].plan
  BY DEF OnlyRow, CallsInv, ThreadsInv
<1>5. \A u \in Request : threads'[u].pc = "reserved" =>
        calls'[threads'[u].plan] = 0 /\ steps'[threads'[u].plan] \in Reserved
  BY <1>1, <1>4 DEF CallsInv
<1>6. \A q, u \in Request :
        threads'[q].pc = "reserved" /\ threads'[u].pc = "reserved"
          /\ threads'[q].plan = threads'[u].plan => q = u
  BY <1>4 DEF CallsInv
<1>7. \A p \in PlanId : steps'[p] \in Reserved => approvals'[p] = "approved"
  BY DEF CallsInv
<1>8. QED
  BY <1>3, <1>5, <1>6, <1>7 DEF CallsInv

\* Every step keeps the lock and the count, when transactions exclude each other.
LEMMA InvStep == Serialized /\ IInv /\ [Next]_vars => (LockInv /\ CallsInv)'
<1> SUFFICES ASSUME Serialized, IInv, [Next]_vars PROVE LockInv' /\ CallsInv'
  OBVIOUS
<1> USE DEF IInv
<1>1. ASSUME NEW r \in Request, NEW pc, InTransaction(r, pc)
      PROVE  threads[r].pc = pc /\ threads[r].open /\ threads[r].view = Database
  BY <1>1 DEF InTransaction, LockInv
\* Steps that end a transaction or a request and leave steps and approvals alone.
<1>2. ASSUME NEW r \in Request, OnlyRow(r), threads'[r].pc # "reserved", ~threads'[r].open,
             threads[r].open \/ UNCHANGED <<item, steps, approvals, doc>>,
             UNCHANGED <<steps, approvals, calls>>
      PROVE  LockInv' /\ CallsInv'
  BY <1>2, LockReleased, LockKept, CallsKept
<1>3. ASSUME NEW r \in Request, Open(r) PROVE LockInv' /\ CallsInv'
  <2>1. threads[r] \in ThreadRow /\ threads \in [Request -> ThreadRow]
    BY DEF TypeOK
  <2>2. threads'[r].open /\ threads'[r].view = Database /\ OnlyRow(r)
        /\ threads'[r].pc = threads[r].pc /\ threads[r].pc # "reserved"
    BY <1>3, <2>1 DEF Open, ThreadRow, OnlyRow
  <2>3. \A q \in Request : ~threads[q].open
    BY <1>3 DEF Open, LockFree
  <2>4. Database' = Database
    BY <1>3 DEF Open, Database
  <2>5. LockInv'
    BY <2>2, <2>3, <2>4 DEF LockInv, OnlyRow
  <2>6. CallsInv'
    BY <1>3, <2>2, CallsKept DEF Open
  <2>7. QED
    BY <2>5, <2>6
<1>4. ASSUME NEW r \in Request, EndUnchanged(r) \/ Crash(r) \/ EditItem(r) \/ MarkUnknown(r)
                                \/ MarkFails(r)
      PROVE  LockInv' /\ CallsInv'
  <2>1. Finish(r) /\ UNCHANGED <<steps, approvals, calls>>
    BY <1>4 DEF EndUnchanged, Crash, EditItem, MarkUnknown, MarkFails
  <2>2. threads[r].open \/ UNCHANGED <<item, steps, approvals, doc>>
    BY <1>4 DEF EndUnchanged, Crash, EditItem, MarkUnknown, MarkFails, InTransaction
  <2>3. QED
    BY <1>2, <2>1, <2>2, FinishRow
<1>5. ASSUME NEW r \in Request, BeginPlan(r) PROVE LockInv' /\ CallsInv'
  <2>1. threads[r] \in ThreadRow /\ threads \in [Request -> ThreadRow]
    BY DEF TypeOK
  <2>2. threads'[r].pc = "plan" /\ ~threads'[r].open /\ OnlyRow(r)
    BY <1>5, <2>1 DEF BeginPlan, ThreadRow, OnlyRow
  <2>3. QED
    BY <1>2, <1>5, <2>2 DEF BeginPlan
<1>6. ASSUME NEW r \in Request, CommitPlan(r) PROVE LockInv' /\ CallsInv'
  <2>1. LockInv'
    BY <1>6, LockReleased, FinishRow DEF CommitPlan, InTransaction
  <2>2. PICK p \in PlanId :
          /\ steps[p] = "none"
          /\ steps' = [steps EXCEPT ![p] = PlannedStatus(threads[r].evidence)]
          /\ approvals' = [approvals EXCEPT ![p] =
                             IF threads[r].evidence = "none" THEN "none" ELSE "pending"]
    BY <1>6 DEF CommitPlan
  <2>3. PlannedStatus(threads[r].evidence) \notin Reserved /\ "none" \notin Reserved
    BY DEF PlannedStatus, Reserved
  <2>4. /\ \A q \in PlanId : steps'[q] \in Reserved <=> steps[q] \in Reserved
        /\ \A q \in PlanId : steps[q] \in Reserved => approvals'[q] = approvals[q]
    BY <2>2, <2>3 DEF TypeOK
  <2>5. OnlyRow(r) /\ threads'[r].pc # "reserved" /\ UNCHANGED calls
    BY <1>6, FinishRow DEF CommitPlan
  <2>6. \A u \in Request : threads'[u].pc = "reserved" =>
          threads'[u] = threads[u] /\ threads[u].plan \in PlanId
    BY <2>5 DEF OnlyRow, ThreadsInv
  <2>7. CallsInv'
    BY <2>4, <2>5, <2>6 DEF CallsInv
  <2>8. QED
    BY <2>1, <2>7
<1>7. ASSUME NEW r \in Request, NEW p \in PlanId, NEW decision \in Decisions,
             Decide(r, p, decision)
      PROVE  LockInv' /\ CallsInv'
  <2>1. LockInv'
    BY <1>7, LockReleased, FinishRow DEF Decide, InTransaction
  <2>2. approvals[p] = "pending" /\ approvals' = [approvals EXCEPT ![p] = decision]
    BY <1>1, <1>7 DEF Decide, OpenForDecision, Database
  <2>3. \A q \in PlanId : steps[q] \in Reserved => approvals'[q] = "approved"
    BY <2>2 DEF TypeOK, CallsInv
  <2>4. OnlyRow(r) /\ threads'[r].pc # "reserved" /\ UNCHANGED <<steps, calls>>
    BY <1>7, FinishRow DEF Decide
  <2>5. CallsInv'
    BY <2>3, <2>4 DEF CallsInv, OnlyRow
  <2>6. QED
    BY <2>1, <2>5
<1>8. ASSUME NEW r \in Request, Reserve(r) PROVE LockInv' /\ CallsInv'
  <2> DEFINE p == threads[r].view.item.plan
  <2>1. threads[r].open /\ threads[r].view = Database /\ p \in PlanId
    BY <1>1, <1>8, ViewOK DEF Reserve
  <2>2. steps[p] = "waiting_for_approval" /\ approvals[p] = "approved"
    BY <1>8, <2>1 DEF Reserve, Executable, Database
  <2>3. /\ OnlyRow(r)
        /\ threads'[r].plan = p /\ threads'[r].pc = "reserved" /\ ~threads'[r].open
    BY <1>8 DEF Reserve, IdleThread, OnlyRow, TypeOK
  <2>4. LockInv'
    BY <2>1, <2>3, LockReleased
  <2>5. steps[p] \notin Reserved
    BY <2>2 DEF Reserved
  <2>6. calls[p] = 0
    BY <2>1, <2>5 DEF CallsInv, TypeOK
  <2>7. /\ steps'[p] \in Reserved
        /\ \A q \in PlanId : q # p => steps'[q] = steps[q]
        /\ UNCHANGED <<approvals, calls>>
    BY <1>8, <2>1 DEF Reserve, TypeOK, Reserved
  <2>8. \A u \in Request : u # r /\ threads'[u].pc = "reserved" =>
          /\ threads'[u] = threads[u]
          /\ threads[u].plan \in PlanId /\ threads[u].plan # p
    BY <2>3, <2>5 DEF OnlyRow, ThreadsInv, CallsInv
  <2>9. /\ \A q \in PlanId : steps'[q] \in Reserved => approvals'[q] = "approved"
        /\ \A q \in PlanId : calls'[q] <= 1 /\ (calls'[q] > 0 => steps'[q] \in Reserved)
    BY <2>1, <2>2, <2>7 DEF CallsInv
  <2>10. \A u \in Request : threads'[u].pc = "reserved" =>
           calls'[threads'[u].plan] = 0 /\ steps'[threads'[u].plan] \in Reserved
    BY <2>3, <2>6, <2>7, <2>8 DEF CallsInv
  <2>11. \A q, u \in Request :
           threads'[q].pc = "reserved" /\ threads'[u].pc = "reserved"
             /\ threads'[q].plan = threads'[u].plan => q = u
    BY <2>3, <2>8 DEF CallsInv
  <2>12. QED
    BY <2>4, <2>9, <2>10, <2>11 DEF CallsInv
<1>9. ASSUME NEW r \in Request, CallTool(r) PROVE LockInv' /\ CallsInv'
  <2>1. threads[r] \in ThreadRow /\ threads \in [Request -> ThreadRow]
        /\ threads[r].pc = "reserved" /\ ~threads[r].open
    BY <1>9 DEF TypeOK, CallTool, ThreadsInv
  <2>2. threads'[r].pc = "render" /\ ~threads'[r].open /\ OnlyRow(r)
    BY <1>9, <2>1 DEF CallTool, ThreadRow, OnlyRow
  <2>3. QED
    BY <1>9, <2>1, <2>2, LockKept, CallsCounted DEF CallTool
<1>10. ASSUME NEW r \in Request, ToolRefuses(r) PROVE LockInv' /\ CallsInv'
  <2>1. threads'[r].pc = "finalize" /\ ~threads'[r].open /\ OnlyRow(r)
    BY <1>10, GoToRow DEF ToolRefuses
  <2>2. QED
    BY <1>10, <2>1, LockKept, CallsCounted DEF ToolRefuses
<1>11. ASSUME NEW r \in Request, CommitTool(r) \/ ToolRaises(r) \/ FinalizeFails(r)
       PROVE  LockInv' /\ CallsInv'
  <2>1. threads'[r].pc # "reserved" /\ ~threads'[r].open /\ OnlyRow(r)
    BY <1>11, GoToRow DEF CommitTool, ToolRaises, FinalizeFails, OutcomeUnknown
  <2>2. /\ threads[r].open \/ UNCHANGED <<item, steps, approvals, doc>>
        /\ UNCHANGED <<steps, approvals, calls>>
    BY <1>11 DEF CommitTool, ToolRaises, FinalizeFails, InTransaction
  <2>3. QED
    BY <1>2, <2>1, <2>2
<1>12. ASSUME NEW r \in Request, Finalize(r) PROVE LockInv' /\ CallsInv'
  <2>1. threads[r].open /\ threads[r].view = Database /\ threads[r].plan \in PlanId
    BY <1>1, <1>12 DEF Finalize, InTransaction, ThreadsInv
  <2>2. OnlyRow(r) /\ threads'[r].pc # "reserved" /\ ~threads'[r].open
        /\ UNCHANGED <<approvals, calls>>
    BY <1>12, FinishRow DEF Finalize
  <2>3. LockInv'
    BY <2>1, <2>2, LockReleased
  <2>4. CASE Matches(threads[r].view, r)
    <3>1. steps[threads[r].plan] = "executing"
      BY <2>1, <2>4 DEF Matches, Database
    <3>2. Settle(threads[r].view, threads[r].plan, threads[r].response = "success")
      BY <1>12, <2>4 DEF Finalize
    <3>3. QED
      BY <2>1, <2>2, <2>3, <3>1, <3>2, CallsSettled
  <2>5. CASE ~Matches(threads[r].view, r)
    BY <1>12, <2>2, <2>3, <2>5, CallsKept DEF Finalize
  <2>6. QED
    BY <2>4, <2>5
<1>13. ASSUME NEW r \in Request, NEW p \in PlanId, Reconcile(r, p)
       PROVE  LockInv' /\ CallsInv'
  <2>1. threads[r].open /\ threads[r].view = Database
    BY <1>1, <1>13 DEF Reconcile
  <2>2. OnlyRow(r) /\ threads'[r].pc # "reserved" /\ ~threads'[r].open
        /\ UNCHANGED <<approvals, calls>>
    BY <1>13, FinishRow DEF Reconcile
  <2>3. steps[p] = "executing"
    BY <1>13, <2>1 DEF Reconcile, Database
  <2>4. Settle(threads[r].view, p, threads[r].view.doc = "exported")
    BY <1>13 DEF Reconcile
  <2>5. QED
    BY <2>1, <2>2, <2>3, <2>4, LockReleased, CallsSettled
<1>14. CASE DocumentMoves
  <2>1. \A q \in Request : ~threads[q].open
    BY <1>14 DEF DocumentMoves, LockFree
  <2>2. QED
    BY <1>14, <2>1 DEF DocumentMoves, LockInv, CallsInv
<1>15. CASE HeartbeatGoesStale \/ (\E r \in Request : Renew(r)) \/ UNCHANGED vars
  BY <1>15 DEF HeartbeatGoesStale, Renew, vars, LockInv, CallsInv, Database
<1>16. ASSUME NEW r \in Request, PlanningStep(r) \/ ExecutionStep(r)
       PROVE  LockInv' /\ CallsInv'
  BY <1>4, <1>5, <1>6, <1>7, <1>8, <1>9, <1>10, <1>11, <1>12, <1>15, <1>16
     DEF PlanningStep, ExecutionStep
<1>17. QED
  BY <1>3, <1>4, <1>13, <1>14, <1>15, <1>16 DEF Next

\* The inductive invariant, when transactions exclude each other.
THEOREM InvariantHolds == ASSUME Serialized PROVE Spec => []IInv
<1>1. Init => LockInv /\ CallsInv
  BY DEF Init, LockInv, CallsInv, IdleThread, Reserved
<1>2. Init => TypeOK /\ ThreadsInv
  BY InitTypes
<1>3. IInv /\ [Next]_vars => IInv'
  BY TypeStep, ThreadsStep, InvStep DEF IInv
<1>4. QED
  BY <1>1, <1>2, <1>3, PTL DEF Spec, IInv

\* The tool is called at most once for a step.
THEOREM StepsRunOnce == ASSUME Serialized PROVE Spec => []EachStepRunsOnce
<1>1. IInv => EachStepRunsOnce
  BY DEF IInv, CallsInv, EachStepRunsOnce
<1>2. QED
  BY <1>1, InvariantHolds, PTL

\* The tool is only called for approved steps, and they stay approved.
THEOREM ApprovedCalls == ASSUME Serialized PROVE Spec => []CallsAreApproved
<1>1. IInv => CallsAreApproved
  BY DEF IInv, CallsInv, CallsAreApproved
<1>2. QED
  BY <1>1, InvariantHolds, PTL

\* Executed and failed steps stay as they are.
THEOREM SettledFinal == ASSUME Serialized PROVE Spec => SettledStepsAreFinal
<1> DEFINE Final == \A p \in PlanId : steps[p] \in {"executed", "failed"} => steps'[p] = steps[p]
<1>1. IInv /\ [Next]_vars => [Final]_steps
  <2> SUFFICES ASSUME IInv, [Next]_vars, steps' # steps PROVE Final
    OBVIOUS
  <2> USE DEF IInv
  <2>1. ASSUME NEW q \in PlanId, NEW value, steps' = [steps EXCEPT ![q] = value],
               steps[q] \notin {"executed", "failed"}
        PROVE  Final
    BY <2>1 DEF TypeOK
  <2>2. ASSUME NEW r \in Request, CommitPlan(r) PROVE Final
    <3>1. PICK q \in PlanId : steps[q] = "none"
                           /\ steps' = [steps EXCEPT ![q] = PlannedStatus(threads[r].evidence)]
      BY <2>2 DEF CommitPlan
    <3>2. QED
      BY <2>1, <3>1
  <2>3. ASSUME NEW r \in Request, Reserve(r) PROVE Final
    <3>1. threads[r].view = Database /\ threads[r].view.item.plan \in PlanId
      BY <2>3, ViewOK DEF Reserve, InTransaction, LockInv
    <3>2. steps[threads[r].view.item.plan] = "waiting_for_approval"
      BY <2>3, <3>1 DEF Reserve, Executable, Database
    <3>3. steps' = [steps EXCEPT ![threads[r].view.item.plan] = "executing"]
      BY <2>3 DEF Reserve
    <3>4. QED
      BY <2>1, <3>1, <3>2, <3>3
  <2>4. ASSUME NEW r \in Request, Finalize(r) PROVE Final
    <3>1. threads[r].view = Database /\ threads[r].plan \in PlanId
      BY <2>4 DEF Finalize, InTransaction, LockInv, ThreadsInv
    <3>2. Matches(threads[r].view, r)
      BY <2>4 DEF Finalize
    <3>3. steps[threads[r].plan] = "executing"
      BY <3>1, <3>2 DEF Matches, Database
    <3>4. QED
      BY <2>1, <2>4, <3>1, <3>2, <3>3 DEF Finalize, Settle
  <2>5. ASSUME NEW r \in Request, NEW p \in PlanId, Reconcile(r, p) PROVE Final
    <3>1. threads[r].view = Database
      BY <2>5 DEF Reconcile, InTransaction, LockInv
    <3>2. steps[p] = "executing"
      BY <2>5, <3>1 DEF Reconcile, Database
    <3>3. QED
      BY <2>1, <2>5, <3>2 DEF Reconcile, Settle
  <2>6. QED
    BY <2>2, <2>3, <2>4, <2>5
       DEF Next, PlanningStep, ExecutionStep, Open, EndUnchanged, BeginPlan, EditItem, Decide,
           CallTool, ToolRefuses, CommitTool, ToolRaises, Renew, FinalizeFails, MarkUnknown,
           MarkFails, Crash, HeartbeatGoesStale, DocumentMoves, vars
<1>2. QED
  BY <1>1, InvariantHolds, PTL DEF Spec, SettledStepsAreFinal

-----------------------------------------------------------------------------
(* The item and the step it executes.                                        *)

Pending == {"in_flight", "unknown"}

\* An item that has a target has an outcome, and is not planned again while that
\* outcome is open.
ItemInv ==
  /\ ItemTracksItsExecution
  /\ item.target # NoPlan => item.outcome # "none"
  /\ item.outcome \in Pending => item.plan = item.target /\ item.target \in PlanId

\* The row and the step change together.
LEMMA ItemSettled ==
  ASSUME TypeOK, ItemInv, NEW v, v = Database, NEW p \in PlanId,
         item.target = p, NEW success \in BOOLEAN, Settle(v, p, success)
  PROVE  ItemInv'
<1>1. item \in ItemRow /\ steps \in [PlanId -> StepStatus]
  BY DEF TypeOK
<1>2. v.item = item
  BY DEF Database
<1>3. /\ item'.target = p
      /\ item'.outcome = IF success THEN "confirmed_success" ELSE "confirmed_failure"
  BY <1>1, <1>2 DEF Settle, ItemRow
<1>4. steps' = [steps EXCEPT ![p] = IF success THEN "executed" ELSE "failed"]
  BY DEF Settle
<1>5. \A q \in PlanId : q # p => steps'[q] = steps[q] /\ steps[q] # "executing"
  BY <1>1, <1>4 DEF ItemInv, ItemTracksItsExecution
<1>6. steps'[p] = IF success THEN "executed" ELSE "failed"
  BY <1>1, <1>4
<1>7. QED
  BY <1>3, <1>5, <1>6 DEF ItemInv, ItemTracksItsExecution, Pending

\* Every step keeps it, when transactions exclude each other.
LEMMA ItemStep == IInv /\ ItemInv /\ [Next]_vars => ItemInv'
<1> SUFFICES ASSUME IInv, ItemInv, [Next]_vars PROVE ItemInv'
  OBVIOUS
<1> USE DEF IInv
<1>1. item \in ItemRow /\ steps \in [PlanId -> StepStatus]
  BY DEF TypeOK
<1>2. ASSUME NEW r \in Request, threads[r].open
      PROVE  threads[r].view = Database /\ threads[r].view.item = item
  BY <1>2 DEF LockInv, Database
<1>3. ASSUME item'.target = item.target, item'.plan = item.plan, UNCHANGED steps,
             item'.outcome = item.outcome
               \/ (item.outcome \in Pending /\ item'.outcome \in Pending)
      PROVE  ItemInv'
  BY <1>3 DEF ItemInv, ItemTracksItsExecution, Pending
<1>4. ASSUME NEW r \in Request, CommitPlan(r) PROVE ItemInv'
  <2>1. threads[r].view.item = item /\ item.outcome \notin Pending
    BY <1>2, <1>4 DEF CommitPlan, InTransaction, PendingExecution, Pending
  <2>2. PICK p \in PlanId :
          /\ steps[p] = "none"
          /\ steps' = [steps EXCEPT ![p] = PlannedStatus(threads[r].evidence)]
          /\ item' = [threads[r].view.item EXCEPT !.plan = p,
               !.status = IF threads[r].evidence = "approved" THEN "planning"
                          ELSE "awaiting_human"]
    BY <1>4 DEF CommitPlan
  <2>3. item'.target = item.target /\ item'.outcome = item.outcome
    BY <1>1, <2>1, <2>2 DEF ItemRow
  <2>4. item.target # p
    BY <1>1, <2>1, <2>2 DEF ItemInv, ItemTracksItsExecution, Pending, ItemRow, NoPlan, PlanId
  <2>5. /\ steps'[p] \notin {"executing", "executed", "failed"}
        /\ \A q \in PlanId : q # p => steps'[q] = steps[q]
    BY <1>1, <2>2 DEF PlannedStatus
  <2>6. QED
    BY <2>1, <2>3, <2>4, <2>5 DEF ItemInv, ItemTracksItsExecution, Pending
<1>5. ASSUME NEW r \in Request, Reserve(r) PROVE ItemInv'
  <2> DEFINE p == threads[r].view.item.plan
  <2>1. threads[r].view = Database /\ p = item.plan /\ p \in PlanId
    BY <1>2, <1>5, ViewOK DEF Reserve, InTransaction
  <2>2. steps[p] = "waiting_for_approval"
    BY <1>5, <2>1 DEF Reserve, Executable, Database
  <2>3. item.outcome \notin Pending
    BY <2>1, <2>2 DEF ItemInv, ItemTracksItsExecution, Pending
  <2>4. \A q \in PlanId : steps[q] # "executing"
    BY <2>3 DEF ItemInv, ItemTracksItsExecution, Pending
  <2>5. item' = [item EXCEPT !.status = "executing", !.outcome = "in_flight",
                   !.target = p, !.token = issued + 1]
    BY <1>2, <1>5 DEF Reserve, InTransaction
  <2>6. item'.target = p /\ item'.outcome = "in_flight" /\ item'.plan = p
    BY <1>1, <2>1, <2>5 DEF ItemRow
  <2>7. steps'[p] = "executing" /\ \A q \in PlanId : q # p => steps'[q] = steps[q]
    BY <1>1, <1>5, <2>1 DEF Reserve
  <2>8. QED
    BY <2>1, <2>4, <2>6, <2>7 DEF ItemInv, ItemTracksItsExecution, Pending, NoPlan, PlanId
<1>6. ASSUME NEW r \in Request, Finalize(r) PROVE ItemInv'
  <2>1. threads[r].view = Database /\ threads[r].plan \in PlanId
    BY <1>2, <1>6 DEF Finalize, InTransaction, ThreadsInv
  <2>2. CASE Matches(threads[r].view, r)
    <3>1. item.target = threads[r].plan
      BY <2>1, <2>2 DEF Matches, Database
    <3>2. Settle(threads[r].view, threads[r].plan, threads[r].response = "success")
      BY <1>6, <2>2 DEF Finalize
    <3>3. QED
      BY <2>1, <3>1, <3>2, ItemSettled
  <2>3. CASE ~Matches(threads[r].view, r)
    BY <1>3, <1>6, <2>3 DEF Finalize
  <2>4. QED
    BY <2>2, <2>3
<1>7. ASSUME NEW r \in Request, NEW p \in PlanId, Reconcile(r, p) PROVE ItemInv'
  <2>1. threads[r].view = Database
    BY <1>2, <1>7 DEF Reconcile, InTransaction
  <2>2. item.target = p
    BY <1>7, <2>1 DEF Reconcile, Database
  <2>3. Settle(threads[r].view, p, threads[r].view.doc = "exported")
    BY <1>7 DEF Reconcile
  <2>4. QED
    BY <2>1, <2>2, <2>3, ItemSettled
<1>8. ASSUME NEW r \in Request, MarkUnknown(r) PROVE ItemInv'
  <2>1. threads[r].view = Database /\ threads[r].view.item = item /\ threads[r].plan \in PlanId
    BY <1>2, <1>8 DEF MarkUnknown, InTransaction, ThreadsInv
  <2>2. CASE Matches(threads[r].view, r)
    <3>1. steps[threads[r].plan] = "executing"
      BY <2>1, <2>2 DEF Matches, Database
    <3>2. item.outcome \in Pending
      BY <2>1, <3>1 DEF ItemInv, ItemTracksItsExecution, Pending
    <3>3. item' = UnknownRow(item) /\ UNCHANGED steps
      BY <1>8, <2>1, <2>2 DEF MarkUnknown
    <3>4. item'.target = item.target /\ item'.plan = item.plan /\ item'.outcome \in Pending
      BY <1>1, <3>3 DEF UnknownRow, ItemRow, Pending
    <3>5. QED
      BY <1>3, <3>2, <3>3, <3>4
  <2>3. CASE ~Matches(threads[r].view, r)
    BY <1>3, <1>8, <2>3 DEF MarkUnknown
  <2>4. QED
    BY <2>2, <2>3
<1>9. ASSUME NEW r \in Request, EditItem(r) PROVE ItemInv'
  <2>1. PICK status : item' = [item EXCEPT !.status = status]
    BY <1>2, <1>9 DEF EditItem, InTransaction
  <2>2. item'.target = item.target /\ item'.plan = item.plan /\ item'.outcome = item.outcome
    BY <1>1, <2>1 DEF ItemRow
  <2>3. QED
    BY <1>3, <1>9, <2>2 DEF EditItem
<1>10. CASE UNCHANGED <<item, steps>>
  BY <1>3, <1>10
<1>11. QED
  BY <1>4, <1>5, <1>6, <1>7, <1>8, <1>9, <1>10
     DEF Next, PlanningStep, ExecutionStep, Open, EndUnchanged, BeginPlan, Decide, CallTool,
         ToolRefuses, CommitTool, ToolRaises, Renew, FinalizeFails, MarkFails, Crash,
         HeartbeatGoesStale, DocumentMoves, vars

\* Whatever fails, an executing step is the one its item tracks.
THEOREM ItemTracks == ASSUME Serialized PROVE Spec => []ItemTracksItsExecution
<1>1. Init => ItemInv
  BY DEF Init, ItemInv, ItemTracksItsExecution, Pending, NewItem, NoPlan, PlanId
<1>2. ItemInv => ItemTracksItsExecution
  BY DEF ItemInv
<1>3. QED
  BY <1>1, <1>2, ItemStep, InvariantHolds, PTL DEF Spec

-----------------------------------------------------------------------------
(* Calls of different plans.                                                 *)

\* A thread past its reservation has not forgotten it.
Holds(r) == threads[r].pc \in {"reserved", "render", "finalize", "unknown"}

\* A reservation has one holder, and its step is executing for as long as the
\* call runs, unless it was reconciled meanwhile.
RunInv ==
  /\ \A q, r \in Request : Holds(q) /\ Holds(r) /\ threads[q].plan = threads[r].plan => q = r
  /\ \A r \in Request : Holds(r) => steps[threads[r].plan] \in Reserved
  /\ \A r \in Request :
       threads[r].pc \in {"reserved", "render"} /\ threads[r].plan \notin raced
         => steps[threads[r].plan] = "executing"

\* Thread r gives up, or goes on within what it holds, and no step changes.
LEMMA RunKept ==
  ASSUME RunInv, NEW r \in Request, OnlyRow(r), UNCHANGED <<steps, raced>>,
         \/ ~Holds(r)'
         \/ /\ Holds(r) /\ threads'[r].plan = threads[r].plan
            /\ threads'[r].pc \in {"finalize", "unknown"} \/ threads[r].pc \in {"reserved", "render"}
  PROVE  RunInv'
  BY DEF RunInv, Holds, OnlyRow

\* Every step keeps it.
LEMMA RunStep == IInv /\ RunInv /\ [Next]_vars => RunInv'
<1> SUFFICES ASSUME IInv, RunInv, [Next]_vars PROVE RunInv'
  OBVIOUS
<1> USE DEF IInv
<1>1. ASSUME NEW r \in Request, Finish(r), UNCHANGED <<steps, raced>> PROVE RunInv'
  BY <1>1, FinishRow, RunKept DEF Holds
<1>2. ASSUME NEW r \in Request, NEW pc \in {"finalize", "unknown"},
             NEW response \in {"none", "success", "failed"}, GoTo(r, pc, response),
             Holds(r), UNCHANGED <<steps, raced>>
      PROVE  RunInv'
  BY <1>2, GoToRow, RunKept
<1>3. ASSUME NEW r \in Request, Open(r) \/ BeginPlan(r) \/ CallTool(r) PROVE RunInv'
  <2>1. threads[r] \in ThreadRow /\ threads \in [Request -> ThreadRow]
    BY DEF TypeOK
  <2>2. OnlyRow(r) /\ UNCHANGED <<steps, raced>> /\ threads'[r].plan = threads[r].plan
    BY <1>3, <2>1 DEF Open, BeginPlan, CallTool, ThreadRow, OnlyRow
  <2>3. \/ threads'[r].pc = threads[r].pc
        \/ threads'[r].pc = "plan"
        \/ threads[r].pc = "reserved" /\ threads'[r].pc = "render"
    BY <1>3, <2>1 DEF Open, BeginPlan, CallTool, ThreadRow
  <2>4. QED
    BY <2>2, <2>3, RunKept DEF Holds
<1>4. ASSUME NEW r \in Request, CommitPlan(r) PROVE RunInv'
  <2>1. PICK p \in PlanId :
          /\ steps[p] = "none"
          /\ steps' = [steps EXCEPT ![p] = PlannedStatus(threads[r].evidence)]
    BY <1>4 DEF CommitPlan
  <2>2. OnlyRow(r) /\ ~Holds(r)' /\ UNCHANGED raced
    BY <1>4, FinishRow DEF CommitPlan, Holds
  <2>3. \A u \in Request : Holds(u) => threads[u].plan \in PlanId /\ threads[u].plan # p
    BY <2>1 DEF RunInv, Reserved, Holds, ThreadsInv
  <2>4. \A q \in PlanId : q # p => steps'[q] = steps[q]
    BY <2>1 DEF TypeOK
  <2>5. QED
    BY <2>2, <2>3, <2>4 DEF RunInv, OnlyRow, Holds
<1>5. ASSUME NEW r \in Request, Reserve(r) PROVE RunInv'
  <2> DEFINE p == threads[r].view.item.plan
  <2>1. threads[r].view = Database /\ p \in PlanId
    BY <1>5, ViewOK DEF Reserve, InTransaction, LockInv
  <2>2. steps[p] = "waiting_for_approval"
    BY <1>5, <2>1 DEF Reserve, Executable, Database
  <2>3. OnlyRow(r) /\ threads'[r].plan = p /\ threads'[r].pc = "reserved" /\ UNCHANGED raced
    BY <1>5 DEF Reserve, IdleThread, OnlyRow, TypeOK
  <2>4. steps'[p] = "executing" /\ \A q \in PlanId : q # p => steps'[q] = steps[q]
    BY <1>5, <2>1 DEF Reserve, TypeOK
  <2>5. \A u \in Request : Holds(u) => threads[u].plan \in PlanId /\ threads[u].plan # p
    BY <2>2 DEF RunInv, Reserved, Holds, ThreadsInv
  <2>6. \A u \in Request : u # r => threads'[u] = threads[u]
    BY <2>3 DEF OnlyRow
  <2>7. QED
    BY <2>3, <2>4, <2>5, <2>6 DEF RunInv, Reserved, Holds
<1>6. ASSUME NEW r \in Request, Finalize(r) PROVE RunInv'
  <2>1. threads[r].plan \in PlanId /\ Holds(r)
    BY <1>6 DEF Finalize, InTransaction, ThreadsInv, Holds
  <2>2. OnlyRow(r) /\ ~Holds(r)' /\ UNCHANGED raced
    BY <1>6, FinishRow DEF Finalize, Holds
  <2>3. \A u \in Request : u # r /\ Holds(u) =>
          threads[u].plan \in PlanId /\ threads[u].plan # threads[r].plan
    BY <2>1 DEF RunInv, Holds, ThreadsInv
  <2>4. \A q \in PlanId : q # threads[r].plan => steps'[q] = steps[q]
    BY <1>6 DEF Finalize, Settle, TypeOK
  <2>5. QED
    BY <2>2, <2>3, <2>4 DEF RunInv, OnlyRow, Holds
<1>7. ASSUME NEW r \in Request, NEW p \in PlanId, Reconcile(r, p) PROVE RunInv'
  <2>1. OnlyRow(r) /\ ~Holds(r)'
    BY <1>7, FinishRow DEF Reconcile, Holds
  <2>2. /\ \A q \in PlanId : q # p => steps'[q] = steps[q]
        /\ steps'[p] \in Reserved
    BY <1>7 DEF Reconcile, Settle, TypeOK, Reserved
  <2>3. \A u \in Request : Holds(u) => threads[u].plan \in PlanId
    BY DEF Holds, ThreadsInv
  <2>4. \A u \in Request : threads[u].pc \in {"reserved", "render"} /\ threads[u].plan = p
          => p \in raced'
    BY <1>7 DEF Reconcile, Calling
  <2>5. \A q \in PlanId : q \in raced => q \in raced'
    BY <1>7 DEF Reconcile
  <2>6. \A u \in Request : Holds(u)' => u # r /\ Holds(u) /\ threads'[u] = threads[u]
    BY <2>1 DEF OnlyRow, Holds
  <2>7. \A q, u \in Request :
          Holds(q)' /\ Holds(u)' /\ threads'[q].plan = threads'[u].plan => q = u
    BY <2>6 DEF RunInv
  <2>8. \A u \in Request : Holds(u)' => steps'[threads'[u].plan] \in Reserved
    BY <2>2, <2>3, <2>6 DEF RunInv
  <2>9. ASSUME NEW u \in Request, threads'[u].pc \in {"reserved", "render"},
               threads'[u].plan \notin raced'
        PROVE  steps'[threads'[u].plan] = "executing"
    <3>1. threads'[u] = threads[u] /\ threads[u].plan \in PlanId
      BY <2>3, <2>6, <2>9 DEF Holds
    <3>2. threads[u].plan # p /\ threads[u].plan \notin raced
      BY <2>4, <2>5, <2>9, <3>1
    <3>3. QED
      BY <2>2, <2>9, <3>1, <3>2 DEF RunInv
  <2>10. QED
    BY <2>7, <2>8, <2>9 DEF RunInv
<1>8. ASSUME NEW r \in Request,
             ToolRefuses(r) \/ CommitTool(r) \/ ToolRaises(r) \/ FinalizeFails(r)
      PROVE  RunInv'
  <2>1. CASE ToolRefuses(r)
    BY <1>2, <2>1 DEF ToolRefuses, Holds
  <2>2. CASE CommitTool(r)
    BY <1>2, <2>2 DEF CommitTool, InTransaction, OutcomeUnknown, Holds
  <2>3. CASE ToolRaises(r) \/ FinalizeFails(r)
    BY <1>2, <2>3 DEF ToolRaises, FinalizeFails, OutcomeUnknown, Holds
  <2>4. QED
    BY <1>8, <2>1, <2>2, <2>3
<1>9. ASSUME NEW r \in Request,
             \/ EndUnchanged(r) \/ EditItem(r) \/ MarkUnknown(r) \/ MarkFails(r) \/ Crash(r)
             \/ \E p \in PlanId, decision \in Decisions : Decide(r, p, decision)
      PROVE  RunInv'
  BY <1>1, <1>9 DEF EndUnchanged, EditItem, MarkUnknown, MarkFails, Crash, Decide
<1>10. CASE UNCHANGED <<threads, steps, raced>>
  BY <1>10 DEF RunInv, Holds
<1>11. ASSUME NEW r \in Request, PlanningStep(r) \/ ExecutionStep(r) PROVE RunInv'
  BY <1>3, <1>4, <1>5, <1>6, <1>8, <1>9, <1>10, <1>11 DEF PlanningStep, ExecutionStep, Renew
<1>12. QED
  BY <1>3, <1>7, <1>9, <1>10, <1>11
     DEF Next, HeartbeatGoesStale, DocumentMoves, vars

\* Two calls of one item never run together, unless a stale one was reconciled.
THEOREM OneCall == ASSUME Serialized PROVE Spec => []OneCallAtATime
<1>1. Init => RunInv /\ ItemInv
  BY DEF Init, RunInv, Holds, IdleThread, ItemInv, ItemTracksItsExecution, Pending, NewItem,
     NoPlan, PlanId
<1>2. RunInv /\ ItemInv => OneCallAtATime
  <2> SUFFICES ASSUME RunInv, ItemInv, NEW p \in PlanId, NEW q \in PlanId,
                      Calling(p), Calling(q), p \notin raced, q \notin raced
               PROVE  p = q
    BY DEF OneCallAtATime
  <2>1. steps[p] = "executing" /\ steps[q] = "executing"
    BY DEF Calling, RunInv
  <2>2. QED
    BY <2>1 DEF ItemInv, ItemTracksItsExecution
<1>3. QED
  BY <1>1, <1>2, ItemStep, RunStep, InvariantHolds, PTL DEF Spec

-----------------------------------------------------------------------------
(* What a settled step records.                                              *)

\* Thread r has not exported the document for its plan.
NotExported(r) ==
  \/ threads[r].pc \in {"reserved", "render"}
  \/ threads[r].pc = "finalize" /\ threads[r].response # "success"

\* A reservation needs an approved document, which only becomes exported; a call
\* that found nothing to export, or succeeded, leaves it exported.
RowTells(r) ==
  /\ Holds(r) => doc \in {"approved", "exported"}
  /\ threads[r].pc = "render" /\ ~threads[r].listed => doc = "exported"
  /\ threads[r].pc = "finalize" /\ threads[r].response = "success" => doc = "exported"
  /\ NotExported(r) => exporter # threads[r].plan

\* The plan that exported the document was reserved.
ExporterInv == exporter # NoPlan => doc = "exported" /\ steps[exporter] \in Reserved

OutcomeInv == (\A r \in Request : RowTells(r)) /\ ExporterInv /\ RecordedOutcomeIsTrue

\* Approved documents only become exported, and exported ones stay so.
DocStays ==
  /\ doc = "exported" => doc' = "exported"
  /\ doc = "approved" => doc' \in {"approved", "exported"}

\* One thread moves, no document is exported and no step settled.
LEMMA OutcomeKept ==
  ASSUME TypeOK, OutcomeInv, NEW r \in Request, OnlyRow(r), RowTells(r)',
         UNCHANGED <<doc, exporter, raced>>,
         \A p \in PlanId :
           steps'[p] # steps[p] => steps'[p] \notin {"executed", "failed"} /\ p # exporter
  PROVE  OutcomeInv'
<1>1. \A u \in Request : RowTells(u)'
  BY DEF OnlyRow, OutcomeInv, RowTells, Holds, NotExported
<1>2. ExporterInv'
  BY DEF OutcomeInv, ExporterInv, TypeOK
<1>3. RecordedOutcomeIsTrue'
  BY DEF OutcomeInv, RecordedOutcomeIsTrue
<1>4. QED
  BY <1>1, <1>2, <1>3 DEF OutcomeInv

\* A step settles as it is recorded.
LEMMA OutcomeSettled ==
  ASSUME TypeOK, OutcomeInv, NEW r \in Request, OnlyRow(r), ~Holds(r)', UNCHANGED <<doc, exporter>>,
         NEW v, NEW p \in PlanId, NEW success \in BOOLEAN, Settle(v, p, success),
         success => doc = "exported", ~success => exporter # p,
         raced \subseteq raced'
  PROVE  OutcomeInv'
<1>1. /\ steps'[p] = IF success THEN "executed" ELSE "failed"
      /\ \A q \in PlanId : q # p => steps'[q] = steps[q]
  BY DEF Settle, TypeOK
<1>2. \A u \in Request : u # r => RowTells(u)'
  BY DEF OnlyRow, OutcomeInv, RowTells, Holds, NotExported
<1>3. RowTells(r)'
  BY DEF Holds, RowTells, NotExported
<1>4. ExporterInv'
  BY <1>1 DEF OutcomeInv, ExporterInv, TypeOK, Reserved
<1>5. RecordedOutcomeIsTrue'
  BY <1>1 DEF OutcomeInv, RecordedOutcomeIsTrue
<1>6. QED
  BY <1>2, <1>3, <1>4, <1>5 DEF OutcomeInv

LEMMA CommitToolTells ==
  ASSUME Serialized, IInv, RunInv, OutcomeInv, NEW r \in Request, CommitTool(r)
  PROVE  OutcomeInv'
<1>1. /\ threads[r].pc = "render" /\ threads[r].open /\ threads[r].view = Database
      /\ threads[r].plan \in PlanId /\ RowTells(r) /\ Holds(r) /\ TypeOK
  BY DEF CommitTool, InTransaction, IInv, LockInv, ThreadsInv, OutcomeInv, Holds
<1>2. PICK p \in PlanId : p = threads[r].plan
  BY <1>1
<1>3. /\ OnlyRow(r) /\ threads'[r].plan = p /\ threads'[r].pc \in {"finalize", "unknown"}
      /\ threads'[r].pc = "finalize" => threads'[r].response = "success"
  <2>1. threads[r] \in ThreadRow /\ threads \in [Request -> ThreadRow]
    BY <1>1 DEF TypeOK
  <2>2. CASE GoTo(r, "finalize", "success")
    <3>1. threads'[r].response = "success"
      BY <2>1, <2>2 DEF GoTo, ThreadRow
    <3>2. QED
      BY <1>1, <1>2, <2>2, <3>1, GoToRow
  <2>3. CASE OutcomeUnknown(r)
    BY <1>1, <1>2, <2>3, GoToRow DEF OutcomeUnknown
  <2>4. QED
    BY <2>2, <2>3 DEF CommitTool
<1>4. doc' = "exported" /\ (exporter' = exporter \/ exporter' = p) /\ UNCHANGED <<steps, raced>>
  BY <1>1, <1>2 DEF CommitTool, RowTells
<1>5. ASSUME NEW u \in Request PROVE RowTells(u)'
  <2>1. CASE u = r
    BY <1>3, <1>4, <2>1 DEF RowTells, Holds, NotExported
  <2>2. CASE u # r
    <3>1. threads'[u] = threads[u] /\ RowTells(u)
      BY <1>3, <2>2 DEF OnlyRow, OutcomeInv
    <3>2. Holds(u) => threads[u].plan # p
      BY <1>1, <1>2, <2>2 DEF RunInv
    <3>3. NotExported(u) => Holds(u)
      BY DEF NotExported, Holds
    <3>4. QED
      BY <1>4, <3>1, <3>2, <3>3 DEF RowTells, Holds, NotExported
  <2>3. QED
    BY <2>1, <2>2
<1>6. ExporterInv'
  BY <1>1, <1>2, <1>4 DEF OutcomeInv, ExporterInv, RunInv
<1>7. RecordedOutcomeIsTrue'
  <2>1. p \notin raced => steps[p] = "executing"
    BY <1>1, <1>2 DEF RunInv
  <2>2. QED
    BY <1>4, <2>1 DEF OutcomeInv, RecordedOutcomeIsTrue
<1>8. QED
  BY <1>5, <1>6, <1>7 DEF OutcomeInv

\* Every step keeps it, when transactions exclude each other.
LEMMA OutcomeStep ==
  ASSUME Serialized
  PROVE  IInv /\ ItemInv /\ RunInv /\ OutcomeInv /\ [Next]_vars => OutcomeInv'
<1> SUFFICES ASSUME IInv, ItemInv, RunInv, OutcomeInv, [Next]_vars PROVE OutcomeInv'
  OBVIOUS
<1> USE DEF IInv
<1>1. ASSUME NEW r \in Request, Finish(r), UNCHANGED <<steps, doc, exporter, raced>>
      PROVE  OutcomeInv'
  <2>1. OnlyRow(r) /\ RowTells(r)'
    BY <1>1, FinishRow DEF RowTells, Holds, NotExported
  <2>2. QED
    BY <1>1, <2>1, OutcomeKept
<1>2. ASSUME NEW r \in Request, Open(r) \/ BeginPlan(r) PROVE OutcomeInv'
  <2>1. threads[r] \in ThreadRow /\ threads \in [Request -> ThreadRow]
    BY DEF TypeOK
  <2>2. /\ OnlyRow(r) /\ UNCHANGED <<steps, doc, exporter, raced>>
        /\ threads'[r].plan = threads[r].plan /\ threads'[r].listed = threads[r].listed
        /\ threads'[r].response = threads[r].response
        /\ threads'[r].pc = threads[r].pc \/ threads'[r].pc = "plan"
    BY <1>2, <2>1 DEF Open, BeginPlan, ThreadRow, OnlyRow
  <2>3. RowTells(r)'
    BY <2>2 DEF OutcomeInv, RowTells, Holds, NotExported
  <2>4. QED
    BY <2>2, <2>3, OutcomeKept
<1>3. ASSUME NEW r \in Request, CommitPlan(r) PROVE OutcomeInv'
  <2>1. PICK p \in PlanId :
          /\ steps[p] = "none"
          /\ steps' = [steps EXCEPT ![p] = PlannedStatus(threads[r].evidence)]
    BY <1>3 DEF CommitPlan
  <2>2. /\ steps'[p] \notin {"executed", "failed"}
        /\ \A q \in PlanId : q # p => steps'[q] = steps[q]
    BY <2>1 DEF TypeOK, PlannedStatus
  <2>3. p # exporter
    BY <2>1 DEF OutcomeInv, ExporterInv, Reserved, NoPlan, PlanId
  <2>4. OnlyRow(r) /\ RowTells(r)' /\ UNCHANGED <<doc, exporter, raced>>
    BY <1>3, FinishRow DEF CommitPlan, RowTells, Holds, NotExported
  <2>5. QED
    BY <2>2, <2>3, <2>4, OutcomeKept
<1>4. ASSUME NEW r \in Request, Reserve(r) PROVE OutcomeInv'
  <2>1. threads[r].view = Database /\ threads[r].view.item.plan \in PlanId
    BY <1>4, ViewOK DEF Reserve, InTransaction, LockInv
  <2>2. PICK p \in PlanId : p = threads[r].view.item.plan
    BY <2>1
  <2>3. steps[p] = "waiting_for_approval" /\ doc = "approved"
    BY <1>4, <2>1, <2>2 DEF Reserve, Executable, Database
  <2>4. exporter # p
    BY <2>3 DEF OutcomeInv, ExporterInv, Reserved, NoPlan, PlanId
  <2>5. OnlyRow(r) /\ threads'[r].plan = p /\ threads'[r].pc = "reserved"
        /\ UNCHANGED <<doc, exporter, raced>>
    BY <1>4, <2>2 DEF Reserve, IdleThread, OnlyRow, TypeOK
  <2>6. steps'[p] = "executing" /\ \A q \in PlanId : q # p => steps'[q] = steps[q]
    BY <1>4, <2>2 DEF Reserve, TypeOK
  <2>7. RowTells(r)'
    BY <2>3, <2>4, <2>5 DEF RowTells, Holds, NotExported
  <2>8. QED
    BY <2>4, <2>5, <2>6, <2>7, OutcomeKept
<1>5. ASSUME NEW r \in Request, CallTool(r) PROVE OutcomeInv'
  <2>1. threads[r] \in ThreadRow /\ threads \in [Request -> ThreadRow] /\ RowTells(r)
        /\ threads[r].pc = "reserved"
    BY <1>5 DEF TypeOK, OutcomeInv, CallTool
  <2>2. /\ OnlyRow(r) /\ UNCHANGED <<steps, doc, exporter, raced>>
        /\ threads'[r].plan = threads[r].plan /\ threads'[r].pc = "render"
        /\ threads'[r].listed <=> doc = "approved"
    BY <1>5, <2>1 DEF CallTool, ThreadRow, OnlyRow
  <2>3. RowTells(r)'
    BY <2>1, <2>2 DEF RowTells, Holds, NotExported
  <2>4. QED
    BY <2>2, <2>3, OutcomeKept
<1>6. ASSUME NEW r \in Request, ToolRefuses(r) PROVE OutcomeInv'
  <2>1. threads[r].pc = "reserved" /\ RowTells(r) /\ UNCHANGED <<steps, doc, exporter, raced>>
        /\ threads[r] \in ThreadRow /\ threads \in [Request -> ThreadRow]
    BY <1>6 DEF ToolRefuses, OutcomeInv, TypeOK
  <2>2. OnlyRow(r) /\ threads'[r].plan = threads[r].plan /\ threads'[r].pc = "finalize"
    BY <1>6, GoToRow DEF ToolRefuses
  <2>3. threads'[r].response = "failed"
    BY <1>6, <2>1 DEF ToolRefuses, GoTo, ThreadRow
  <2>4. RowTells(r)'
    BY <2>1, <2>2, <2>3 DEF RowTells, Holds, NotExported
  <2>5. QED
    BY <2>1, <2>2, <2>4, OutcomeKept
<1>7. ASSUME NEW r \in Request, ToolRaises(r) \/ FinalizeFails(r) PROVE OutcomeInv'
  <2>1. OnlyRow(r) /\ threads'[r].plan = threads[r].plan /\ threads'[r].pc = "unknown"
        /\ Holds(r) /\ UNCHANGED <<steps, doc, exporter, raced>>
    BY <1>7, GoToRow DEF ToolRaises, FinalizeFails, OutcomeUnknown, Holds
  <2>2. RowTells(r)'
    BY <2>1 DEF OutcomeInv, RowTells, Holds, NotExported
  <2>3. QED
    BY <2>1, <2>2, OutcomeKept
<1>8. ASSUME NEW r \in Request, Finalize(r) PROVE OutcomeInv'
  <2>1. threads[r].plan \in PlanId /\ threads[r].pc = "finalize" /\ RowTells(r)
    BY <1>8 DEF Finalize, InTransaction, ThreadsInv, OutcomeInv
  <2>2. CASE ~Matches(threads[r].view, r)
    BY <1>1, <1>8, <2>2 DEF Finalize
  <2>3. CASE Matches(threads[r].view, r)
    <3>1. Settle(threads[r].view, threads[r].plan, threads[r].response = "success")
      BY <1>8, <2>3 DEF Finalize
    <3>2. OnlyRow(r) /\ ~Holds(r)' /\ UNCHANGED <<doc, exporter, raced>>
      BY <1>8, FinishRow DEF Finalize, Holds
    <3>3. /\ threads[r].response = "success" => doc = "exported"
          /\ threads[r].response # "success" => exporter # threads[r].plan
      BY <2>1 DEF RowTells, NotExported
    <3>4. QED
      BY <2>1, <3>1, <3>2, <3>3, OutcomeSettled
  <2>4. QED
    BY <2>2, <2>3
<1>9. ASSUME NEW r \in Request, NEW p \in PlanId, Reconcile(r, p) PROVE OutcomeInv'
  <2>1. threads[r].view = Database
    BY <1>9 DEF Reconcile, InTransaction, LockInv
  <2>2. Settle(threads[r].view, p, doc = "exported")
    BY <1>9, <2>1 DEF Reconcile, Database
  <2>3. OnlyRow(r) /\ ~Holds(r)' /\ UNCHANGED <<doc, exporter>> /\ raced \subseteq raced'
    BY <1>9, FinishRow DEF Reconcile, Holds
  <2>4. doc # "exported" => exporter # p
    BY DEF OutcomeInv, ExporterInv, NoPlan, PlanId
  <2>5. QED
    BY <2>2, <2>3, <2>4, OutcomeSettled
<1>10. CASE DocumentMoves
  <2>1. DocStays /\ UNCHANGED <<steps, threads, exporter, raced>>
    BY <1>10 DEF DocumentMoves, DocStays, CanReachInOneCommit, CanTransition, AllowedTransitions
  <2>2. QED
    BY <2>1 DEF DocStays, OutcomeInv, RowTells, Holds, NotExported, ExporterInv,
                RecordedOutcomeIsTrue
<1>11. CASE UNCHANGED <<threads, steps, doc, exporter, raced>>
  BY <1>11 DEF OutcomeInv, RowTells, Holds, NotExported, ExporterInv, RecordedOutcomeIsTrue
<1>12. ASSUME NEW r \in Request,
              \/ EndUnchanged(r) \/ EditItem(r) \/ MarkUnknown(r) \/ MarkFails(r) \/ Crash(r)
              \/ \E p \in PlanId, decision \in Decisions : Decide(r, p, decision)
       PROVE  OutcomeInv'
  BY <1>1, <1>12 DEF EndUnchanged, EditItem, MarkUnknown, MarkFails, Crash, Decide
<1>13. ASSUME NEW r \in Request, PlanningStep(r) \/ ExecutionStep(r) PROVE OutcomeInv'
  BY <1>2, <1>3, <1>4, <1>5, <1>6, <1>7, <1>8, <1>11, <1>12, <1>13, CommitToolTells
     DEF PlanningStep, ExecutionStep, Renew
<1>14. QED
  BY <1>2, <1>9, <1>10, <1>11, <1>12, <1>13 DEF Next, HeartbeatGoesStale, vars

\* An executed step left its document exported, and a failed one did not export
\* it, unless it was reconciled while its call was running.
THEOREM RecordsAreTrue == ASSUME Serialized PROVE Spec => []RecordedOutcomeIsTrue
<1>1. Init => RunInv /\ ItemInv /\ OutcomeInv
  BY DEF Init, RunInv, Holds, IdleThread, ItemInv, ItemTracksItsExecution, Pending, NewItem,
     NoPlan, PlanId, OutcomeInv, RowTells, NotExported, ExporterInv, RecordedOutcomeIsTrue
<1>2. OutcomeInv => RecordedOutcomeIsTrue
  BY DEF OutcomeInv
<1>3. QED
  BY <1>1, <1>2, ItemStep, RunStep, OutcomeStep, InvariantHolds, PTL DEF Spec
=============================================================================
