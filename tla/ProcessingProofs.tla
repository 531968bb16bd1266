-------------------------- MODULE ProcessingProofs --------------------------
(***************************************************************************)
(* Proofs about Processing, for any documents, workers, requests and        *)
(* bounds: its types, that its job rows and lease history implement          *)
(* FencedLedger, that a job has one holder, and that stored results match    *)
(* the history.                                                              *)
(*                                                                           *)
(* Then three promises about its jobs, each kept unless a client command     *)
(* breaks it.  Where no client may cancel, retries stay within their budget: *)
(* each lease of a job is counted in its row, and the copy of the count by   *)
(* which a holder decides is the row's for as long as the holder is fenced   *)
(* in.  A wake-up is completed only once its job left the queue: who holds a *)
(* message beyond its receipt has seen its job claimed, ended or cancelled,  *)
(* or has not seen it and says so, and no job returns to "queued".  Where no client may process a document   *)
(* at once, a job that finished is never started again.                      *)
(***************************************************************************)
EXTENDS Processing, FiniteSetTheorems, TLAPS

\* Job rows appear in order; a running row, and no other, carries a lease, and
\* that lease is on record for the job and open.
JobsInv ==
  \A j \in JobId :
    /\ j > created => jobs[j] = NoRow
    /\ j <= created => jobs[j].doc \in Doc
    /\ jobs[j].status = "running" <=> jobs[j].token # NoLease
    /\ jobs[j].attempts <= issued
    /\ jobs[j].token # NoLease =>
         /\ jobs[j].token <= issued
         /\ ledger[jobs[j].token] = [job |-> j, outcome |-> "open"]

\* What a thread holds refers to rows that exist and to leases already issued.
RowOK(row) ==
  /\ row.pc \in {"claimed", "read", "acquire", "leased", "extracting", "publish", "cancel"}
       => row.job \in 1..created /\ row.doc = jobs[row.job].doc
  /\ row.pc = "received" /\ row.msg \in JobId => row.msg \in 1..created
  /\ row.pc \in {"enqueue", "cancel_read"} => row.doc \in Doc
  /\ row.pc \in {"idle", "acquire"} => row.token = NoLease
  /\ row.pc = "read" /\ row.token # NoLease => row.jobSeen = "running"
  /\ row.attempts <= issued
  /\ row.token <= issued

\* No two threads were given the same lease.
TokensDiffer ==
  \A t, u \in Thread :
    t # u /\ threads[t].token # NoLease => threads[t].token # threads[u].token

ThreadsInv == TokensDiffer /\ \A t \in Thread : RowOK(threads[t])

\* Messages exist only for jobs that do.
MailInv == \A j \in JobId : mail[j].state # "none" => j <= created

\* Leases are issued in order, each for one existing job.
LedgerInv ==
  \A l \in Lease : /\ l > issued <=> ledger[l].outcome = "unissued"
                   /\ l <= issued => ledger[l].job \in 1..created

IInv == TypeOK /\ JobsInv /\ ThreadsInv /\ MailInv /\ LedgerInv

-----------------------------------------------------------------------------
(* Rows of the thread table.                                                 *)

\* The bounds are numbers.
LEMMA Sizes == MaxJobs \in Nat /\ MaxLeases \in Nat
  BY ConstantsAssumption

\* No job is numbered 0.
LEMMA NoJobIsNoJob == NoJob \notin JobId
  BY Sizes DEF NoJob, JobId

\* Threads at rest, or about to be, hold no lease.
LEMMA IdleRowOK == ASSUME TypeOK PROVE IdleThread \in ThreadRow /\ RowOK(IdleThread)
  BY ConstantsAssumption DEF TypeOK, IdleThread, ThreadRow, RowOK, NoJob, NoLease, Status, Absent,
     JobStatus

ThreadResult == {"ok", "skipped", "lease_lost", "rejected", "error"}

DoneRow(msg, result) ==
  [IdleThread EXCEPT !.pc = "done", !.msg = msg, !.result = result]

\* The row Finish leaves is a thread row.
LEMMA DoneRowOK ==
  ASSUME TypeOK, NEW msg \in Message \union {NoJob}, NEW result \in ThreadResult
  PROVE  DoneRow(msg, result) \in ThreadRow /\ RowOK(DoneRow(msg, result))
         /\ DoneRow(msg, result).token = NoLease
<1>1. IdleThread \in ThreadRow /\ RowOK(IdleThread)
  BY IdleRowOK
<1>2. DoneRow(msg, result) \in ThreadRow
  BY <1>1 DEF DoneRow, ThreadRow, ThreadResult
<1>3. DoneRow(msg, result).token = NoLease /\ DoneRow(msg, result).attempts = 0
      /\ DoneRow(msg, result).pc = "done"
  BY <1>1 DEF DoneRow, IdleThread, ThreadRow
<1>4. RowOK(DoneRow(msg, result))
  BY <1>3 DEF RowOK, TypeOK, NoLease
<1>5. QED
  BY <1>2, <1>3, <1>4

\* A thread moves to a new row while job rows are added and leases issued.
LEMMA ThreadsPart ==
  ASSUME TypeOK, ThreadsInv, NEW t \in Thread, NEW row \in ThreadRow,
         threads' = [threads EXCEPT ![t] = row], RowOK(row)',
         row.token \in {NoLease, threads[t].token, issued + 1},
         created' \in created..MaxJobs, issued' \in issued..MaxLeases,
         \A k \in 1..created : jobs'[k].doc = jobs[k].doc
  PROVE  threads' \in [Thread -> ThreadRow] /\ ThreadsInv'
<1>1. threads' \in [Thread -> ThreadRow]
  BY DEF TypeOK
<1>2. \A u \in Thread : u # t => threads'[u] = threads[u]
  BY DEF TypeOK
<1>3. threads'[t] = row
  BY DEF TypeOK
<1>4. \A u \in Thread : threads[u].token <= issued /\ threads[u].token \in Nat
  BY ConstantsAssumption DEF TypeOK, ThreadsInv, RowOK, ThreadRow, Lease, NoLease
<1>5. TokensDiffer'
  <2> SUFFICES ASSUME NEW u \in Thread, NEW v \in Thread, u # v,
                      threads'[u].token # NoLease
               PROVE  threads'[u].token # threads'[v].token
    BY DEF TokensDiffer
  <2>1. \A x, y \in Thread :
          x # y /\ threads[x].token # NoLease => threads[x].token # threads[y].token
    BY DEF ThreadsInv, TokensDiffer
  <2>2. issued \in Nat
    BY ConstantsAssumption DEF TypeOK
  <2>3. CASE u = t
    BY <1>2, <1>3, <1>4, <2>1, <2>2, <2>3 DEF NoLease
  <2>4. CASE v = t
    BY <1>2, <1>3, <1>4, <2>1, <2>2, <2>4 DEF NoLease
  <2>5. CASE u # t /\ v # t
    BY <1>2, <2>1, <2>5
  <2>6. QED
    BY <2>3, <2>4, <2>5
<1>6. \A u \in Thread : RowOK(threads[u])'
  <2> SUFFICES ASSUME NEW u \in Thread, u # t PROVE RowOK(threads[u])'
    BY <1>3 DEF RowOK
  <2>1. RowOK(threads[u]) /\ threads[u] \in ThreadRow
    BY DEF ThreadsInv, TypeOK
  <2>2. QED
    BY <1>2, <2>1, ConstantsAssumption DEF RowOK, TypeOK, ThreadRow, Lease, NoLease
<1>7. QED
  BY <1>1, <1>5, <1>6 DEF ThreadsInv

-----------------------------------------------------------------------------
(* Steps of the job table and the lease history.                             *)

\* What the two tables of the ledger satisfy by themselves.
JobTablesOK ==
  /\ jobs \in [JobId -> JobRow]
  /\ ledger \in [Lease -> [job: JobId \union {NoJob}, outcome: Outcome]]
  /\ created \in 0..MaxJobs /\ issued \in 0..MaxLeases
  /\ JobsInv /\ LedgerInv

\* Rows that end or begin a job are job rows.
LEMMA EndedRowOK ==
  ASSUME NEW job \in JobRow, NEW status \in JobStatus
  PROVE  /\ Ended(job, status) \in JobRow
         /\ Ended(job, status).doc = job.doc /\ Ended(job, status).status = status
         /\ Ended(job, status).token = NoLease /\ Ended(job, status).attempts = job.attempts
  BY DEF JobRow, Ended

\* A new job is a job row without a lease.
LEMMA QueuedRowOK ==
  ASSUME NEW d \in Doc
  PROVE  /\ QueuedRow(d) \in JobRow /\ QueuedRow(d).doc = d /\ QueuedRow(d).status = "queued"
         /\ QueuedRow(d).token = NoLease /\ QueuedRow(d).attempts = 0
<1>1. NoRow \in JobRow /\ NoRow.token = NoLease /\ NoRow.attempts = 0
  BY ConstantsAssumption DEF NoRow, JobRow, JobStatus
<1>2. QED
  BY <1>1 DEF QueuedRow, JobRow, JobStatus

\* The bookkeeping of a row changes, its status and its lease do not.
LEMMA FlagStep ==
  ASSUME JobTablesOK, NEW j \in JobId, NEW late \in BOOLEAN, NEW due \in BOOLEAN,
         jobs[j].status # "none",
         jobs' = [jobs EXCEPT ![j] = [@ EXCEPT !.late = late, !.due = due]],
         UNCHANGED <<ledger, created, issued>>
  PROVE  JobTablesOK' /\ \A k \in 1..created : jobs'[k].doc = jobs[k].doc
<1> DEFINE row == [jobs[j] EXCEPT !.late = late, !.due = due]
<1>1. row \in JobRow /\ jobs'[j] = row
  BY DEF JobTablesOK, JobRow
<1>2. /\ row.doc = jobs[j].doc /\ row.status = jobs[j].status
      /\ row.token = jobs[j].token /\ row.attempts = jobs[j].attempts
  BY DEF JobTablesOK, JobRow
<1>3. \A k \in JobId : k # j => jobs'[k] = jobs[k]
  BY DEF JobTablesOK
<1>4. jobs' \in [JobId -> JobRow]
  BY <1>1 DEF JobTablesOK
<1>5. j <= created
  <2>1. j > created => jobs[j] = NoRow
    BY DEF JobTablesOK, JobsInv
  <2>2. NoRow.status = "none"
    BY DEF NoRow
  <2>3. QED
    BY <2>1, <2>2, ConstantsAssumption DEF JobTablesOK, JobId
<1>6. JobsInv'
  <2> SUFFICES ASSUME NEW k \in JobId
               PROVE  /\ k > created' => jobs'[k] = NoRow
                      /\ k <= created' => jobs'[k].doc \in Doc
                      /\ jobs'[k].status = "running" <=> jobs'[k].token # NoLease
                      /\ jobs'[k].attempts <= issued'
                      /\ jobs'[k].token # NoLease =>
                           /\ jobs'[k].token <= issued'
                           /\ ledger'[jobs'[k].token] = [job |-> k, outcome |-> "open"]
    BY DEF JobsInv
  <2>1. CASE k = j
    BY <1>1, <1>2, <1>5, <2>1 DEF JobTablesOK, JobsInv, JobId
  <2>2. CASE k # j
    BY <1>3, <2>2 DEF JobTablesOK, JobsInv
  <2>3. QED
    BY <2>1, <2>2
<1>7. LedgerInv'
  BY DEF JobTablesOK, LedgerInv
<1>8. QED
  BY <1>1, <1>2, <1>3, <1>4, <1>6, <1>7, ConstantsAssumption DEF JobTablesOK, JobId

\* A job that exists starts under the next lease.
LEMMA StartJobStep ==
  ASSUME JobTablesOK, NEW j \in 1..created, StartJob(j), UNCHANGED created
  PROVE  /\ JobTablesOK'
         /\ \A k \in 1..created : jobs'[k].doc = jobs[k].doc
         /\ issued + 1 \in Lease
<1> DEFINE row == Started(jobs[j], issued + 1)
<1>1. j \in JobId /\ issued + 1 \in Lease /\ issued + 1 # NoLease
  BY ConstantsAssumption DEF JobTablesOK, JobId, Lease, NoLease, StartJob
<1>2. row \in JobRow
  <2>1. jobs[j].attempts + 1 \in 0..MaxLeases
    BY <1>1, ConstantsAssumption DEF JobTablesOK, JobsInv, StartJob, JobRow
  <2>2. QED
    BY <1>1, <2>1, ZenonT(60) DEF JobTablesOK, JobRow, Started, JobStatus
<1>3. /\ row.doc = jobs[j].doc /\ row.status = "running"
      /\ row.token = issued + 1 /\ row.attempts = jobs[j].attempts + 1
  BY <1>1 DEF JobTablesOK, JobRow, Started
<1>4. jobs'[j] = row /\ \A k \in JobId : k # j => jobs'[k] = jobs[k]
  BY <1>1 DEF JobTablesOK, StartJob
<1>5. jobs' \in [JobId -> JobRow]
  BY <1>2 DEF JobTablesOK, StartJob
<1>6. /\ ledger' \in [Lease -> [job: JobId \union {NoJob}, outcome: Outcome]]
      /\ ledger'[issued + 1] = [job |-> j, outcome |-> "open"]
      /\ \A l \in Lease : l # issued + 1 => ledger'[l] = ledger[l]
  BY <1>1 DEF JobTablesOK, StartJob, Outcome
<1>7. issued' = issued + 1 /\ issued' \in 0..MaxLeases
  BY ConstantsAssumption DEF JobTablesOK, StartJob
<1>8. JobsInv'
  <2> SUFFICES ASSUME NEW k \in JobId
               PROVE  /\ k > created' => jobs'[k] = NoRow
                      /\ k <= created' => jobs'[k].doc \in Doc
                      /\ jobs'[k].status = "running" <=> jobs'[k].token # NoLease
                      /\ jobs'[k].attempts <= issued'
                      /\ jobs'[k].token # NoLease =>
                           /\ jobs'[k].token <= issued'
                           /\ ledger'[jobs'[k].token] = [job |-> k, outcome |-> "open"]
    BY DEF JobsInv
  <2>1. CASE k = j
    BY <1>1, <1>3, <1>4, <1>6, <1>7, <2>1, ConstantsAssumption
       DEF JobTablesOK, JobsInv, JobId, JobRow
  <2>2. CASE k # j
    BY <1>4, <1>6, <1>7, <2>2, ConstantsAssumption
       DEF JobTablesOK, JobsInv, JobRow, Lease, NoLease
  <2>3. QED
    BY <2>1, <2>2
<1>9. LedgerInv'
  BY <1>1, <1>6, <1>7, ConstantsAssumption DEF JobTablesOK, LedgerInv, Lease
<1>10. JobTablesOK'
  BY <1>5, <1>6, <1>7, <1>8, <1>9 DEF JobTablesOK
<1>11. 1..created \subseteq JobId
  BY Sizes DEF JobTablesOK, JobId
<1>12. QED
  BY <1>1, <1>3, <1>4, <1>10, <1>11

\* The holder of a job records the outcome of its lease.
LEMMA SaveFencedStep ==
  ASSUME JobTablesOK, NEW t \in Thread, threads[t].job \in 1..created,
         NEW status \in {"succeeded", "retrying", "failed", "dead_letter"},
         SaveFenced(t, status), UNCHANGED <<created, issued>>
  PROVE  /\ JobTablesOK'
         /\ \A k \in 1..created : jobs'[k].doc = jobs[k].doc
         /\ threads[t].token \in Lease
         /\ ledger[threads[t].token] = [job |-> threads[t].job, outcome |-> "open"]
<1> DEFINE j == threads[t].job
           l == threads[t].token
           row == Ended(jobs[j], status)
<1>1. j \in JobId
  BY ConstantsAssumption DEF JobTablesOK, JobId
<1>2. jobs[j].status = "running" /\ jobs[j].token = l
  BY DEF SaveFenced, Holds
<1>3. l # NoLease
  BY <1>1, <1>2 DEF JobTablesOK, JobsInv
<1>4. l \in Lease /\ ledger[l] = [job |-> j, outcome |-> "open"]
  BY <1>1, <1>2, <1>3 DEF JobTablesOK, JobsInv, JobRow
<1>5. jobs[j] \in JobRow /\ status \in JobStatus
  BY <1>1 DEF JobTablesOK, JobStatus
<1>6. /\ row \in JobRow /\ row.doc = jobs[j].doc /\ row.status = status
      /\ row.token = NoLease /\ row.attempts = jobs[j].attempts
  BY <1>5, EndedRowOK
<1>7. jobs'[j] = row /\ \A k \in JobId : k # j => jobs'[k] = jobs[k]
  BY <1>1 DEF JobTablesOK, SaveFenced
<1>8. jobs' \in [JobId -> JobRow]
  BY <1>6 DEF JobTablesOK, SaveFenced
<1>9. /\ ledger' \in [Lease -> [job: JobId \union {NoJob}, outcome: Outcome]]
      /\ ledger'[l].job = j /\ ledger'[l].outcome = status
      /\ \A m \in Lease : m # l => ledger'[m] = ledger[m]
  BY <1>4 DEF JobTablesOK, SaveFenced, Outcome
<1>10. JobsInv'
  <2> SUFFICES ASSUME NEW k \in JobId
               PROVE  /\ k > created' => jobs'[k] = NoRow
                      /\ k <= created' => jobs'[k].doc \in Doc
                      /\ jobs'[k].status = "running" <=> jobs'[k].token # NoLease
                      /\ jobs'[k].attempts <= issued'
                      /\ jobs'[k].token # NoLease =>
                           /\ jobs'[k].token <= issued'
                           /\ ledger'[jobs'[k].token] = [job |-> k, outcome |-> "open"]
    BY DEF JobsInv
  <2>1. CASE k = j
    BY <1>1, <1>6, <1>7, <2>1, ConstantsAssumption DEF JobTablesOK, JobsInv, JobId
  <2>2. CASE k # j
    <3>1. jobs[k].token # NoLease => jobs[k].token # l
      <4> SUFFICES ASSUME jobs[k].token # NoLease, jobs[k].token = l PROVE FALSE
        OBVIOUS
      <4>1. ledger[l] = [job |-> k, outcome |-> "open"]
        BY DEF JobTablesOK, JobsInv
      <4>2. QED
        BY <1>4, <2>2, <4>1
    <3>2. QED
      BY <1>7, <1>9, <2>2, <3>1 DEF JobTablesOK, JobsInv, JobRow
  <2>3. QED
    BY <2>1, <2>2
<1>11. LedgerInv'
  <2>1. ledger[l].job = j /\ ledger[l].outcome = "open"
    BY <1>4
  <2>2. QED
    BY <1>4, <1>9, <2>1 DEF JobTablesOK, LedgerInv
<1>12. JobTablesOK'
  BY <1>8, <1>9, <1>10, <1>11 DEF JobTablesOK
<1>13. 1..created \subseteq JobId
  BY Sizes DEF JobTablesOK, JobId
<1>14. QED
  BY <1>1, <1>4, <1>6, <1>7, <1>12, <1>13

\* A queued job is added after all the others.
LEMMA AddJobStep ==
  ASSUME JobTablesOK, NEW d \in Doc, AddJob(d), UNCHANGED <<ledger, issued>>
  PROVE  /\ JobTablesOK'
         /\ \A k \in 1..created : jobs'[k].doc = jobs[k].doc
         /\ created + 1 \in JobId /\ created' = created + 1
         /\ jobs'[created + 1].doc = d
<1>1. created + 1 \in JobId /\ created' = created + 1 /\ created' \in 0..MaxJobs
  BY ConstantsAssumption DEF JobTablesOK, AddJob, JobId
<1>2. /\ QueuedRow(d) \in JobRow /\ QueuedRow(d).doc = d /\ QueuedRow(d).status = "queued"
      /\ QueuedRow(d).token = NoLease /\ QueuedRow(d).attempts = 0
  BY QueuedRowOK
<1>3. /\ jobs'[created + 1] = QueuedRow(d)
      /\ \A k \in JobId : k # created + 1 => jobs'[k] = jobs[k]
  BY <1>1 DEF JobTablesOK, AddJob
<1>4. jobs' \in [JobId -> JobRow]
  BY <1>2 DEF JobTablesOK, AddJob
<1>5. JobsInv'
  <2> SUFFICES ASSUME NEW k \in JobId
               PROVE  /\ k > created' => jobs'[k] = NoRow
                      /\ k <= created' => jobs'[k].doc \in Doc
                      /\ jobs'[k].status = "running" <=> jobs'[k].token # NoLease
                      /\ jobs'[k].attempts <= issued'
                      /\ jobs'[k].token # NoLease =>
                           /\ jobs'[k].token <= issued'
                           /\ ledger'[jobs'[k].token] = [job |-> k, outcome |-> "open"]
    BY DEF JobsInv
  <2>1. CASE k = created + 1
    BY <1>1, <1>2, <1>3, <2>1, ConstantsAssumption DEF JobTablesOK, JobsInv, JobId
  <2>2. CASE k # created + 1
    BY <1>1, <1>3, <2>2, ConstantsAssumption DEF JobTablesOK, JobsInv, JobId
  <2>3. QED
    BY <2>1, <2>2
<1>6. LedgerInv'
  BY <1>1, ConstantsAssumption DEF JobTablesOK, LedgerInv
<1>7. QED
  BY <1>1, <1>2, <1>3, <1>4, <1>5, <1>6, ConstantsAssumption DEF JobTablesOK, JobId

\* A job that is not running is overwritten as cancelled.
LEMMA CancelJobStep ==
  ASSUME JobTablesOK, NEW j \in 1..created, jobs[j].status # "running",
         NEW attempts \in 0..issued,
         jobs' = [jobs EXCEPT ![j] = [Ended(@, "cancelled") EXCEPT !.attempts = attempts]],
         UNCHANGED <<ledger, created, issued>>
  PROVE  /\ JobTablesOK'
         /\ \A k \in 1..created : jobs'[k].doc = jobs[k].doc
         /\ \A k \in JobId : jobs'[k].token = jobs[k].token
<1> DEFINE row == [Ended(jobs[j], "cancelled") EXCEPT !.attempts = attempts]
<1>1. j \in JobId
  BY ConstantsAssumption DEF JobTablesOK, JobId
<1>2. Ended(jobs[j], "cancelled") \in JobRow /\ Ended(jobs[j], "cancelled").doc = jobs[j].doc
      /\ Ended(jobs[j], "cancelled").status = "cancelled"
      /\ Ended(jobs[j], "cancelled").token = NoLease
  BY <1>1, EndedRowOK DEF JobTablesOK, JobStatus
<1>3. /\ row \in JobRow /\ row.doc = jobs[j].doc /\ row.status = "cancelled"
      /\ row.token = NoLease /\ row.attempts = attempts
  BY <1>2, ConstantsAssumption DEF JobTablesOK, JobRow
<1>4. jobs'[j] = row /\ \A k \in JobId : k # j => jobs'[k] = jobs[k]
  BY <1>1 DEF JobTablesOK
<1>5. jobs' \in [JobId -> JobRow]
  BY <1>3 DEF JobTablesOK
<1>6. JobsInv'
  <2> SUFFICES ASSUME NEW k \in JobId
               PROVE  /\ k > created' => jobs'[k] = NoRow
                      /\ k <= created' => jobs'[k].doc \in Doc
                      /\ jobs'[k].status = "running" <=> jobs'[k].token # NoLease
                      /\ jobs'[k].attempts <= issued'
                      /\ jobs'[k].token # NoLease =>
                           /\ jobs'[k].token <= issued'
                           /\ ledger'[jobs'[k].token] = [job |-> k, outcome |-> "open"]
    BY DEF JobsInv
  <2>1. CASE k = j
    BY <1>1, <1>3, <1>4, <2>1, ConstantsAssumption DEF JobTablesOK, JobsInv, JobId
  <2>2. CASE k # j
    BY <1>4, <2>2 DEF JobTablesOK, JobsInv
  <2>3. QED
    BY <2>1, <2>2
<1>7. LedgerInv'
  BY DEF JobTablesOK, LedgerInv
<1>8. \A k \in JobId : jobs'[k].token = jobs[k].token
  BY <1>1, <1>3, <1>4 DEF JobTablesOK, JobsInv
<1>9. QED
  BY <1>1, <1>3, <1>4, <1>5, <1>6, <1>7, <1>8, ConstantsAssumption DEF JobTablesOK, JobId
-----------------------------------------------------------------------------
(* Steps of the whole system.                                                *)

\* One thread moves, while the job tables, the documents and the mail change
\* within their invariants.
LEMMA StepInv ==
  ASSUME IInv, NEW t \in Thread, NEW row \in ThreadRow,
         threads' = [threads EXCEPT ![t] = row], RowOK(row)',
         row.token \in {NoLease, threads[t].token, issued + 1},
         JobTablesOK', created' >= created, issued' >= issued,
         \A k \in 1..created : jobs'[k].doc = jobs[k].doc,
         docs' \in [Doc -> Status \union {Absent}],
         extraction' \in [Doc -> Extraction],
         mail' \in [Message -> MailRow], MailInv',
         crashes' \in 0..MaxCrashes, stalls' \in 0..MaxStalls
  PROVE  IInv'
<1>1. TypeOK /\ ThreadsInv
  BY DEF IInv
<1>2. created' \in created..MaxJobs /\ issued' \in issued..MaxLeases
  BY <1>1, ConstantsAssumption DEF JobTablesOK, TypeOK
<1>3. threads' \in [Thread -> ThreadRow] /\ ThreadsInv'
  BY <1>1, <1>2, ThreadsPart
<1>4. TypeOK'
  BY <1>3 DEF TypeOK, JobTablesOK
<1>5. QED
  BY <1>3, <1>4 DEF IInv, JobTablesOK

\* The job tables satisfy their invariant whenever the system does.
LEMMA TablesOK == IInv => JobTablesOK
  BY DEF IInv, JobTablesOK, TypeOK

\* One thread moves and nothing else does.
LEMMA QuietStep ==
  ASSUME IInv, NEW t \in Thread, NEW row \in ThreadRow, RowOK(row),
         row.token \in {NoLease, threads[t].token},
         threads' = [threads EXCEPT ![t] = row],
         UNCHANGED <<database, mail>>,
         crashes' \in 0..MaxCrashes, stalls' \in 0..MaxStalls
  PROVE  IInv'
<1>1. UNCHANGED <<docs, jobs, created, extraction, ledger, issued, mail>>
  BY DEF database
<1>2. JobTablesOK /\ JobTablesOK'
  BY <1>1, TablesOK DEF JobTablesOK, JobsInv, LedgerInv
<1>3. RowOK(row)'
  BY <1>1 DEF RowOK
<1>4. MailInv' /\ mail' \in [Message -> MailRow] /\ docs' \in [Doc -> Status \union {Absent}]
      /\ extraction' \in [Doc -> Extraction]
  BY <1>1 DEF IInv, TypeOK, MailInv
<1>5. created' >= created /\ issued' >= issued
  BY <1>1, <1>2, ConstantsAssumption DEF JobTablesOK
<1>6. QED
  BY <1>1, <1>2, <1>3, <1>4, <1>5, StepInv

\* A run that ends without touching the tables.
LEMMA FinishInv ==
  ASSUME IInv, NEW t \in Thread, NEW result \in ThreadResult,
         Finish(t, result), UNCHANGED <<database, mail>>,
         crashes' \in 0..MaxCrashes, stalls' \in 0..MaxStalls
  PROVE  IInv'
<1>1. TypeOK /\ threads[t].msg \in Message \union {NoJob}
  BY DEF IInv, TypeOK, ThreadRow
<1>2. threads' = [threads EXCEPT ![t] = DoneRow(threads[t].msg, result)]
  BY DEF Finish, DoneRow
<1>3. QED
  BY <1>1, <1>2, DoneRowOK, QuietStep

\* As above, and the environment does nothing either.
LEMMA FinishQuietly ==
  ASSUME IInv, NEW t \in Thread, NEW result \in ThreadResult,
         Finish(t, result), UNCHANGED <<database, mail, faults>>
  PROVE  IInv'
<1>1. crashes' \in 0..MaxCrashes /\ stalls' \in 0..MaxStalls
  BY DEF IInv, TypeOK, faults
<1>2. QED
  BY <1>1, FinishInv

\* A thread's own row, for the steps below.
LEMMA OwnRow ==
  ASSUME IInv, NEW t \in Thread
  PROVE  threads[t] \in ThreadRow /\ RowOK(threads[t])
  BY DEF IInv, TypeOK, ThreadsInv

\* A step that leaves the tables alone may still settle or lock messages.
LEMMA MailStep ==
  ASSUME IInv, NEW t \in Thread, NEW row \in ThreadRow, RowOK(row),
         row.token \in {NoLease, threads[t].token},
         threads' = [threads EXCEPT ![t] = row],
         mail' \in [Message -> MailRow], MailInv',
         UNCHANGED <<database, faults>>
  PROVE  IInv'
<1>1. UNCHANGED <<docs, jobs, created, extraction, ledger, issued, crashes, stalls>>
  BY DEF database, faults
<1>2. JobTablesOK /\ JobTablesOK'
  BY <1>1, TablesOK DEF JobTablesOK, JobsInv, LedgerInv
<1>3. RowOK(row)'
  BY <1>1 DEF RowOK
<1>4. /\ docs' \in [Doc -> Status \union {Absent}] /\ extraction' \in [Doc -> Extraction]
      /\ crashes' \in 0..MaxCrashes /\ stalls' \in 0..MaxStalls
  BY <1>1 DEF IInv, TypeOK
<1>5. created' >= created /\ issued' >= issued
  BY <1>1, <1>2, ConstantsAssumption DEF JobTablesOK
<1>6. QED
  BY <1>1, <1>2, <1>3, <1>4, <1>5, StepInv

\* Receiving a message preserves the inductive invariant.
LEMMA ReceiveMessageInv == ASSUME IInv, NEW w \in Worker, ReceiveMessage(w) PROVE IInv'
<1>1. PICK j \in Message :
        /\ mail[j].state = "ready"
        /\ mail' = [mail EXCEPT ![j] = [state |-> "locked", deliveries |-> @.deliveries + 1,
                                        holder |-> w]]
        /\ threads' = [threads EXCEPT ![w].pc = "received", ![w].msg = j]
  BY DEF ReceiveMessage
<1> DEFINE row == [threads[w] EXCEPT !.pc = "received", !.msg = j]
<1>2. w \in Thread /\ threads[w] \in ThreadRow /\ RowOK(threads[w])
  BY OwnRow DEF Thread
<1>3. threads' = [threads EXCEPT ![w] = row]
  BY <1>1, <1>2 DEF IInv, TypeOK
<1>4. /\ row \in ThreadRow /\ row.pc = "received" /\ row.msg = j
      /\ row.attempts = threads[w].attempts /\ row.token = threads[w].token
  BY <1>2 DEF ThreadRow
<1>5. j \in JobId => j \in 1..created
  BY <1>1, ConstantsAssumption DEF IInv, MailInv, TypeOK, JobId
<1>6. RowOK(row)
  BY <1>2, <1>4, <1>5 DEF RowOK
<1>7. mail' \in [Message -> MailRow]
  BY <1>1 DEF IInv, TypeOK, MailRow
<1>8. MailInv'
  <2>1. \A k \in JobId : k # j => mail'[k] = mail[k]
    BY <1>1 DEF IInv, TypeOK, Message
  <2>2. QED
    BY <1>5, <2>1 DEF IInv, MailInv, ReceiveMessage, database
<1>9. UNCHANGED <<database, faults>>
  BY DEF ReceiveMessage
<1>10. QED
  BY <1>2, <1>3, <1>4, <1>6, <1>7, <1>8, <1>9, MailStep

\* Both ways of claiming a job.
LEMMA ClaimInv ==
  ASSUME IInv, NEW w \in Worker, NEW j \in 1..created, Claim(w, j)
  PROVE  IInv'
<1>1. w \in Thread /\ threads[w] \in ThreadRow /\ RowOK(threads[w])
  BY OwnRow DEF Thread
<1>2. UNCHANGED <<docs, created, extraction, mail, crashes, stalls>> /\ StartJob(j)
  BY DEF Claim, faults
<1>3. /\ JobTablesOK'
      /\ \A k \in 1..created : jobs'[k].doc = jobs[k].doc
      /\ issued + 1 \in Lease
  BY <1>2, StartJobStep, TablesOK
<1>4. j \in JobId /\ jobs[j].doc \in Doc
  <2>1. j \in JobId /\ j <= created
    BY ConstantsAssumption DEF IInv, TypeOK, JobId
  <2>2. QED
    BY <2>1 DEF IInv, JobsInv
<1>5. PICK row \in ThreadRow :
        row = [threads[w] EXCEPT !.pc = "claimed", !.job = j, !.doc = jobs[j].doc,
                                 !.token = issued + 1]
  BY <1>1, <1>3, <1>4 DEF ThreadRow
<1>6. /\ row.pc = "claimed" /\ row.job = j /\ row.doc = jobs[j].doc
      /\ row.attempts = threads[w].attempts /\ row.token = issued + 1
      /\ threads' = [threads EXCEPT ![w] = row]
  BY <1>1, <1>5, ZenonT(60) DEF ThreadRow, Claim, IInv, TypeOK
<1>7. issued' = issued + 1 /\ issued \in Nat
  BY <1>2, ConstantsAssumption DEF StartJob, IInv, TypeOK
<1>8. RowOK(row)'
  <2>1. threads[w].attempts <= issued /\ threads[w].attempts \in Nat
    BY <1>1, ConstantsAssumption DEF RowOK, ThreadRow
  <2>2. jobs'[j].doc = jobs[j].doc
    BY <1>3
  <2>3. QED
    BY <1>2, <1>6, <1>7, <2>1, <2>2 DEF RowOK
<1>9. /\ mail' \in [Message -> MailRow] /\ MailInv'
      /\ docs' \in [Doc -> Status \union {Absent}] /\ extraction' \in [Doc -> Extraction]
      /\ crashes' \in 0..MaxCrashes /\ stalls' \in 0..MaxStalls
      /\ created' >= created /\ issued' >= issued
  BY <1>2, <1>7, ConstantsAssumption DEF IInv, TypeOK, MailInv
<1>10. QED
  BY <1>1, <1>3, <1>5, <1>6, <1>8, <1>9, StepInv

\* Claiming the job a message names preserves the inductive invariant.
LEMMA ClaimDeliveredInv == ASSUME IInv, NEW w \in Worker, ClaimDelivered(w) PROVE IInv'
<1>1. threads[w].msg \in 1..created
  BY OwnRow DEF ClaimDelivered, At, RowOK, Thread
<1>2. QED
  BY <1>1, ClaimInv DEF ClaimDelivered

\* Claiming a job by polling preserves the inductive invariant.
LEMMA ClaimPolledInv == ASSUME IInv, NEW w \in Worker, ClaimPolled(w) PROVE IInv'
<1>1. PICK j \in JobId : Processable(jobs[j]) /\ Claim(w, j)
  BY DEF ClaimPolled, NextProcessable
<1>2. j \in 1..created
  <2>1. j > created => jobs[j] = NoRow
    BY DEF IInv, JobsInv
  <2>2. ~Processable(NoRow)
    BY DEF Processable, NoRow
  <2>3. QED
    BY <1>1, <2>1, <2>2, ConstantsAssumption DEF IInv, TypeOK, JobId
<1>3. QED
  BY <1>1, <1>2, ClaimInv

\* Skipping or rejecting a message preserves the inductive invariant.
LEMMA SkipDeliveredInv ==
  ASSUME IInv, NEW w \in Worker, SkipDelivered(w) \/ SkipLocked(w) \/ RejectDelivered(w)
  PROVE  IInv'
<1>1. w \in Thread /\ UNCHANGED <<database, mail, faults>>
  BY DEF SkipDelivered, SkipLocked, RejectDelivered, Thread
<1>2. PICK result \in ThreadResult : Finish(w, result)
  BY DEF SkipDelivered, SkipLocked, RejectDelivered, ThreadResult
<1>3. QED
  BY <1>1, <1>2, FinishQuietly

\* Reading a claimed job preserves the inductive invariant.
LEMMA ReadClaimedJobInv == ASSUME IInv, NEW w \in Worker, ReadClaimedJob(w) PROVE IInv'
<1> DEFINE job == jobs[threads[w].job]
           row == [threads[w] EXCEPT !.pc = "read", !.jobSeen = job.status,
                                     !.attempts = job.attempts]
<1>1. w \in Thread /\ threads[w] \in ThreadRow /\ RowOK(threads[w])
  BY OwnRow DEF Thread
<1>2. UNCHANGED <<database, mail, faults>>
  BY DEF ReadClaimedJob
<1>3. CASE Finish(w, "lease_lost")
  BY <1>1, <1>2, <1>3, FinishQuietly DEF ThreadResult
<1>4. CASE job.token = threads[w].token /\ threads' = [threads EXCEPT ![w].pc = "read", ![w].jobSeen = job.status,
                                      ![w].attempts = job.attempts]
  <2>1. /\ threads[w].job \in 1..created
        /\ threads[w].doc = jobs[threads[w].job].doc
    BY <1>1 DEF RowOK, ReadClaimedJob, At
  <2>2. threads[w].job \in JobId
    BY <2>1, ConstantsAssumption DEF IInv, TypeOK, JobId
  <2>3. /\ job.status \in JobStatus /\ job.attempts \in 0..MaxLeases /\ job.attempts <= issued
        /\ job.token # NoLease => job.status = "running"
    BY <2>2 DEF IInv, TypeOK, JobsInv, JobRow
  <2>4. /\ row \in ThreadRow /\ row.pc = "read" /\ row.attempts = job.attempts
        /\ row.jobSeen = job.status
        /\ row.job = threads[w].job /\ row.doc = threads[w].doc /\ row.token = threads[w].token
    BY <1>1, <2>3 DEF ThreadRow
  <2>5. threads' = [threads EXCEPT ![w] = row]
    BY <1>1, <1>4 DEF IInv, TypeOK
  <2>6. RowOK(row)
    BY <1>1, <1>4, <2>1, <2>3, <2>4 DEF RowOK
  <2>7. crashes' \in 0..MaxCrashes /\ stalls' \in 0..MaxStalls
    BY <1>2 DEF faults, IInv, TypeOK
  <2>8. QED
    BY <1>1, <1>2, <2>4, <2>5, <2>6, <2>7, QuietStep
<1>5. QED
  BY <1>3, <1>4 DEF ReadClaimedJob

\* The bookkeeping steps: heartbeats, expired leases, retries that fall due.
LEMMA FlagInv ==
  ASSUME IInv, NEW j \in JobId, NEW late \in BOOLEAN, NEW due \in BOOLEAN,
         jobs[j].status # "none",
         jobs' = [jobs EXCEPT ![j] = [@ EXCEPT !.late = late, !.due = due]],
         UNCHANGED <<docs, created, extraction, ledger, issued, mail, threads>>,
         crashes' \in 0..MaxCrashes, stalls' \in 0..MaxStalls
  PROVE  IInv'
<1>1. JobTablesOK' /\ \A k \in 1..created : jobs'[k].doc = jobs[k].doc
  BY FlagStep, TablesOK
<1>2. TypeOK'
  BY <1>1 DEF IInv, TypeOK, JobTablesOK
<1>3. \A t \in Thread : RowOK(threads[t])'
  BY <1>1 DEF IInv, ThreadsInv, RowOK
<1>4. TokensDiffer' /\ MailInv'
  BY DEF IInv, ThreadsInv, TokensDiffer, MailInv
<1>5. QED
  BY <1>1, <1>2, <1>3, <1>4 DEF IInv, ThreadsInv, JobTablesOK

\* A heartbeat preserves the inductive invariant.
LEMMA HeartbeatInv == ASSUME IInv, NEW w \in Worker, Heartbeat(w) PROVE IInv'
<1> DEFINE j == threads[w].job
<1>1. w \in Thread /\ RowOK(threads[w])
  BY OwnRow DEF Thread
<1>2. j \in JobId
  BY <1>1, ConstantsAssumption DEF Heartbeat, RowOK, IInv, TypeOK, JobId
<1>3. jobs[j].status # "none" /\ jobs[j].due \in BOOLEAN
  BY <1>2 DEF Heartbeat, Holds, IInv, TypeOK, JobRow
<1>4. jobs' = [jobs EXCEPT ![j] = [@ EXCEPT !.late = FALSE, !.due = jobs[j].due]]
  <2>1. [jobs[j] EXCEPT !.late = FALSE] = [jobs[j] EXCEPT !.late = FALSE, !.due = jobs[j].due]
    BY <1>2 DEF IInv, TypeOK, JobRow
  <2>2. QED
    BY <1>2, <2>1 DEF Heartbeat
<1>5. /\ UNCHANGED <<docs, created, extraction, ledger, issued, mail, threads>>
      /\ crashes' \in 0..MaxCrashes /\ stalls' \in 0..MaxStalls
  BY DEF Heartbeat, faults, IInv, TypeOK
<1>6. QED
  BY <1>2, <1>3, <1>4, <1>5, FlagInv

\* An expiring lease preserves the inductive invariant.
LEMMA ExpireLeaseInv ==
  ASSUME IInv, NEW j \in JobId, ExpireLease(j), stalls' \in 0..MaxStalls
  PROVE  IInv'
<1>1. jobs[j].status # "none" /\ jobs[j].due \in BOOLEAN
  BY DEF ExpireLease, IInv, TypeOK, JobRow
<1>2. jobs' = [jobs EXCEPT ![j] = [@ EXCEPT !.late = TRUE, !.due = jobs[j].due]]
  <2>1. [jobs[j] EXCEPT !.late = TRUE] = [jobs[j] EXCEPT !.late = TRUE, !.due = jobs[j].due]
    BY DEF IInv, TypeOK, JobRow
  <2>2. QED
    BY <2>1 DEF ExpireLease
<1>3. /\ UNCHANGED <<docs, created, extraction, ledger, issued, mail, threads>>
      /\ crashes' \in 0..MaxCrashes
  BY DEF ExpireLease, IInv, TypeOK
<1>4. QED
  BY <1>1, <1>2, <1>3, FlagInv

\* A retry that falls due preserves the inductive invariant.
LEMMA RetryDueInv == ASSUME IInv, NEW j \in JobId, RetryDue(j) PROVE IInv'
<1>1. jobs[j].status # "none" /\ jobs[j].late \in BOOLEAN
  BY DEF RetryDue, IInv, TypeOK, JobRow
<1>2. jobs' = [jobs EXCEPT ![j] = [@ EXCEPT !.late = jobs[j].late, !.due = TRUE]]
  <2>1. [jobs[j] EXCEPT !.due = TRUE] = [jobs[j] EXCEPT !.late = jobs[j].late, !.due = TRUE]
    BY DEF IInv, TypeOK, JobRow
  <2>2. QED
    BY <2>1 DEF RetryDue
<1>3. /\ UNCHANGED <<docs, created, extraction, ledger, issued, mail, threads>>
      /\ crashes' \in 0..MaxCrashes /\ stalls' \in 0..MaxStalls
  BY DEF RetryDue, faults, IInv, TypeOK
<1>4. QED
  BY <1>1, <1>2, <1>3, FlagInv

\* Reading the document preserves the inductive invariant.
LEMMA ReadDocumentInv == ASSUME IInv, NEW t \in Thread, ReadDocument(t) PROVE IInv'
<1> DEFINE seen == docs[threads[t].doc]
           pc == IF threads[t].jobSeen # "running" THEN "acquire"
                 ELSE IF seen = "processing" THEN "extracting" ELSE "leased"
           row == [threads[t] EXCEPT !.docSeen = seen, !.pc = pc]
<1>1. threads[t] \in ThreadRow /\ RowOK(threads[t])
  BY OwnRow
<1>2. UNCHANGED <<database, mail, faults>>
  BY DEF ReadDocument
<1>3. CASE Finish(t, "lease_lost") \/ Finish(t, "error")
  <2>1. PICK result \in ThreadResult : Finish(t, result)
    BY <1>3 DEF ThreadResult
  <2>2. QED
    BY <1>2, <2>1, FinishQuietly
<1>4. CASE /\ seen \in {"queued", "processing"}
           /\ threads' = [threads EXCEPT ![t].docSeen = seen, ![t].pc = pc]
  <2>1. /\ row \in ThreadRow /\ row.pc = pc /\ row.attempts = threads[t].attempts
        /\ row.jobSeen = threads[t].jobSeen
        /\ row.job = threads[t].job /\ row.doc = threads[t].doc /\ row.token = threads[t].token
    <3>1. seen \in Status \union {Absent}
      BY <1>4 DEF Status
    <3>2. pc \in {"acquire", "extracting", "leased"}
      OBVIOUS
    <3> HIDE DEF seen, pc
    <3>3. QED
      BY <1>1, <3>1, <3>2, ZenonT(60) DEF ThreadRow
  <2>2. threads' = [threads EXCEPT ![t] = row]
    BY <1>4 DEF IInv, TypeOK
  <2>3. RowOK(row)
    BY <1>1, <1>4, <2>1 DEF RowOK, ReadDocument, At
  <2>4. crashes' \in 0..MaxCrashes /\ stalls' \in 0..MaxStalls
    BY <1>2 DEF faults, IInv, TypeOK
  <2>5. QED
    BY <1>2, <2>1, <2>2, <2>3, <2>4, QuietStep
<1>5. QED
  BY <1>3, <1>4 DEF ReadDocument

\* A run that ends with a commit.
LEMMA CommitInv ==
  ASSUME IInv, NEW t \in Thread, NEW result \in ThreadResult,
         Finish(t, result), JobTablesOK', created' >= created, issued' >= issued,
         \A k \in 1..created : jobs'[k].doc = jobs[k].doc,
         docs' \in [Doc -> Status \union {Absent}],
         extraction' \in [Doc -> Extraction],
         UNCHANGED <<mail, faults>>
  PROVE  IInv'
<1>1. TypeOK /\ threads[t].msg \in Message \union {NoJob}
  BY DEF IInv, TypeOK, ThreadRow
<1>2. PICK row \in ThreadRow : row = DoneRow(threads[t].msg, result)
  BY <1>1, DoneRowOK
<1>3. threads' = [threads EXCEPT ![t] = row]
  BY <1>2 DEF Finish, DoneRow
<1>4. row.pc = "done" /\ row.token = NoLease /\ row.attempts = 0
  BY <1>2 DEF DoneRow, IdleThread
<1>5. RowOK(row)'
  BY <1>4, ConstantsAssumption DEF RowOK, JobTablesOK, NoLease
<1>6. /\ mail' \in [Message -> MailRow]
      /\ crashes' \in 0..MaxCrashes /\ stalls' \in 0..MaxStalls
  BY <1>1 DEF TypeOK, faults
<1>7. MailInv'
  BY ConstantsAssumption DEF IInv, TypeOK, MailInv, JobId, JobTablesOK
<1>8. QED
  BY <1>3, <1>4, <1>5, <1>6, <1>7, StepInv

\* Storing a result preserves the inductive invariant.
LEMMA RecordSuccessInv == ASSUME IInv, NEW t \in Thread, RecordSuccess(t) PROVE IInv'
<1>1. threads[t] \in ThreadRow /\ RowOK(threads[t])
  BY OwnRow
<1>2. threads[t].job \in 1..created
  BY <1>1 DEF RecordSuccess, At, RowOK
<1>3. SaveFenced(t, "succeeded") /\ UNCHANGED <<created, issued, mail, faults>>
      /\ Finish(t, "ok")
  BY DEF RecordSuccess
<1>4. /\ JobTablesOK' /\ threads[t].token \in Lease
      /\ \A k \in 1..created : jobs'[k].doc = jobs[k].doc
  BY <1>2, <1>3, SaveFencedStep, TablesOK
<1>5. docs' \in [Doc -> Status \union {Absent}]
  BY DEF RecordSuccess, IInv, TypeOK, Status
<1>6. extraction' \in [Doc -> Extraction]
  <2>1. PICK report \in {"clean", "errors"} :
          extraction' = [extraction EXCEPT ![threads[t].doc] =
                           [lease |-> threads[t].token, report |-> report]]
    BY DEF RecordSuccess
  <2>2. [lease |-> threads[t].token, report |-> report] \in Extraction
    BY <1>4 DEF Extraction, Report
  <2>3. QED
    BY <2>1, <2>2 DEF IInv, TypeOK
<1>7. created' >= created /\ issued' >= issued
  BY <1>3, ConstantsAssumption DEF IInv, TypeOK
<1>8. QED
  BY <1>3, <1>4, <1>5, <1>6, <1>7, CommitInv DEF ThreadResult

\* Recording a failure preserves the inductive invariant.
LEMMA RecordFailureInv ==
  ASSUME IInv, NEW t \in Thread, NEW retryable \in BOOLEAN, RecordFailure(t, retryable)
  PROVE  IInv'
<1> DEFINE outcome == IF ~retryable THEN "failed"
                      ELSE IF threads[t].attempts < MaxAttempts THEN "retrying"
                      ELSE "dead_letter"
<1>1. threads[t] \in ThreadRow /\ RowOK(threads[t])
  BY OwnRow
<1>2. threads[t].job \in 1..created
  BY <1>1 DEF RecordFailure, At, RowOK
<1>3. SaveFenced(t, outcome) /\ UNCHANGED <<created, extraction, issued, mail, faults>>
      /\ Finish(t, "ok")
  BY DEF RecordFailure
<1>4. /\ JobTablesOK'
      /\ \A k \in 1..created : jobs'[k].doc = jobs[k].doc
  <2>1. outcome \in {"succeeded", "retrying", "failed", "dead_letter"}
    OBVIOUS
  <2> HIDE DEF outcome
  <2>2. QED
    BY <1>2, <1>3, <2>1, SaveFencedStep, TablesOK
<1>5. docs' \in [Doc -> Status \union {Absent}]
  BY DEF RecordFailure, IInv, TypeOK, Status
<1>6. extraction' \in [Doc -> Extraction]
  BY <1>3 DEF IInv, TypeOK
<1>7. created' >= created /\ issued' >= issued
  BY <1>3, ConstantsAssumption DEF IInv, TypeOK
<1>8. QED
  BY <1>3, <1>4, <1>5, <1>6, <1>7, CommitInv DEF ThreadResult

\* Losing the lease preserves the inductive invariant.
LEMMA RecordLeaseLostInv == ASSUME IInv, NEW t \in Thread, RecordLeaseLost(t) PROVE IInv'
  BY FinishQuietly DEF RecordLeaseLost, ThreadResult

\* Committing a cancellation preserves the inductive invariant.
LEMMA CommitCancelInv == ASSUME IInv, NEW r \in Request, CommitCancel(r) PROVE IInv'
<1>1. r \in Thread /\ threads[r] \in ThreadRow /\ RowOK(threads[r])
  BY OwnRow DEF Thread
<1>2. threads[r].job \in 1..created /\ threads[r].attempts \in 0..issued
  BY <1>1, ConstantsAssumption DEF CommitCancel, At, RowOK, ThreadRow, IInv, TypeOK
<1>3. UNCHANGED <<created, extraction, ledger, issued, mail, faults>>
  BY DEF CommitCancel
<1>4. CASE jobs[threads[r].job].status = "running"
  <2>1. UNCHANGED <<database, mail, faults>> /\ Finish(r, "lease_lost")
    BY <1>3, <1>4 DEF CommitCancel, database, faults
  <2>2. QED
    BY <1>1, <2>1, FinishQuietly DEF ThreadResult
<1>5. CASE jobs[threads[r].job].status # "running"
  <2>1. /\ jobs' = [jobs EXCEPT ![threads[r].job] =
                      [Ended(@, "cancelled") EXCEPT !.attempts = threads[r].attempts]]
        /\ docs' = [docs EXCEPT ![threads[r].doc] = "cancelled"]
        /\ Finish(r, "ok")
    BY <1>5 DEF CommitCancel
  <2>2. JobTablesOK' /\ \A k \in 1..created : jobs'[k].doc = jobs[k].doc
    BY <1>2, <1>3, <1>5, <2>1, CancelJobStep, TablesOK
  <2>3. /\ docs' \in [Doc -> Status \union {Absent}] /\ extraction' \in [Doc -> Extraction]
        /\ created' >= created /\ issued' >= issued
    <3>1. docs' \in [Doc -> Status \union {Absent}]
      BY <2>1 DEF IInv, TypeOK, Status
    <3>2. extraction' \in [Doc -> Extraction]
      BY <1>3 DEF IInv, TypeOK
    <3>3. QED
      BY <1>3, <3>1, <3>2, ConstantsAssumption DEF IInv, TypeOK
  <2>4. QED
    BY <1>1, <1>3, <2>1, <2>2, <2>3, CommitInv DEF ThreadResult
<1>6. QED
  BY <1>4, <1>5

\* Marking the document as processing preserves the inductive invariant.
LEMMA MarkProcessingInv == ASSUME IInv, NEW t \in Thread, MarkProcessing(t) PROVE IInv'
<1>1. threads[t] \in ThreadRow /\ RowOK(threads[t])
  BY OwnRow
<1>2. UNCHANGED <<jobs, created, extraction, ledger, issued, mail, crashes, stalls>>
  BY DEF MarkProcessing, faults
<1>3. PICK row \in ThreadRow :
        row = [threads[t] EXCEPT !.pc = "extracting", !.docSeen = "processing"]
  BY <1>1 DEF ThreadRow, Status
<1>4. /\ row.pc = "extracting" /\ row.job = threads[t].job /\ row.doc = threads[t].doc
      /\ row.attempts = threads[t].attempts /\ row.token = threads[t].token
      /\ threads' = [threads EXCEPT ![t] = row]
  BY <1>1, <1>3 DEF ThreadRow, MarkProcessing, IInv, TypeOK
<1>5. RowOK(row)'
  BY <1>1, <1>2, <1>4 DEF RowOK, MarkProcessing, At
<1>6. JobTablesOK' /\ created' >= created /\ issued' >= issued
  BY <1>2, TablesOK, ConstantsAssumption DEF JobTablesOK, JobsInv, LedgerInv
<1>7. /\ docs' \in [Doc -> Status \union {Absent}] /\ extraction' \in [Doc -> Extraction]
      /\ mail' \in [Message -> MailRow] /\ MailInv'
      /\ crashes' \in 0..MaxCrashes /\ stalls' \in 0..MaxStalls
  BY <1>2 DEF MarkProcessing, IInv, TypeOK, MailInv, Status
<1>8. QED
  BY <1>2, <1>4, <1>5, <1>6, <1>7, StepInv

\* Acquiring a job from the API preserves the inductive invariant.
LEMMA AcquireInv == ASSUME IInv, NEW r \in Request, Acquire(r) PROVE IInv'
<1> DEFINE j == threads[r].job
           pc == IF threads[r].docSeen = "processing" THEN "extracting" ELSE "leased"
<1>1. r \in Thread /\ threads[r] \in ThreadRow /\ RowOK(threads[r])
  BY OwnRow DEF Thread
<1>2. UNCHANGED <<docs, created, extraction, mail, crashes, stalls>>
  BY DEF Acquire, faults
<1>3. j \in 1..created /\ threads[r].doc = jobs[j].doc
  BY <1>1 DEF Acquire, At, RowOK
<1>4. CASE Finish(r, "lease_lost") /\ UNCHANGED <<jobs, ledger, issued>>
  <2>1. UNCHANGED <<database, mail, faults>>
    BY <1>2, <1>4 DEF database, faults
  <2>2. QED
    BY <1>1, <1>4, <2>1, FinishQuietly DEF ThreadResult
<1>5. CASE /\ StartJob(j)
           /\ threads' = [threads EXCEPT
                ![r].token = issued + 1, ![r].attempts = jobs[j].attempts + 1, ![r].pc = pc]
  <2>1. /\ JobTablesOK'
        /\ \A k \in 1..created : jobs'[k].doc = jobs[k].doc
        /\ issued + 1 \in Lease
    BY <1>2, <1>3, <1>5, StartJobStep, TablesOK
  <2>2. issued' = issued + 1 /\ issued \in Nat /\ j \in JobId /\ issued < MaxLeases
    BY <1>3, <1>5, ConstantsAssumption DEF StartJob, IInv, TypeOK, JobId
  <2>3. jobs[j].attempts + 1 \in 0..MaxLeases /\ jobs[j].attempts + 1 <= issued'
    <3>1. jobs[j].attempts \in 0..MaxLeases /\ jobs[j].attempts <= issued
      BY <2>2 DEF IInv, TypeOK, JobsInv, JobRow
    <3>2. QED
      BY <2>2, <3>1, ConstantsAssumption
  <2>4. pc \in {"extracting", "leased"}
    OBVIOUS
  <2> HIDE DEF pc
  <2>5. PICK row \in ThreadRow :
          row = [threads[r] EXCEPT !.token = issued + 1, !.attempts = jobs[j].attempts + 1,
                                   !.pc = pc]
    BY <1>1, <2>1, <2>3, <2>4 DEF ThreadRow
  <2>6. /\ row.pc = pc /\ row.job = j /\ row.doc = threads[r].doc
        /\ row.attempts = jobs[j].attempts + 1 /\ row.token = issued + 1
        /\ threads' = [threads EXCEPT ![r] = row]
    BY <1>1, <1>5, <2>5 DEF ThreadRow, IInv, TypeOK
  <2>7. RowOK(row)'
    <3>1. jobs'[j].doc = jobs[j].doc
      BY <1>3, <2>1
    <3>2. QED
      BY <1>2, <1>3, <2>2, <2>3, <2>4, <2>6, <3>1 DEF RowOK
  <2>8. /\ mail' \in [Message -> MailRow] /\ MailInv'
        /\ docs' \in [Doc -> Status \union {Absent}] /\ extraction' \in [Doc -> Extraction]
        /\ crashes' \in 0..MaxCrashes /\ stalls' \in 0..MaxStalls
        /\ created' >= created /\ issued' >= issued
    BY <1>2, <2>2, ConstantsAssumption DEF IInv, TypeOK, MailInv
  <2>9. QED
    BY <1>1, <2>1, <2>6, <2>7, <2>8, StepInv
<1>6. QED
  BY <1>4, <1>5 DEF Acquire

\* A settled message is a message row.
LEMMA SettledRowOK ==
  ASSUME NEW message \in MailRow, NEW result
  PROVE  Settled(message, result) \in MailRow
<1> DEFINE state == SettledState(message, result)
<1>1. state \in {"none", "ready", "locked", "completed", "skipped", "dead"}
  BY DEF SettledState, StateAfter
<1>2. Settled(message, result) = [message EXCEPT !.holder = Nobody, !.state = state]
  BY DEF Settled
<1> HIDE DEF state
<1>3. QED
  BY <1>1, <1>2 DEF MailRow

\* Ending a run preserves the inductive invariant.
LEMMA FinishRunInv == ASSUME IInv, NEW t \in Thread, FinishRun(t) PROVE IInv'
<1> DEFINE j == threads[t].msg
           result == threads[t].result
<1>1. UNCHANGED <<database, faults>> /\ threads' = [threads EXCEPT ![t] = IdleThread]
  BY DEF FinishRun
<1>2. IdleThread \in ThreadRow /\ RowOK(IdleThread) /\ IdleThread.token = NoLease
  BY IdleRowOK DEF IInv, IdleThread
<1>3. mail' \in [Message -> MailRow] /\ MailInv'
  <2>1. CASE mail' = mail
    BY <1>1, <2>1 DEF IInv, TypeOK, MailInv, database
  <2>2. CASE /\ j # NoJob /\ mail[j].state = "locked"
             /\ mail' = [mail EXCEPT ![j] = Settled(@, result)]
    <3>1. j \in Message
      BY <2>2, OwnRow DEF ThreadRow
    <3>2. Settled(mail[j], result) \in MailRow
      BY <3>1, SettledRowOK DEF IInv, TypeOK
    <3>3. j \in JobId => j <= created
      BY <2>2 DEF IInv, MailInv
    <3>4. mail' \in [Message -> MailRow]
      BY <2>2, <3>2 DEF IInv, TypeOK
    <3>5. \A k \in JobId : k # j => mail'[k] = mail[k]
      BY <2>2 DEF IInv, TypeOK, Message
    <3>6. QED
      BY <1>1, <3>3, <3>4, <3>5 DEF IInv, MailInv, database
  <2>3. QED
    BY <2>1, <2>2 DEF FinishRun
<1>4. QED
  BY <1>1, <1>2, <1>3, MailStep

\* A crash, or a run that raises, preserves the inductive invariant.
LEMMA FaultInv == ASSUME IInv, NEW t \in Thread, Fault(t) PROVE IInv'
<1>1. /\ crashes' \in 0..MaxCrashes /\ stalls' \in 0..MaxStalls
      /\ UNCHANGED <<database, mail>>
  BY ConstantsAssumption DEF Fault, Crash, RunRaises, IInv, TypeOK
<1>2. IdleThread \in ThreadRow /\ RowOK(IdleThread) /\ IdleThread.token = NoLease
  BY IdleRowOK DEF IInv, IdleThread
<1>3. CASE Crash(t)
  BY <1>1, <1>2, <1>3, QuietStep DEF Crash
<1>4. CASE RunRaises(t)
  BY <1>1, <1>4, FinishInv DEF RunRaises, ThreadResult
<1>5. QED
  BY <1>3, <1>4 DEF Fault

\* Beginning a process command preserves the inductive invariant.
LEMMA BeginProcessInv ==
  ASSUME IInv, NEW r \in Request, NEW d \in Doc, BeginProcess(r, d)
  PROVE  IInv'
<1>1. r \in Thread /\ threads[r] \in ThreadRow /\ RowOK(threads[r])
  BY OwnRow DEF Thread
<1>2. PICK j \in JobId :
        /\ IsLatestJob(j, d)
        /\ threads' = [threads EXCEPT ![r].pc = "read", ![r].doc = d, ![r].job = j,
                                      ![r].jobSeen = jobs[j].status,
                                      ![r].attempts = jobs[j].attempts]
  BY DEF BeginProcess
<1> DEFINE row == [threads[r] EXCEPT !.pc = "read", !.doc = d, !.job = j,
                                     !.jobSeen = jobs[j].status,
                                     !.attempts = jobs[j].attempts]
<1>3. jobs[j].doc = d /\ j \in 1..created
  <2>1. jobs[j].doc = d
    BY <1>2 DEF IsLatestJob, JobsOf
  <2>2. j > created => jobs[j].doc = NoDoc
    <3>1. j > created => jobs[j] = NoRow
      BY DEF IInv, JobsInv
    <3>2. NoRow.doc = NoDoc
      BY DEF NoRow
    <3>3. QED
      BY <3>1, <3>2
  <2>3. QED
    BY <2>1, <2>2, ConstantsAssumption DEF IInv, TypeOK, JobId
<1>4. /\ jobs[j].status \in JobStatus /\ jobs[j].attempts \in 0..MaxLeases
      /\ jobs[j].attempts <= issued
  BY DEF IInv, TypeOK, JobsInv, JobRow
<1>5. /\ row \in ThreadRow /\ row.pc = "read" /\ row.attempts = jobs[j].attempts
      /\ row.job = j /\ row.doc = d /\ row.token = threads[r].token
  BY <1>1, <1>4 DEF ThreadRow
<1>6. threads[r].token = NoLease
  BY <1>1 DEF RowOK, BeginProcess, At
<1>7. RowOK(row)
  BY <1>1, <1>3, <1>4, <1>5, <1>6 DEF RowOK
<1>8. /\ threads' = [threads EXCEPT ![r] = row] /\ UNCHANGED <<database, mail>>
      /\ crashes' \in 0..MaxCrashes /\ stalls' \in 0..MaxStalls
  BY <1>1, <1>2 DEF IInv, TypeOK, BeginProcess, faults
<1>9. QED
  BY <1>1, <1>5, <1>7, <1>8, QuietStep

\* Retry, reprocess and cancel begin by reading the document.
LEMMA BeginCommandInv ==
  ASSUME IInv, NEW r \in Request, NEW d \in Doc, At(r, "idle"),
         NEW pc \in {"enqueue", "cancel_read"},
         threads' = [threads EXCEPT ![r].pc = pc, ![r].doc = d, ![r].docSeen = docs[d]],
         UNCHANGED <<database, mail, faults>>
  PROVE  IInv'
<1> DEFINE row == [threads[r] EXCEPT !.pc = pc, !.doc = d, !.docSeen = docs[d]]
<1>1. r \in Thread /\ threads[r] \in ThreadRow /\ RowOK(threads[r])
  BY OwnRow DEF Thread
<1>2. docs[d] \in Status \union {Absent}
  BY DEF IInv, TypeOK
<1>3. /\ row \in ThreadRow /\ row.pc = pc /\ row.attempts = threads[r].attempts
      /\ row.doc = d /\ row.token = threads[r].token
  BY <1>1, <1>2 DEF ThreadRow
<1>4. RowOK(row)
  BY <1>1, <1>3 DEF RowOK, At
<1>5. /\ threads' = [threads EXCEPT ![r] = row]
      /\ crashes' \in 0..MaxCrashes /\ stalls' \in 0..MaxStalls
  BY <1>1 DEF IInv, TypeOK, faults
<1>6. QED
  BY <1>1, <1>3, <1>4, <1>5, QuietStep

\* Reading the job to cancel preserves the inductive invariant.
LEMMA ReadCancelJobInv == ASSUME IInv, NEW r \in Request, ReadCancelJob(r) PROVE IInv'
<1>1. r \in Thread /\ threads[r] \in ThreadRow /\ RowOK(threads[r])
  BY OwnRow DEF Thread
<1>2. PICK j \in JobId :
        /\ IsLatestJob(j, threads[r].doc)
        /\ IF jobs[j].status \in {"queued", "retrying", "failed", "dead_letter"}
           THEN threads' = [threads EXCEPT ![r].pc = "cancel", ![r].job = j,
                                           ![r].jobSeen = jobs[j].status,
                                           ![r].attempts = jobs[j].attempts]
           ELSE Finish(r, "error")
  BY DEF ReadCancelJob
<1> DEFINE row == [threads[r] EXCEPT !.pc = "cancel", !.job = j,
                                     !.jobSeen = jobs[j].status,
                                     !.attempts = jobs[j].attempts]
<1>3. UNCHANGED <<database, mail, faults>>
  BY DEF ReadCancelJob
<1>4. CASE Finish(r, "error")
  BY <1>1, <1>3, <1>4, FinishQuietly DEF ThreadResult
<1>5. CASE threads' = [threads EXCEPT ![r].pc = "cancel", ![r].job = j,
                                      ![r].jobSeen = jobs[j].status,
                                      ![r].attempts = jobs[j].attempts]
  <2>1. threads[r].doc \in Doc
    BY <1>1 DEF RowOK, ReadCancelJob, At
  <2>2. jobs[j].doc = threads[r].doc /\ j \in 1..created
    <3>1. jobs[j].doc = threads[r].doc
      BY <1>2 DEF IsLatestJob, JobsOf
    <3>2. j > created => jobs[j].doc = NoDoc
      <4>1. j > created => jobs[j] = NoRow
        BY DEF IInv, JobsInv
      <4>2. NoRow.doc = NoDoc
        BY DEF NoRow
      <4>3. QED
        BY <4>1, <4>2
    <3>3. QED
      BY <2>1, <3>1, <3>2, ConstantsAssumption DEF IInv, TypeOK, JobId
  <2>3. /\ jobs[j].status \in JobStatus /\ jobs[j].attempts \in 0..MaxLeases
        /\ jobs[j].attempts <= issued
    BY DEF IInv, TypeOK, JobsInv, JobRow
  <2>4. /\ row \in ThreadRow /\ row.pc = "cancel" /\ row.attempts = jobs[j].attempts
        /\ row.job = j /\ row.doc = threads[r].doc /\ row.token = threads[r].token
    BY <1>1, <2>3 DEF ThreadRow
  <2>5. RowOK(row)
    BY <1>1, <2>2, <2>3, <2>4 DEF RowOK
  <2>6. /\ threads' = [threads EXCEPT ![r] = row]
        /\ crashes' \in 0..MaxCrashes /\ stalls' \in 0..MaxStalls
    BY <1>1, <1>3, <1>5 DEF IInv, TypeOK, faults
  <2>7. QED
    BY <1>1, <1>3, <2>4, <2>5, <2>6, QuietStep
<1>6. QED
  BY <1>2, <1>4, <1>5

\* Publishing a wake-up preserves the inductive invariant.
LEMMA PublishInv == ASSUME IInv, NEW r \in Request, Publish(r) PROVE IInv'
<1> DEFINE j == threads[r].job
           row == DoneRow(threads[r].msg, "ok")
<1>1. r \in Thread /\ threads[r] \in ThreadRow /\ RowOK(threads[r])
  BY OwnRow DEF Thread
<1>2. UNCHANGED <<database, faults>>
  BY DEF Publish
<1>3. /\ row \in ThreadRow /\ RowOK(row) /\ row.token = NoLease
      /\ threads' = [threads EXCEPT ![r] = row]
  BY <1>1, DoneRowOK, ZenonT(60) DEF Publish, Finish, DoneRow, IInv, ThreadRow, ThreadResult
<1>4. mail' \in [Message -> MailRow] /\ MailInv'
  <2>1. CASE UNCHANGED mail
    BY <1>2, <2>1 DEF IInv, TypeOK, MailInv, database
  <2>2. CASE mail' = [mail EXCEPT ![j].state = "ready"]
    <3>1. j \in 1..created
      BY <1>1 DEF RowOK, Publish, At
    <3>2. mail' \in [Message -> MailRow]
      BY <2>2 DEF IInv, TypeOK, MailRow
    <3>3. \A k \in JobId : k # j => mail'[k] = mail[k]
      BY <2>2 DEF IInv, TypeOK, Message
    <3>4. QED
      BY <1>2, <3>1, <3>2, <3>3, ConstantsAssumption DEF IInv, TypeOK, MailInv, database
  <2>3. QED
    BY <2>1, <2>2 DEF Publish
<1>5. QED
  BY <1>1, <1>2, <1>3, <1>4, MailStep

\* Upload, retry and reprocess commit a queued document with a new job.
LEMMA EnqueueInv ==
  ASSUME IInv, NEW r \in Request, NEW d \in Doc, AddJob(d),
         docs' = [docs EXCEPT ![d] = "queued"],
         \/ threads' = [threads EXCEPT ![r].pc = "publish", ![r].doc = d, ![r].job = created + 1]
         \/ /\ threads[r].doc = d
            /\ threads' = [threads EXCEPT ![r].pc = "publish", ![r].job = created + 1],
         UNCHANGED <<extraction, ledger, issued, mail, faults>>
  PROVE  IInv'
<1>1. r \in Thread /\ threads[r] \in ThreadRow /\ RowOK(threads[r])
  BY OwnRow DEF Thread
<1>2. /\ JobTablesOK'
      /\ \A k \in 1..created : jobs'[k].doc = jobs[k].doc
      /\ created + 1 \in JobId /\ created' = created + 1
      /\ jobs'[created + 1].doc = d
  BY AddJobStep, TablesOK
<1>3. PICK row \in ThreadRow :
        row = [threads[r] EXCEPT !.pc = "publish", !.doc = d, !.job = created + 1]
  BY <1>1, <1>2 DEF ThreadRow
<1>4. /\ row.pc = "publish" /\ row.job = created + 1 /\ row.doc = d
      /\ row.attempts = threads[r].attempts /\ row.token = threads[r].token
  BY <1>1, <1>3 DEF ThreadRow
<1>5. threads' = [threads EXCEPT ![r] = row]
  <2>1. CASE threads' = [threads EXCEPT ![r].pc = "publish", ![r].doc = d, ![r].job = created + 1]
    BY <1>1, <1>3, <2>1 DEF IInv, TypeOK
  <2>2. CASE /\ threads[r].doc = d
             /\ threads' = [threads EXCEPT ![r].pc = "publish", ![r].job = created + 1]
    <3>1. [threads[r] EXCEPT !.pc = "publish", !.job = created + 1] = row
      BY <1>1, <1>3, <2>2 DEF ThreadRow
    <3>2. QED
      BY <1>1, <2>2, <3>1 DEF IInv, TypeOK
  <2>3. QED
    BY <2>1, <2>2
<1>6. RowOK(row)'
  BY <1>1, <1>2, <1>4, ConstantsAssumption DEF RowOK, IInv, TypeOK
<1>7. /\ docs' \in [Doc -> Status \union {Absent}] /\ extraction' \in [Doc -> Extraction]
      /\ mail' \in [Message -> MailRow]
      /\ crashes' \in 0..MaxCrashes /\ stalls' \in 0..MaxStalls
      /\ created' >= created /\ issued' >= issued
  BY <1>2, ConstantsAssumption DEF IInv, TypeOK, Status, faults
<1>8. MailInv'
  BY <1>2, ConstantsAssumption DEF IInv, TypeOK, MailInv, JobId
<1>9. QED
  BY <1>1, <1>2, <1>4, <1>5, <1>6, <1>7, <1>8, StepInv

\* An upload preserves the inductive invariant.
LEMMA UploadInv ==
  ASSUME IInv, NEW r \in Request, NEW d \in Doc, Upload(r, d)
  PROVE  IInv'
  BY EnqueueInv DEF Upload

\* Committing a retry or a reprocess preserves the inductive invariant.
LEMMA CommitEnqueueInv == ASSUME IInv, NEW r \in Request, CommitEnqueue(r) PROVE IInv'
<1>1. threads[r].doc \in Doc
  BY OwnRow DEF CommitEnqueue, At, RowOK, Thread
<1>2. QED
  BY <1>1, EnqueueInv DEF CommitEnqueue

\* What the broker and other senders do by themselves: one message moves.
BrokerMoves ==
  (\E m \in Message : Broker(m)) \/ (\E m \in Stray : StrayArrives(m))

\* A message that existed moves to the queue or out of it, and no job's message
\* appears or is completed.
LEMMA BrokerMoving ==
  ASSUME IInv, BrokerMoves
  PROVE  /\ UNCHANGED <<docs, jobs, created, extraction, ledger, issued, threads, crashes>>
         /\ stalls' \in 0..MaxStalls /\ mail' \in [Message -> MailRow]
         /\ \A j \in JobId : \/ mail'[j] = mail[j]
                             \/ mail[j].state # "none" /\ mail'[j].state \in {"ready", "dead"}
<1>1. PICK m \in Message : Broker(m) \/ (m \in Stray /\ StrayArrives(m))
  BY DEF BrokerMoves, Message
<1>2. UNCHANGED <<docs, jobs, created, extraction, ledger, issued, threads, crashes>>
  BY <1>1 DEF Broker, AbandonedMessageReturns, HeldMessageReturns, MessageExpires, ReturnMessage,
              StrayArrives, database, faults
<1>3. stalls' \in 0..MaxStalls
  BY <1>1, ConstantsAssumption
     DEF Broker, AbandonedMessageReturns, HeldMessageReturns, MessageExpires, StrayArrives,
         faults, IInv, TypeOK
<1>4. m \notin JobId \/ mail[m].state # "none"
  BY <1>1, ConstantsAssumption
     DEF Broker, AbandonedMessageReturns, HeldMessageReturns, MessageExpires, ReturnMessage, JobId
<1>5. PICK row : mail' = [mail EXCEPT ![m] = row] /\ row \in MailRow
                 /\ row.state \in {"ready", "dead"}
  <2>1. mail[m] \in MailRow
    BY DEF IInv, TypeOK
  <2>2. CASE ReturnMessage(m)
    <3> DEFINE after == StateAfter(mail[m].deliveries, BrokerLimit)
               row == [mail[m] EXCEPT !.state = after, !.holder = Nobody]
    <3>1. after \in {"ready", "dead"}
      BY DEF StateAfter
    <3>2. mail' = [mail EXCEPT ![m] = row]
      BY <2>2, Zenon DEF ReturnMessage
    <3> HIDE DEF after
    <3>3. row \in MailRow /\ row.state = after
      BY <2>1, <3>1 DEF MailRow
    <3>4. QED
      BY <3>1, <3>2, <3>3
  <2>3. CASE MessageExpires(m) \/ StrayArrives(m)
    <3> DEFINE to == IF MessageExpires(m) THEN "dead" ELSE "ready"
               row == [mail[m] EXCEPT !.state = to]
    <3>1. mail' = [mail EXCEPT ![m].state = to]
      BY <2>3 DEF MessageExpires, StrayArrives
    <3>2. to \in {"ready", "dead"}
      OBVIOUS
    <3> HIDE DEF to
    <3>3. mail' = [mail EXCEPT ![m] = row]
      BY <3>1
    <3>4. row \in MailRow /\ row.state = to
      BY <2>1, <3>2 DEF MailRow
    <3>5. QED
      BY <3>2, <3>3, <3>4
  <2>4. QED
    BY <1>1, <2>2, <2>3 DEF Broker, AbandonedMessageReturns, HeldMessageReturns
<1>6. mail' \in [Message -> MailRow]
  BY <1>5 DEF IInv, TypeOK
<1>7. \A j \in Message : mail'[j] = IF j = m THEN row ELSE mail[j]
  BY <1>5 DEF IInv, TypeOK
<1>8. QED
  BY <1>2, <1>3, <1>4, <1>5, <1>6, <1>7 DEF Message

\* The broker preserves the inductive invariant.
LEMMA BrokerInv == ASSUME IInv, BrokerMoves PROVE IInv'
<1>1. /\ UNCHANGED <<docs, jobs, created, extraction, ledger, issued, threads, crashes>>
      /\ stalls' \in 0..MaxStalls /\ mail' \in [Message -> MailRow]
      /\ \A j \in JobId : mail'[j] = mail[j] \/ mail[j].state # "none"
  BY BrokerMoving
<1>2. MailInv'
  BY <1>1 DEF IInv, MailInv
<1>3. TypeOK'
  BY <1>1 DEF IInv, TypeOK
<1>4. JobsInv' /\ ThreadsInv' /\ LedgerInv'
  BY <1>1 DEF IInv, JobsInv, ThreadsInv, TokensDiffer, RowOK, LedgerInv
<1>5. QED
  BY <1>2, <1>3, <1>4 DEF IInv

\* Any step of _process_job preserves the inductive invariant.
LEMMA ProcessStepInv == ASSUME IInv, NEW t \in Thread, ProcessStep(t) PROVE IInv'
  BY ReadDocumentInv, MarkProcessingInv, RecordSuccessInv, RecordLeaseLostInv,
     RecordFailureInv, FinishRunInv DEF ProcessStep

\* Any step of a worker preserves the inductive invariant.
LEMMA WorkerStepInv == ASSUME IInv, NEW w \in Worker, WorkerStep(w) PROVE IInv'
<1>1. w \in Thread
  BY DEF Thread
<1>2. QED
  BY <1>1, ReceiveMessageInv, ClaimDeliveredInv, SkipDeliveredInv, ClaimPolledInv,
     ReadClaimedJobInv, ProcessStepInv DEF WorkerStep

\* Any step of a request preserves the inductive invariant.
LEMMA RequestStepInv == ASSUME IInv, NEW r \in Request, RequestStep(r) PROVE IInv'
<1>1. r \in Thread
  BY DEF Thread
<1>2. CASE \E d \in Doc : Upload(r, d) \/ BeginProcess(r, d)
  BY <1>2, UploadInv, BeginProcessInv
<1>3. CASE \E d \in Doc : BeginEnqueue(r, d)
  BY <1>3, BeginCommandInv DEF BeginEnqueue
<1>4. CASE \E d \in Doc : BeginCancel(r, d)
  BY <1>4, BeginCommandInv DEF BeginCancel
<1>5. CASE Acquire(r) \/ ProcessStep(r) \/ CommitEnqueue(r) \/ Publish(r)
           \/ ReadCancelJob(r) \/ CommitCancel(r)
  BY <1>1, <1>5, AcquireInv, ProcessStepInv, CommitEnqueueInv, PublishInv, ReadCancelJobInv,
     CommitCancelInv
<1>6. QED
  BY <1>2, <1>3, <1>4, <1>5 DEF RequestStep

\* Time passing preserves the inductive invariant.
LEMMA PassageInv == ASSUME IInv, NEW j \in JobId, Passage(j) PROVE IInv'
<1>1. CASE AbandonedLeaseExpires(j)
  BY <1>1, ExpireLeaseInv DEF AbandonedLeaseExpires, IInv, TypeOK
<1>2. CASE RetryDue(j)
  BY <1>2, RetryDueInv
<1>3. CASE HeldLeaseExpires(j)
  <2>1. stalls' \in 0..MaxStalls
    BY <1>3, ConstantsAssumption DEF HeldLeaseExpires, IInv, TypeOK
  <2>2. QED
    BY <1>3, <2>1, ExpireLeaseInv DEF HeldLeaseExpires
<1>4. QED
  BY <1>1, <1>2, <1>3 DEF Passage

\* The inductive invariant holds initially.
LEMMA InitIInv == Init => IInv
<1> SUFFICES ASSUME Init PROVE IInv
  OBVIOUS
<1>1. NoRow \in JobRow /\ NoRow.token = NoLease /\ NoRow.status = "none" /\ NoRow.attempts = 0
  BY ConstantsAssumption DEF NoRow, JobRow, JobStatus
<1>2. /\ docs \in [Doc -> Status \union {Absent}] /\ jobs \in [JobId -> JobRow]
      /\ created \in 0..MaxJobs /\ issued \in 0..MaxLeases
      /\ crashes \in 0..MaxCrashes /\ stalls \in 0..MaxStalls
  BY <1>1, ConstantsAssumption DEF Init
<1>3. extraction \in [Doc -> Extraction] /\ mail \in [Message -> MailRow]
  BY DEF Init, NoExtraction, Extraction, Report, NoMail, MailRow
<1>4. ledger \in [Lease -> [job: JobId \union {NoJob}, outcome: Outcome]]
  BY DEF Init, Outcome
<1>5. /\ IdleThread \in ThreadRow
      /\ IdleThread.pc = "idle" /\ IdleThread.token = NoLease /\ IdleThread.attempts = 0
  BY ConstantsAssumption DEF IdleThread, ThreadRow, NoJob, NoLease, Status, Absent, JobStatus
<1>6. threads \in [Thread -> ThreadRow] /\ \A t \in Thread : RowOK(threads[t])
  BY <1>5 DEF Init, RowOK, NoLease
<1>7. TypeOK
  BY <1>2, <1>3, <1>4, <1>6 DEF TypeOK
<1>8. JobsInv
  BY <1>1, ConstantsAssumption DEF Init, JobsInv, JobId
<1>9. ThreadsInv
  BY <1>5, <1>6 DEF Init, ThreadsInv, TokensDiffer
<1>10. MailInv
  BY DEF Init, MailInv, NoMail, Message
<1>11. LedgerInv
  BY Sizes DEF Init, LedgerInv, Lease
<1>12. QED
  BY <1>7, <1>8, <1>9, <1>10, <1>11 DEF IInv

\* The inductive invariant holds in every reachable state.
THEOREM InvariantHolds == Spec => []IInv
<1>1. IInv /\ [Next]_vars => IInv'
  <2> SUFFICES ASSUME IInv, [Next]_vars PROVE IInv'
    OBVIOUS
  <2>1. CASE \E w \in Worker : WorkerStep(w) \/ Heartbeat(w)
    BY <2>1, WorkerStepInv, HeartbeatInv
  <2>2. CASE \E r \in Request : RequestStep(r)
    BY <2>2, RequestStepInv
  <2>3. CASE \E t \in Thread : Fault(t)
    BY <2>3, FaultInv
  <2>4. CASE (\E j \in JobId : Passage(j)) \/ BrokerMoves
    BY <2>4, PassageInv, BrokerInv
  <2>5. CASE UNCHANGED vars
    BY <2>5 DEF vars, IInv, TypeOK, JobsInv, ThreadsInv, TokensDiffer, RowOK, MailInv, LedgerInv
  <2>6. QED
    BY <2>1, <2>2, <2>3, <2>4, <2>5 DEF Next, BrokerMoves
<1>2. QED
  BY InitIInv, <1>1, PTL DEF Spec

\* Every variable keeps its type.
THEOREM TypeCorrect == Spec => []TypeOK
<1>1. IInv => TypeOK
  BY DEF IInv
<1>2. QED
  BY InvariantHolds, <1>1, PTL

\* Two threads never both hold the lease of one job.
THEOREM OneHolder == Spec => []OneHolderPerJob
<1>1. IInv => OneHolderPerJob
  <2> SUFFICES ASSUME IInv, NEW t \in Thread, NEW u \in Thread,
                      HoldsLease(t), HoldsLease(u), threads[t].job = threads[u].job
               PROVE  t = u
    BY DEF OneHolderPerJob
  <2> DEFINE j == threads[t].job
  <2>1. j \in JobId
    BY OwnRow, ConstantsAssumption DEF HoldsLease, Working, RowOK, IInv, TypeOK, JobId
  <2>2. /\ jobs[j].status = "running"
        /\ threads[t].token = jobs[j].token /\ threads[u].token = jobs[j].token
    BY DEF HoldsLease, Holds
  <2>3. jobs[j].token # NoLease
    BY <2>1, <2>2 DEF IInv, JobsInv
  <2>4. QED
    BY <2>2, <2>3 DEF IInv, ThreadsInv, TokensDiffer
<1>2. QED
  BY InvariantHolds, <1>1, PTL

-----------------------------------------------------------------------------
(* The job tables implement FencedLedger.                                    *)

\* Steps that neither grant nor commit a lease change nothing the abstract
\* ledger sees.
LEMMA NoLeaseStep ==
  ASSUME \A j \in JobId : jobs'[j].token = jobs[j].token, UNCHANGED <<ledger, issued>>
  PROVE  UNCHANGED Fencing!vars
  BY DEF Fencing!vars

\* A job that starts is granted the next lease.
LEMMA StartIsGrant ==
  ASSUME IInv, NEW j \in 1..created, StartJob(j)
  PROVE  Fencing!Next
<1>1. j \in JobId /\ jobs[j] \in JobRow
  BY ConstantsAssumption DEF IInv, TypeOK, JobId
<1>2. /\ jobs'[j].token = issued + 1
      /\ \A k \in JobId : k # j => jobs'[k].token = jobs[k].token
  <2>1. Started(jobs[j], issued + 1).token = issued + 1
    BY <1>1 DEF Started, JobRow
  <2>2. QED
    BY <1>1, <2>1 DEF StartJob, IInv, TypeOK
<1>3. Fencing!Grant(j)
  BY <1>1, <1>2 DEF StartJob, Fencing!Grant
<1>4. QED
  BY <1>1, <1>3 DEF Fencing!Next

\* A fenced save commits the lease that holds the job.
LEMMA SaveIsCommit ==
  ASSUME IInv, NEW t \in Thread, threads[t].job \in 1..created,
         NEW status \in {"succeeded", "retrying", "failed", "dead_letter"},
         SaveFenced(t, status), UNCHANGED <<created, issued>>
  PROVE  Fencing!Next
<1> DEFINE j == threads[t].job
           l == threads[t].token
<1>1. j \in JobId /\ jobs[j] \in JobRow
  BY ConstantsAssumption DEF IInv, TypeOK, JobId
<1>2. l \in Lease /\ ledger[l] = [job |-> j, outcome |-> "open"] /\ jobs[j].token = l
  BY SaveFencedStep, TablesOK DEF SaveFenced, Holds
<1>3. /\ jobs'[j].token = NoLease
      /\ \A k \in JobId : k # j => jobs'[k].token = jobs[k].token
  <2>1. Ended(jobs[j], status).token = NoLease
    BY <1>1, EndedRowOK DEF JobStatus
  <2>2. QED
    BY <1>1, <2>1 DEF SaveFenced, IInv, TypeOK
<1>4. ledger' = [ledger EXCEPT ![l] = [job |-> j, outcome |-> status]]
  <2>1. [ledger[l] EXCEPT !.outcome = status] = [job |-> j, outcome |-> status]
    BY <1>2
  <2>2. QED
    BY <1>2, <2>1 DEF SaveFenced, IInv, TypeOK
<1>5. Fencing!Commit(j, status)
  <2>1. l # NoLease
    BY <1>2 DEF Lease, NoLease
  <2>2. QED
    BY <1>1, <1>2, <1>3, <1>4, <2>1 DEF Fencing!Commit, Fencing!NoLease, NoLease
<1>6. status \in Outcome \ {"unissued", "open"}
  BY DEF Outcome
<1>7. QED
  BY <1>1, <1>5, <1>6 DEF Fencing!Next

\* Any step of _process_job maps to a step of the fenced ledger or to none.
LEMMA ProcessStepRefines ==
  ASSUME IInv, NEW t \in Thread, ProcessStep(t)
  PROVE  Fencing!Next \/ UNCHANGED Fencing!vars
<1>1. threads[t].pc = "extracting" => threads[t].job \in 1..created
  BY OwnRow DEF RowOK
<1>2. CASE RecordSuccess(t)
  BY <1>1, <1>2, SaveIsCommit DEF RecordSuccess, At
<1>3. CASE \E retryable \in BOOLEAN : RecordFailure(t, retryable)
  BY <1>1, <1>3, SaveIsCommit DEF RecordFailure, At
<1>4. CASE ReadDocument(t) \/ RecordLeaseLost(t) \/ FinishRun(t)
  BY <1>4, NoLeaseStep DEF ReadDocument, RecordLeaseLost, FinishRun, database
<1>5. CASE MarkProcessing(t)
  BY <1>5, NoLeaseStep DEF MarkProcessing
<1>6. QED
  BY <1>2, <1>3, <1>4, <1>5 DEF ProcessStep

\* Any step of a worker maps to a step of the fenced ledger or to none.
LEMMA WorkerStepRefines ==
  ASSUME IInv, NEW w \in Worker, WorkerStep(w)
  PROVE  Fencing!Next \/ UNCHANGED Fencing!vars
<1>1. w \in Thread
  BY DEF Thread
<1>2. CASE ClaimDelivered(w)
  <2>1. threads[w].msg \in 1..created
    BY <1>1, <1>2, OwnRow DEF ClaimDelivered, At, RowOK
  <2>2. QED
    BY <1>2, <2>1, StartIsGrant DEF ClaimDelivered, Claim
<1>3. CASE ClaimPolled(w)
  <2>1. PICK j \in JobId : Processable(jobs[j]) /\ Claim(w, j)
    BY <1>3 DEF ClaimPolled, NextProcessable
  <2>2. j \in 1..created
    <3>1. j > created => jobs[j] = NoRow
      BY DEF IInv, JobsInv
    <3>2. ~Processable(NoRow)
      BY DEF Processable, NoRow
    <3>3. QED
      BY <2>1, <3>1, <3>2, ConstantsAssumption DEF IInv, TypeOK, JobId
  <2>3. QED
    BY <2>1, <2>2, StartIsGrant DEF Claim
<1>4. CASE ReceiveMessage(w) \/ SkipDelivered(w) \/ SkipLocked(w)
           \/ RejectDelivered(w) \/ ReadClaimedJob(w)
  BY <1>4, NoLeaseStep DEF ReceiveMessage, SkipDelivered, SkipLocked, RejectDelivered, ReadClaimedJob, database
<1>5. CASE ProcessStep(w)
  BY <1>1, <1>5, ProcessStepRefines
<1>6. QED
  BY <1>2, <1>3, <1>4, <1>5 DEF WorkerStep

\* Adding a job row leaves every lease where it was.
LEMMA AddJobRefines ==
  ASSUME IInv, NEW d \in Doc, AddJob(d), UNCHANGED <<ledger, issued>>
  PROVE  UNCHANGED Fencing!vars
<1>1. created + 1 \in JobId
  BY AddJobStep, TablesOK
<1>2. jobs[created + 1].token = NoLease
  <2>1. created + 1 > created /\ created + 1 <= MaxJobs
    BY <1>1, ConstantsAssumption DEF IInv, TypeOK, JobId
  <2>2. jobs[created + 1] = NoRow
    BY <1>1, <2>1 DEF IInv, JobsInv
  <2>3. QED
    BY <2>2 DEF NoRow
<1>3. jobs' = [jobs EXCEPT ![created + 1] = QueuedRow(d)] /\ QueuedRow(d).token = NoLease
  BY QueuedRowOK DEF AddJob
<1>4. \A j \in JobId : jobs'[j].token = jobs[j].token
  BY <1>1, <1>2, <1>3 DEF IInv, TypeOK
<1>5. QED
  BY <1>4, NoLeaseStep

\* Any step of a request maps to a step of the fenced ledger or to none.
LEMMA RequestStepRefines ==
  ASSUME IInv, NEW r \in Request, RequestStep(r)
  PROVE  Fencing!Next \/ UNCHANGED Fencing!vars
<1>1. r \in Thread /\ RowOK(threads[r]) /\ threads[r] \in ThreadRow
  BY OwnRow DEF Thread
<1>2. CASE \E d \in Doc : Upload(r, d)
  BY <1>2, AddJobRefines DEF Upload
<1>3. CASE CommitEnqueue(r)
  BY <1>1, <1>3, AddJobRefines DEF CommitEnqueue, At, RowOK
<1>4. CASE \/ \E d \in Doc : BeginProcess(r, d) \/ BeginEnqueue(r, d) \/ BeginCancel(r, d)
           \/ Publish(r) \/ ReadCancelJob(r)
  BY <1>4, NoLeaseStep DEF BeginProcess, BeginEnqueue, BeginCancel, Publish, ReadCancelJob, database
<1>5. CASE Acquire(r)
  <2>1. threads[r].job \in 1..created
    BY <1>1, <1>5 DEF Acquire, At, RowOK
  <2>2. CASE StartJob(threads[r].job)
    BY <2>1, <2>2, StartIsGrant
  <2>3. CASE UNCHANGED <<jobs, ledger, issued>>
    BY <2>3, NoLeaseStep
  <2>4. QED
    BY <1>5, <2>2, <2>3 DEF Acquire
<1>6. CASE CommitCancel(r)
  <2>1. threads[r].job \in 1..created /\ threads[r].attempts \in 0..issued
    BY <1>1, <1>6, ConstantsAssumption DEF CommitCancel, At, RowOK, ThreadRow, IInv, TypeOK
  <2>2. UNCHANGED <<created, ledger, issued>>
    BY <1>6 DEF CommitCancel
  <2>3. CASE jobs[threads[r].job].status = "running"
    BY <1>6, <2>2, <2>3, NoLeaseStep DEF CommitCancel
  <2>4. CASE jobs[threads[r].job].status # "running"
    <3>1. jobs' = [jobs EXCEPT ![threads[r].job] =
                     [Ended(@, "cancelled") EXCEPT !.attempts = threads[r].attempts]]
      BY <1>6, <2>4 DEF CommitCancel
    <3>2. \A k \in JobId : jobs'[k].token = jobs[k].token
      BY <2>1, <2>2, <2>4, <3>1, CancelJobStep, TablesOK
    <3>3. QED
      BY <2>2, <3>2, NoLeaseStep
  <2>5. QED
    BY <2>3, <2>4
<1>7. CASE ProcessStep(r)
  BY <1>1, <1>7, ProcessStepRefines
<1>8. QED
  BY <1>2, <1>3, <1>4, <1>5, <1>6, <1>7 DEF RequestStep

\* Heartbeats and the passage of time move no lease.
LEMMA TimeRefines ==
  ASSUME IInv,
         \/ \E w \in Worker : Heartbeat(w)
         \/ \E t \in Thread : Fault(t)
         \/ \E j \in JobId : Passage(j)
         \/ BrokerMoves
  PROVE  UNCHANGED Fencing!vars
<1>1. CASE \E w \in Worker : Heartbeat(w)
  <2>1. PICK w \in Worker : Heartbeat(w)
    BY <1>1
  <2>2. \A k \in JobId : jobs'[k].token = jobs[k].token
    BY <2>1 DEF Heartbeat, IInv, TypeOK, JobRow
  <2>3. QED
    BY <2>1, <2>2, NoLeaseStep DEF Heartbeat
<1>2. CASE \E t \in Thread : Fault(t)
  BY <1>2, NoLeaseStep DEF Fault, Crash, RunRaises, database
<1>3. CASE \E j \in JobId : ExpireLease(j)
  <2>1. PICK j \in JobId : ExpireLease(j)
    BY <1>3
  <2>2. \A k \in JobId : jobs'[k].token = jobs[k].token
    BY <2>1 DEF ExpireLease, IInv, TypeOK, JobRow
  <2>3. QED
    BY <2>1, <2>2, NoLeaseStep DEF ExpireLease
<1>4. CASE \E j \in JobId : RetryDue(j)
  <2>1. PICK j \in JobId : RetryDue(j)
    BY <1>4
  <2>2. \A k \in JobId : jobs'[k].token = jobs[k].token
    BY <2>1 DEF RetryDue, IInv, TypeOK, JobRow
  <2>3. QED
    BY <2>1, <2>2, NoLeaseStep DEF RetryDue
<1>5. CASE BrokerMoves
  BY <1>5, BrokerMoving, NoLeaseStep
<1>6. QED
  BY <1>1, <1>2, <1>3, <1>4, <1>5 DEF Passage, AbandonedLeaseExpires, HeldLeaseExpires

\* Whatever the workers, the API threads and the failures do, the job tables
\* behave as the fenced ledger does.
THEOREM ImplementsLedger == Spec => ImplementsFencedLedger
<1>1. Init => Fencing!Init
  BY DEF Init, Fencing!Init, NoRow, Lease, Fencing!Lease, Fencing!NoLease, NoLease
<1>2. IInv /\ [Next]_vars => [Fencing!Next]_Fencing!vars
  <2> SUFFICES ASSUME IInv, [Next]_vars PROVE Fencing!Next \/ UNCHANGED Fencing!vars
    OBVIOUS
  <2>1. CASE \E w \in Worker : WorkerStep(w)
    BY <2>1, WorkerStepRefines
  <2>2. CASE \E r \in Request : RequestStep(r)
    BY <2>2, RequestStepRefines
  <2>3. CASE \/ \E w \in Worker : Heartbeat(w)
             \/ \E t \in Thread : Fault(t)
             \/ \E j \in JobId : Passage(j)
             \/ BrokerMoves
    BY <2>3, TimeRefines
  <2>4. CASE UNCHANGED vars
    BY <2>4, NoLeaseStep DEF vars
  <2>5. QED
    BY <2>1, <2>2, <2>3, <2>4 DEF Next, BrokerMoves
<1>3. QED
  BY InvariantHolds, <1>1, <1>2, PTL DEF Spec, ImplementsFencedLedger, Fencing!Spec

-----------------------------------------------------------------------------
(* What FencedLedger promises, whoever implements it: here for the jobs and  *)
(* outcomes of Processing, and without a fact about its steps.               *)

\* The lease that holds each job, and the outcomes that end a lease.
Holder == [j \in JobId |-> jobs[j].token]
Recorded == Outcome \ {"unissued", "open"}

\* The inductive invariant of the ledger: a holder's lease is the newest of its job
\* and still open, which needs that leases are issued in order.
LedgerTyped ==
  /\ Holder \in [JobId -> Lease \union {NoLease}]
  /\ ledger \in [Lease -> [job: JobId \union {NoJob}, outcome: Recorded \union {"unissued", "open"}]]
  /\ issued \in 0..MaxLeases
IssuedUpwards ==
  \A l \in Lease : /\ l > issued <=> ledger[l].outcome = "unissued"
                   /\ l > issued <=> ledger[l].job = NoJob
HolderNewest ==
  \A j \in JobId : Holder[j] # NoLease =>
    /\ ledger[Holder[j]] = [job |-> j, outcome |-> "open"]
    /\ \A m \in Lease : ledger[m].job = j => m <= Holder[j]
LedgerSound == LedgerTyped /\ IssuedUpwards /\ HolderNewest

\* They are the invariants of FencedLedger.
LEMMA SoundLedgers ==
  LedgerSound <=> Fencing!TypeOK /\ Fencing!IssuedInOrder /\ Fencing!HolderIsNewest
<1>1. LedgerTyped <=> Fencing!TypeOK
  BY DEF LedgerTyped, Holder, Recorded, Lease, NoLease, Fencing!TypeOK, Fencing!Lease, Fencing!NoLease
<1>2. IssuedUpwards <=> Fencing!IssuedInOrder
  BY DEF IssuedUpwards, Lease, Fencing!IssuedInOrder, Fencing!Lease
<1>3. HolderNewest <=> Fencing!HolderIsNewest
  BY DEF HolderNewest, Holder, Lease, NoLease, Fencing!HolderIsNewest, Fencing!Lease, Fencing!NoLease
<1>4. QED
  BY <1>1, <1>2, <1>3 DEF LedgerSound

\* The invariant holds initially.
LEMMA LedgerStarts ==
  ASSUME Fencing!LedgerAssumption
  PROVE  Fencing!Init => LedgerSound
<1> SUFFICES ASSUME Fencing!Init PROVE LedgerSound
  OBVIOUS
<1>1. /\ Holder = [j \in JobId |-> NoLease] /\ issued = 0
      /\ ledger = [l \in Lease |-> [job |-> NoJob, outcome |-> "unissued"]]
  BY DEF Fencing!Init, Fencing!Lease, Fencing!NoLease, Lease, NoLease, Holder
<1>2. QED
  BY <1>1 DEF Fencing!LedgerAssumption, LedgerSound, LedgerTyped, IssuedUpwards, HolderNewest, Lease, NoLease

\* Granting a lease preserves the invariant.
LEMMA GrantSound ==
  ASSUME Fencing!LedgerAssumption, LedgerSound, NEW j \in JobId, Fencing!Grant(j)
  PROVE  LedgerSound'
<1>0. /\ issued < MaxLeases /\ issued' = issued + 1
      /\ Holder' = [Holder EXCEPT ![j] = issued + 1]
      /\ ledger' = [ledger EXCEPT ![issued + 1] = [job |-> j, outcome |-> "open"]]
  BY DEF Fencing!Grant, Holder
<1> USE <1>0 DEF LedgerSound, Lease, NoLease, Recorded, Fencing!LedgerAssumption
<1>1. issued + 1 \in Lease
  BY DEF LedgerTyped
<1>2. LedgerTyped'
  BY <1>1 DEF LedgerTyped
<1>3. IssuedUpwards'
  BY <1>1 DEF LedgerTyped, IssuedUpwards
<1>4. HolderNewest'
  <2> SUFFICES ASSUME NEW k \in JobId, Holder'[k] # NoLease
               PROVE  /\ ledger'[Holder'[k]] = [job |-> k, outcome |-> "open"]
                      /\ \A m \in Lease : ledger'[m].job = k => m <= Holder'[k]
    BY DEF HolderNewest
  <2>1. \A m \in Lease : m > issued + 1 => ledger'[m].job = NoJob
    BY <1>1 DEF LedgerTyped, IssuedUpwards
  <2>2. CASE k = j
    <3>1. Holder'[k] = issued + 1
      BY <2>2 DEF LedgerTyped
    <3>2. ledger'[issued + 1] = [job |-> j, outcome |-> "open"]
      BY <1>1 DEF LedgerTyped
    <3>3. QED
      BY <1>1, <2>2, <3>1, <3>2, <2>1 DEF LedgerTyped, HolderNewest, IssuedUpwards
  <2>3. CASE k # j
    <3>1. Holder'[k] = Holder[k]
      BY <2>3 DEF LedgerTyped
    <3>2. Holder[k] # issued + 1
      <4>1. Holder[k] \in Lease /\ ledger[Holder[k]].outcome = "open"
        <5>1. Holder[k] # NoLease
          BY <3>1
        <5>2. ledger[Holder[k]] = [job |-> k, outcome |-> "open"]
          BY <5>1 DEF HolderNewest
        <5>3. QED
          BY <5>1, <5>2 DEF LedgerTyped
      <4>2. ledger[issued + 1].outcome = "unissued"
        BY <1>1 DEF LedgerTyped, IssuedUpwards
      <4>3. QED
        BY <4>1, <4>2
    <3>3. QED
      BY <1>1, <2>3, <3>1, <3>2 DEF LedgerTyped, HolderNewest
  <2>4. QED
    BY <2>2, <2>3
<1>5. QED
  BY <1>2, <1>3, <1>4

\* So does committing an outcome.
LEMMA CommitSound ==
  ASSUME Fencing!LedgerAssumption, LedgerSound, NEW j \in JobId, NEW result \in Recorded, Fencing!Commit(j, result)
  PROVE  LedgerSound'
<1>0. /\ Holder[j] # NoLease /\ issued' = issued
      /\ Holder' = [Holder EXCEPT ![j] = NoLease]
      /\ ledger' = [ledger EXCEPT ![Holder[j]] = [job |-> j, outcome |-> result]]
  BY DEF Fencing!Commit, Fencing!NoLease, NoLease, Holder
<1> USE <1>0 DEF LedgerSound, Lease, NoLease, Recorded, Fencing!LedgerAssumption
<1>1. Holder[j] \in Lease /\ ledger[Holder[j]] = [job |-> j, outcome |-> "open"]
  BY DEF LedgerTyped, HolderNewest
<1>2. LedgerTyped'
  BY <1>1 DEF LedgerTyped
<1>3. IssuedUpwards'
  BY <1>1 DEF LedgerTyped, IssuedUpwards
<1>4. HolderNewest'
  <2> SUFFICES ASSUME NEW k \in JobId, Holder'[k] # NoLease
               PROVE  /\ ledger'[Holder'[k]] = [job |-> k, outcome |-> "open"]
                      /\ \A m \in Lease : ledger'[m].job = k => m <= Holder'[k]
    BY DEF HolderNewest
  <2>1. k # j /\ Holder'[k] = Holder[k]
    BY DEF LedgerTyped
  <2>2. Holder[k] # Holder[j]
    <3>1. ledger[Holder[k]].job = k
      <4>1. Holder[k] # NoLease
        BY <2>1
      <4>2. ledger[Holder[k]] = [job |-> k, outcome |-> "open"]
        BY <4>1 DEF HolderNewest
      <4>3. QED
        BY <4>2
    <3>2. ledger[Holder[j]].job = j
      BY <1>1
    <3>3. QED
      BY <2>1, <3>1, <3>2
  <2>3. \A m \in Lease : ledger'[m].job = ledger[m].job
    BY <1>1 DEF LedgerTyped
  <2>4. QED
    BY <1>1, <2>1, <2>2, <2>3 DEF LedgerTyped, HolderNewest
<1>5. QED
  BY <1>2, <1>3, <1>4

\* What FencedLedger does is granting a lease or committing an outcome.
LEMMA LedgerStep ==
  ASSUME [Fencing!Next]_Fencing!vars
  PROVE  \/ \E j \in JobId : Fencing!Grant(j)
         \/ \E j \in JobId, result \in Recorded : Fencing!Commit(j, result)
         \/ Holder' = Holder /\ ledger' = ledger /\ issued' = issued
  BY DEF Fencing!Next, Fencing!vars, Recorded, Holder

\* The invariants of the ledger hold in every state it reaches.
THEOREM LedgerInvariant ==
  ASSUME Fencing!LedgerAssumption
  PROVE  Fencing!Spec => []LedgerSound
<1>1. LedgerSound /\ [Fencing!Next]_Fencing!vars => LedgerSound'
  <2> SUFFICES ASSUME LedgerSound, [Fencing!Next]_Fencing!vars PROVE LedgerSound'
    OBVIOUS
  <2>1. CASE \E j \in JobId : Fencing!Grant(j)
    BY <2>1, GrantSound
  <2>2. CASE \E j \in JobId, result \in Recorded : Fencing!Commit(j, result)
    BY <2>2, CommitSound
  <2>3. CASE Holder' = Holder /\ ledger' = ledger /\ issued' = issued
    BY <2>3 DEF LedgerSound, LedgerTyped, IssuedUpwards, HolderNewest
  <2>4. QED
    BY <2>1, <2>2, <2>3, LedgerStep
<1>2. QED
  BY LedgerStarts, <1>1, PTL DEF Fencing!Spec

\* A lease's outcome is recorded once, by the newest holder of its job, in every
\* behaviour of FencedLedger.
THEOREM Fenced ==
  ASSUME Fencing!LedgerAssumption
  PROVE  Fencing!Spec => Fencing!FormerHoldersAreFenced
<1> DEFINE Step == \A l \in Lease :
                     ledger'[l] # ledger[l] =>
                       \/ ledger[l].outcome = "unissued"
                       \/ /\ ledger[l].outcome = "open"
                          /\ \A m \in Lease : ledger[m].job = ledger[l].job => m <= l
<1>1. LedgerSound /\ [Fencing!Next]_Fencing!vars => [Step]_ledger
  <2> SUFFICES ASSUME LedgerSound, [Fencing!Next]_Fencing!vars, NEW l \in Lease, ledger'[l] # ledger[l]
               PROVE  \/ ledger[l].outcome = "unissued"
                      \/ /\ ledger[l].outcome = "open"
                         /\ \A m \in Lease : ledger[m].job = ledger[l].job => m <= l
    OBVIOUS
  <2> USE DEF LedgerSound, Lease, NoLease
  <2>1. CASE \E j \in JobId : Fencing!Grant(j)
    <3>1. issued + 1 \in Lease /\ \E row : ledger' = [ledger EXCEPT ![issued + 1] = row]
      BY <2>1, ConstantsAssumption DEF Fencing!Grant, LedgerTyped
    <3>2. l = issued + 1
      BY <3>1 DEF LedgerTyped
    <3>3. QED
      BY <3>2 DEF LedgerTyped, IssuedUpwards
  <2>2. CASE \E j \in JobId, result \in Recorded : Fencing!Commit(j, result)
    <3>1. PICK j \in JobId : /\ Holder[j] # NoLease
                             /\ \E row : ledger' = [ledger EXCEPT ![Holder[j]] = row]
      BY <2>2 DEF Fencing!Commit, Fencing!NoLease, Holder
    <3>2. l = Holder[j]
      BY <3>1 DEF LedgerTyped
    <3>3. /\ ledger[l] = [job |-> j, outcome |-> "open"]
          /\ \A m \in Lease : ledger[m].job = j => m <= l
      BY <3>1, <3>2 DEF HolderNewest
    <3>4. ledger[l].job = j /\ ledger[l].outcome = "open"
      BY <3>3
    <3>5. QED
      BY <3>3, <3>4
  <2>3. CASE Holder' = Holder /\ ledger' = ledger /\ issued' = issued
    BY <2>3
  <2>4. QED
    BY <2>1, <2>2, <2>3, LedgerStep
<1>2. Fencing!Spec => []LedgerSound
  BY LedgerInvariant
<1>3. [][Step]_ledger => Fencing!FormerHoldersAreFenced
  BY PTL DEF Fencing!FormerHoldersAreFenced, Fencing!Lease, Lease
<1>4. QED
  BY <1>1, <1>2, <1>3, PTL DEF Fencing!Spec

\* The former holder of a job can no longer finalize it: what FencedLedger
\* promises carries over.
THEOREM FormerHoldersFenced == Spec => FormerHoldersAreFenced
<1>1. Fencing!LedgerAssumption
  BY ConstantsAssumption DEF Fencing!LedgerAssumption, NoJob, JobId
<1>2. Fencing!Spec => Fencing!FormerHoldersAreFenced
  BY <1>1, Fenced
<1>3. QED
  BY ImplementsLedger, <1>2, PTL DEF ImplementsFencedLedger, FormerHoldersAreFenced

-----------------------------------------------------------------------------
(* Stored results match the lease history.                                   *)

\* A step that stores no result and closes no lease successfully.
ResultsUntouched ==
  /\ extraction' = extraction
  /\ \A k \in 1..created : jobs'[k].doc = jobs[k].doc
  /\ \A l \in Lease : \/ ledger'[l] = ledger[l]
                      \/ ledger[l].outcome # "succeeded" /\ ledger'[l].outcome # "succeeded"

\* Such a step keeps stored results and history in agreement.
LEMMA UntouchedResults ==
  ASSUME IInv, ResultsMatchLedger, ResultsUntouched
  PROVE  ResultsMatchLedger'
<1>1. \A l \in Lease : ledger[l].outcome = "succeeded" => ledger[l].job \in 1..created
  <2> SUFFICES ASSUME NEW l \in Lease, ledger[l].outcome = "succeeded"
               PROVE  ledger[l].job \in 1..created
    OBVIOUS
  <2>1. l <= issued
    BY ConstantsAssumption DEF IInv, LedgerInv, TypeOK, Lease
  <2>2. QED
    BY <2>1 DEF IInv, LedgerInv
<1>2. \A l \in Lease : ledger[l].outcome = "succeeded" =>
        /\ ledger'[l] = ledger[l]
        /\ jobs'[ledger[l].job].doc = jobs[ledger[l].job].doc
  BY <1>1 DEF ResultsUntouched
<1>3. \A d \in Doc : extraction'[d] # NoExtraction =>
        LET l == extraction'[d].lease
        IN /\ l # NoLease
           /\ ledger'[l].outcome = "succeeded"
           /\ jobs'[ledger'[l].job].doc = d
  <2> SUFFICES ASSUME NEW d \in Doc, extraction[d] # NoExtraction
               PROVE  /\ extraction[d].lease # NoLease
                      /\ ledger'[extraction[d].lease].outcome = "succeeded"
                      /\ jobs'[ledger'[extraction[d].lease].job].doc = d
    BY DEF ResultsUntouched
  <2>1. /\ extraction[d].lease # NoLease
        /\ ledger[extraction[d].lease].outcome = "succeeded"
        /\ jobs[ledger[extraction[d].lease].job].doc = d
    BY DEF ResultsMatchLedger
  <2>2. extraction[d].lease \in Lease
    BY <2>1 DEF IInv, TypeOK, Extraction
  <2>3. QED
    BY <1>2, <2>1, <2>2
<1>4. \A l \in Lease : ledger'[l].outcome = "succeeded" =>
        extraction'[jobs'[ledger'[l].job].doc] # NoExtraction
  BY <1>2 DEF ResultsUntouched, ResultsMatchLedger
<1>5. QED
  BY <1>3, <1>4 DEF ResultsMatchLedger

\* A success stores its result and closes its lease in one commit.
LEMMA RecordSuccessResults ==
  ASSUME IInv, ResultsMatchLedger, NEW t \in Thread, RecordSuccess(t)
  PROVE  ResultsMatchLedger'
<1> DEFINE d == threads[t].doc
           j == threads[t].job
           l == threads[t].token
<1>1. j \in 1..created /\ d = jobs[j].doc
  BY OwnRow DEF RecordSuccess, At, RowOK
<1>2. j \in JobId /\ d \in Doc
  <2>1. j \in JobId /\ j <= created
    BY <1>1, ConstantsAssumption DEF IInv, TypeOK, JobId
  <2>2. QED
    BY <1>1, <2>1 DEF IInv, JobsInv
<1>3. /\ l \in Lease /\ ledger[l] = [job |-> j, outcome |-> "open"]
      /\ \A k \in 1..created : jobs'[k].doc = jobs[k].doc
      /\ ledger' = [ledger EXCEPT ![l].outcome = "succeeded"]
  BY <1>1, SaveFencedStep, TablesOK DEF RecordSuccess, SaveFenced
<1>4. ledger'[l].outcome = "succeeded" /\ ledger'[l].job = j
      /\ \A m \in Lease : m # l => ledger'[m] = ledger[m]
  BY <1>3 DEF IInv, TypeOK
<1>5. PICK report \in {"clean", "errors"} :
        extraction' = [extraction EXCEPT ![d] = [lease |-> l, report |-> report]]
  BY DEF RecordSuccess
<1>6. /\ extraction'[d] = [lease |-> l, report |-> report]
      /\ \A e \in Doc : e # d => extraction'[e] = extraction[e]
  BY <1>2, <1>5 DEF IInv, TypeOK
<1>7. l # NoLease
  BY <1>3 DEF Lease, NoLease
<1>8. extraction'[d] # NoExtraction /\ extraction'[d].lease = l
  BY <1>6, <1>7 DEF NoExtraction
<1>9. \A m \in Lease : ledger[m].outcome = "succeeded" =>
        /\ ledger'[m] = ledger[m]
        /\ jobs'[ledger[m].job].doc = jobs[ledger[m].job].doc
  <2> SUFFICES ASSUME NEW m \in Lease, ledger[m].outcome = "succeeded"
               PROVE  /\ ledger'[m] = ledger[m]
                      /\ jobs'[ledger[m].job].doc = jobs[ledger[m].job].doc
    OBVIOUS
  <2>1. m # l
    BY <1>3
  <2>2. m <= issued
    BY ConstantsAssumption DEF IInv, LedgerInv, TypeOK, Lease
  <2>3. ledger[m].job \in 1..created
    BY <2>2 DEF IInv, LedgerInv
  <2>4. QED
    BY <1>3, <1>4, <2>1, <2>3
<1>10. ASSUME NEW e \in Doc, extraction'[e] # NoExtraction
       PROVE  /\ extraction'[e].lease # NoLease
              /\ ledger'[extraction'[e].lease].outcome = "succeeded"
              /\ jobs'[ledger'[extraction'[e].lease].job].doc = e
  <2>1. CASE e = d
    BY <1>1, <1>3, <1>4, <1>7, <1>8, <2>1
  <2>2. CASE e # d
    <3>1. extraction'[e] = extraction[e]
      BY <1>6, <2>2
    <3>2. /\ extraction[e].lease # NoLease
          /\ ledger[extraction[e].lease].outcome = "succeeded"
          /\ jobs[ledger[extraction[e].lease].job].doc = e
      BY <1>10, <3>1 DEF ResultsMatchLedger
    <3>3. extraction[e].lease \in Lease
      BY <3>2 DEF IInv, TypeOK, Extraction
    <3>4. QED
      BY <1>9, <3>1, <3>2, <3>3
  <2>3. QED
    BY <2>1, <2>2
<1>11. ASSUME NEW m \in Lease, ledger'[m].outcome = "succeeded"
       PROVE  extraction'[jobs'[ledger'[m].job].doc] # NoExtraction
  <2>1. CASE m = l
    BY <1>1, <1>3, <1>4, <1>8, <2>1
  <2>2. CASE m # l
    <3>1. ledger[m].outcome = "succeeded" /\ ledger'[m] = ledger[m]
          /\ jobs'[ledger[m].job].doc = jobs[ledger[m].job].doc
      BY <1>4, <1>9, <1>11, <2>2
    <3>2. extraction[jobs[ledger[m].job].doc] # NoExtraction
      BY <3>1 DEF ResultsMatchLedger
    <3>3. jobs[ledger[m].job].doc \in Doc
      <4>1. m <= issued
        <5>1. m \in Nat /\ issued \in Nat
          BY ConstantsAssumption DEF IInv, TypeOK, Lease
        <5>2. ~(m > issued)
          BY <3>1 DEF IInv, LedgerInv
        <5>3. QED
          BY <5>1, <5>2
      <4>2. ledger[m].job \in 1..created
        BY <4>1 DEF IInv, LedgerInv
      <4>3. ledger[m].job \in JobId /\ ledger[m].job <= created
        BY <4>2, ConstantsAssumption DEF IInv, TypeOK, JobId
      <4>4. QED
        BY <4>3 DEF IInv, JobsInv
    <3>4. QED
      BY <1>6, <1>8, <3>1, <3>2, <3>3
  <2>3. QED
    BY <2>1, <2>2
<1>12. QED
  BY <1>10, <1>11 DEF ResultsMatchLedger

\* Starting a job opens a lease that was not issued.
LEMMA StartUntouched ==
  ASSUME IInv, NEW j \in 1..created, StartJob(j), UNCHANGED <<created, extraction>>
  PROVE  ResultsUntouched
<1>1. issued + 1 \in Lease /\ \A k \in 1..created : jobs'[k].doc = jobs[k].doc
  BY StartJobStep, TablesOK
<1>2. ledger[issued + 1].outcome = "unissued"
  BY <1>1, ConstantsAssumption DEF IInv, LedgerInv, TypeOK
<1>3. ledger' = [ledger EXCEPT ![issued + 1] = [job |-> j, outcome |-> "open"]]
  BY DEF StartJob
<1>4. /\ ledger'[issued + 1].outcome = "open"
      /\ \A m \in Lease : m # issued + 1 => ledger'[m] = ledger[m]
  BY <1>1, <1>3 DEF IInv, TypeOK
<1>5. QED
  BY <1>1, <1>2, <1>4 DEF ResultsUntouched

\* A failure closes a lease that was open.
LEMMA FailureUntouched ==
  ASSUME IInv, NEW t \in Thread, NEW retryable \in BOOLEAN, RecordFailure(t, retryable)
  PROVE  ResultsUntouched
<1> DEFINE outcome == IF ~retryable THEN "failed"
                      ELSE IF threads[t].attempts < MaxAttempts THEN "retrying"
                      ELSE "dead_letter"
           l == threads[t].token
<1>1. threads[t].job \in 1..created
  BY OwnRow DEF RecordFailure, At, RowOK
<1>2. SaveFenced(t, outcome) /\ UNCHANGED <<created, extraction, issued>>
  BY DEF RecordFailure
<1>3. outcome \in {"retrying", "failed", "dead_letter"}
  OBVIOUS
<1> HIDE DEF outcome
<1>4. /\ l \in Lease /\ ledger[l].outcome = "open"
      /\ \A k \in 1..created : jobs'[k].doc = jobs[k].doc
  <2>1. outcome \in {"succeeded", "retrying", "failed", "dead_letter"}
    BY <1>3
  <2>2. /\ l \in Lease /\ ledger[l] = [job |-> threads[t].job, outcome |-> "open"]
        /\ \A k \in 1..created : jobs'[k].doc = jobs[k].doc
    BY <1>1, <1>2, <2>1, SaveFencedStep, TablesOK
  <2>3. QED
    BY <2>2
<1>5. ledger' = [ledger EXCEPT ![l].outcome = outcome]
  BY <1>2 DEF SaveFenced
<1>6. ledger'[l].outcome = outcome /\ \A m \in Lease : m # l => ledger'[m] = ledger[m]
  BY <1>4, <1>5 DEF IInv, TypeOK
<1>7. QED
  BY <1>2, <1>3, <1>4, <1>6 DEF ResultsUntouched

\* Steps that leave the job rows' documents, the leases and the results alone.
LEMMA QuietUntouched ==
  ASSUME UNCHANGED <<extraction, ledger>>, \A k \in 1..created : jobs'[k].doc = jobs[k].doc
  PROVE  ResultsUntouched
  BY DEF ResultsUntouched

\* Bookkeeping touches no result.
LEMMA FlagsUntouched ==
  ASSUME IInv,
         \/ \E w \in Worker : Heartbeat(w)
         \/ \E j \in JobId : ExpireLease(j) \/ RetryDue(j)
  PROVE  ResultsUntouched
<1>1. \A k \in 1..created : k \in JobId
  BY ConstantsAssumption DEF IInv, TypeOK, JobId
<1>2. CASE \E w \in Worker : Heartbeat(w)
  <2>1. PICK w \in Worker : Heartbeat(w)
    BY <1>2
  <2>2. \A k \in JobId : jobs'[k].doc = jobs[k].doc
    BY <2>1 DEF Heartbeat, IInv, TypeOK, JobRow
  <2>3. QED
    BY <1>1, <2>1, <2>2, QuietUntouched DEF Heartbeat
<1>3. CASE \E j \in JobId : ExpireLease(j)
  <2>1. PICK j \in JobId : ExpireLease(j)
    BY <1>3
  <2>2. \A k \in JobId : jobs'[k].doc = jobs[k].doc
    BY <2>1 DEF ExpireLease, IInv, TypeOK, JobRow
  <2>3. QED
    BY <1>1, <2>1, <2>2, QuietUntouched DEF ExpireLease
<1>4. CASE \E j \in JobId : RetryDue(j)
  <2>1. PICK j \in JobId : RetryDue(j)
    BY <1>4
  <2>2. \A k \in JobId : jobs'[k].doc = jobs[k].doc
    BY <2>1 DEF RetryDue, IInv, TypeOK, JobRow
  <2>3. QED
    BY <1>1, <2>1, <2>2, QuietUntouched DEF RetryDue
<1>5. QED
  BY <1>2, <1>3, <1>4

\* Any step of _process_job keeps stored results and the lease history in agreement.
LEMMA ProcessStepResults ==
  ASSUME IInv, ResultsMatchLedger, NEW t \in Thread, ProcessStep(t)
  PROVE  ResultsMatchLedger'
<1>1. CASE RecordSuccess(t)
  BY <1>1, RecordSuccessResults
<1>2. CASE \E retryable \in BOOLEAN : RecordFailure(t, retryable)
  BY <1>2, FailureUntouched, UntouchedResults
<1>3. CASE ReadDocument(t) \/ RecordLeaseLost(t) \/ FinishRun(t) \/ MarkProcessing(t)
  <2>1. UNCHANGED <<extraction, ledger, jobs>>
    BY <1>3 DEF ReadDocument, RecordLeaseLost, FinishRun, MarkProcessing, database
  <2>2. QED
    BY <2>1, QuietUntouched, UntouchedResults
<1>4. QED
  BY <1>1, <1>2, <1>3 DEF ProcessStep

\* Any step of a worker keeps stored results and the lease history in agreement.
LEMMA WorkerStepResults ==
  ASSUME IInv, ResultsMatchLedger, NEW w \in Worker, WorkerStep(w)
  PROVE  ResultsMatchLedger'
<1>1. w \in Thread
  BY DEF Thread
<1>2. CASE ClaimDelivered(w)
  <2>1. threads[w].msg \in 1..created
    BY <1>1, <1>2, OwnRow DEF ClaimDelivered, At, RowOK
  <2>2. QED
    BY <1>2, <2>1, StartUntouched, UntouchedResults DEF ClaimDelivered, Claim
<1>3. CASE ClaimPolled(w)
  <2>1. PICK j \in JobId : Processable(jobs[j]) /\ Claim(w, j)
    BY <1>3 DEF ClaimPolled, NextProcessable
  <2>2. j \in 1..created
    <3>1. j > created => jobs[j] = NoRow
      BY DEF IInv, JobsInv
    <3>2. ~Processable(NoRow)
      BY DEF Processable, NoRow
    <3>3. QED
      BY <2>1, <3>1, <3>2, ConstantsAssumption DEF IInv, TypeOK, JobId
  <2>3. QED
    BY <2>1, <2>2, StartUntouched, UntouchedResults DEF Claim
<1>4. CASE ReceiveMessage(w) \/ SkipDelivered(w) \/ SkipLocked(w)
           \/ RejectDelivered(w) \/ ReadClaimedJob(w)
  <2>1. UNCHANGED <<extraction, ledger, jobs>>
    BY <1>4 DEF ReceiveMessage, SkipDelivered, SkipLocked, RejectDelivered, ReadClaimedJob, database
  <2>2. QED
    BY <2>1, QuietUntouched, UntouchedResults
<1>5. CASE ProcessStep(w)
  BY <1>1, <1>5, ProcessStepResults
<1>6. QED
  BY <1>2, <1>3, <1>4, <1>5 DEF WorkerStep

\* Any step of a request keeps stored results and the lease history in agreement.
LEMMA RequestStepResults ==
  ASSUME IInv, ResultsMatchLedger, NEW r \in Request, RequestStep(r)
  PROVE  ResultsMatchLedger'
<1>1. r \in Thread /\ RowOK(threads[r]) /\ threads[r] \in ThreadRow
  BY OwnRow DEF Thread
<1>2. CASE \E d \in Doc : Upload(r, d)
  BY <1>2, AddJobStep, TablesOK, QuietUntouched, UntouchedResults DEF Upload
<1>3. CASE CommitEnqueue(r)
  BY <1>1, <1>3, AddJobStep, TablesOK, QuietUntouched, UntouchedResults
     DEF CommitEnqueue, At, RowOK
<1>4. CASE \/ \E d \in Doc : BeginProcess(r, d) \/ BeginEnqueue(r, d) \/ BeginCancel(r, d)
           \/ Publish(r) \/ ReadCancelJob(r)
  <2>1. UNCHANGED <<extraction, ledger, jobs>>
    BY <1>4 DEF BeginProcess, BeginEnqueue, BeginCancel, Publish, ReadCancelJob, database
  <2>2. QED
    BY <2>1, QuietUntouched, UntouchedResults
<1>5. CASE Acquire(r)
  <2>1. threads[r].job \in 1..created /\ UNCHANGED <<created, extraction>>
    BY <1>1, <1>5 DEF Acquire, At, RowOK
  <2>2. CASE StartJob(threads[r].job)
    BY <2>1, <2>2, StartUntouched, UntouchedResults
  <2>3. CASE UNCHANGED <<jobs, ledger, issued>>
    BY <2>1, <2>3, QuietUntouched, UntouchedResults
  <2>4. QED
    BY <1>5, <2>2, <2>3 DEF Acquire
<1>6. CASE CommitCancel(r)
  <2>1. threads[r].job \in 1..created /\ threads[r].attempts \in 0..issued
    BY <1>1, <1>6, ConstantsAssumption DEF CommitCancel, At, RowOK, ThreadRow, IInv, TypeOK
  <2>2. UNCHANGED <<created, ledger, issued, extraction>>
    BY <1>6 DEF CommitCancel
  <2>3. CASE UNCHANGED jobs
    BY <2>2, <2>3, QuietUntouched, UntouchedResults
  <2>4. CASE /\ jobs[threads[r].job].status # "running"
             /\ jobs' = [jobs EXCEPT ![threads[r].job] =
                           [Ended(@, "cancelled") EXCEPT !.attempts = threads[r].attempts]]
    <3>1. \A k \in 1..created : jobs'[k].doc = jobs[k].doc
      BY <2>1, <2>2, <2>4, CancelJobStep, TablesOK
    <3>2. QED
      BY <2>2, <3>1, QuietUntouched, UntouchedResults
  <2>5. QED
    BY <1>6, <2>3, <2>4 DEF CommitCancel
<1>7. CASE ProcessStep(r)
  BY <1>1, <1>7, ProcessStepResults
<1>8. QED
  BY <1>2, <1>3, <1>4, <1>5, <1>6, <1>7 DEF RequestStep

\* A result is stored together with the success of the lease that produced it,
\* or not at all.
THEOREM ResultsMatch == Spec => []ResultsMatchLedger
<1>1. Init => ResultsMatchLedger
  BY DEF Init, ResultsMatchLedger
<1>2. IInv /\ ResultsMatchLedger /\ [Next]_vars => ResultsMatchLedger'
  <2> SUFFICES ASSUME IInv, ResultsMatchLedger, [Next]_vars PROVE ResultsMatchLedger'
    OBVIOUS
  <2>1. CASE \E w \in Worker : WorkerStep(w)
    BY <2>1, WorkerStepResults
  <2>2. CASE \E r \in Request : RequestStep(r)
    BY <2>2, RequestStepResults
  <2>3. CASE \/ \E w \in Worker : Heartbeat(w)
             \/ \E j \in JobId : ExpireLease(j) \/ RetryDue(j)
    BY <2>3, FlagsUntouched, UntouchedResults
  <2>4. CASE (\E t \in Thread : Fault(t)) \/ BrokerMoves \/ UNCHANGED vars
    <3>1. UNCHANGED <<extraction, ledger, jobs>>
      BY <2>4, BrokerMoving DEF Fault, Crash, RunRaises, database, vars
    <3>2. QED
      BY <3>1, QuietUntouched, UntouchedResults
  <2>5. QED
    BY <2>1, <2>2, <2>3, <2>4
       DEF Next, Passage, AbandonedLeaseExpires, HeldLeaseExpires, BrokerMoves
<1>3. QED
  BY InvariantHolds, <1>1, <1>2, PTL DEF Spec

-----------------------------------------------------------------------------
(* The retry budget.                                                         *)

\* Nobody is in the middle of a cancel.
NobodyCancels == \A t \in Thread : threads[t].pc \notin {"cancel_read", "cancel"}

\* Every lease of a job was counted as an attempt.
LeasesOf(j) == {l \in Lease : l <= issued /\ ledger[l].job = j}
AttemptsInv == \A j \in JobId : Cardinality(LeasesOf(j)) <= jobs[j].attempts

\* A holder's copy of the count is the row's.
CopyOK(th) ==
  th.pc \in {"read", "leased", "extracting"} /\ Holds(jobs[th.job], th.token)
    => th.attempts = jobs[th.job].attempts
CopiesInv == \A t \in Thread : CopyOK(threads[t])

BudgetInv == NobodyCancels /\ AttemptsInv /\ CopiesInv /\ RetryBudget

-----------------------------------------------------------------------------
(* Leases are counted.                                                       *)

LEMMA LeaseSets ==
  ASSUME NEW S \in SUBSET Lease
  PROVE  IsFiniteSet(S) /\ Cardinality(S) \in Nat
<1>1. 1 \in Int /\ MaxLeases \in Int
  BY ConstantsAssumption
<1>2. IsFiniteSet(Lease)
  BY <1>1, FS_Interval DEF Lease
<1>3. QED
  BY <1>2, FS_Subset, FS_CardinalityType

\* Every retry ended a lease that was issued.
LEMMA RetriesAreLeases ==
  ASSUME IInv, NEW j \in JobId
  PROVE  /\ RetriesOf(j) \subseteq LeasesOf(j) /\ RetriesOf(j) \in SUBSET Lease
         /\ LeasesOf(j) \in SUBSET Lease
<1>1. ASSUME NEW l \in Lease, ledger[l].outcome = "retrying" PROVE l <= issued
  BY <1>1, ConstantsAssumption DEF IInv, LedgerInv, TypeOK, Lease
<1>2. QED
  BY <1>1 DEF RetriesOf, LeasesOf

JobFacts ==
  /\ jobs \in [JobId -> JobRow] /\ \A j \in JobId : jobs[j].attempts \in Nat
  /\ ledger \in [Lease -> [job: JobId \union {NoJob}, outcome: Outcome]]
  /\ created \in 0..MaxJobs /\ issued \in 0..MaxLeases

LEMMA JobsTyped == ASSUME IInv PROVE JobFacts /\ \A j \in 1..created : j \in JobId
BY ConstantsAssumption DEF JobFacts, IInv, TypeOK, JobRow, JobId

\* A step that issues no lease, ends none and changes no count.
CountsUntouched ==
  UNCHANGED <<ledger, issued>> /\ \A j \in JobId : jobs'[j].attempts = jobs[j].attempts

LEMMA UntouchedCounts ==
  ASSUME AttemptsInv, RetryBudget, CountsUntouched
  PROVE  AttemptsInv' /\ RetryBudget'
<1>1. \A j \in JobId : LeasesOf(j)' = LeasesOf(j) /\ RetriesOf(j)' = RetriesOf(j)
  BY DEF CountsUntouched, LeasesOf, RetriesOf
<1>2. QED
  BY <1>1 DEF CountsUntouched, AttemptsInv, RetryBudget

\* A job that starts has one lease and one attempt more.
LEMMA StartCounts ==
  ASSUME IInv, AttemptsInv, RetryBudget, NEW j \in 1..created, StartJob(j), UNCHANGED created
  PROVE  /\ AttemptsInv' /\ RetryBudget'
         /\ jobs'[j].attempts = jobs[j].attempts + 1 /\ jobs'[j].token = issued + 1
         /\ \A k \in JobId : k # j => jobs'[k] = jobs[k]
<1>1. JobFacts /\ j \in JobId
  BY JobsTyped
<1>2. issued + 1 \in Lease /\ issued' = issued + 1 /\ issued \in Nat
  <2>1. issued + 1 \in Lease
    BY StartJobStep, TablesOK
  <2>2. issued' = issued + 1 /\ issued \in Nat
    BY <1>1, ConstantsAssumption DEF StartJob, JobFacts
  <2>3. QED
    BY <2>1, <2>2
<1>3. /\ jobs'[j].attempts = jobs[j].attempts + 1 /\ jobs'[j].token = issued + 1
      /\ \A k \in JobId : k # j => jobs'[k] = jobs[k]
  <2>1. jobs' = [jobs EXCEPT ![j] = Started(jobs[j], issued + 1)]
    BY DEF StartJob
  <2>2. Started(jobs[j], issued + 1).attempts = jobs[j].attempts + 1
          /\ Started(jobs[j], issued + 1).token = issued + 1
    BY <1>1 DEF JobFacts, JobRow, Started
  <2>3. QED
    BY <1>1, <2>1, <2>2 DEF JobFacts
<1>4. /\ ledger'[issued + 1].job = j /\ ledger'[issued + 1].outcome = "open"
      /\ \A l \in Lease : l # issued + 1 => ledger'[l] = ledger[l]
  BY <1>1, <1>2 DEF StartJob, JobFacts
<1>5. ledger[issued + 1].outcome = "unissued"
  BY <1>2 DEF IInv, LedgerInv
<1>6. ASSUME NEW k \in JobId
      PROVE  Cardinality(LeasesOf(k)') <= jobs'[k].attempts
  <2>1. /\ LeasesOf(k) \in SUBSET Lease /\ IsFiniteSet(LeasesOf(k))
        /\ Cardinality(LeasesOf(k)) \in Nat /\ Cardinality(LeasesOf(k)) <= jobs[k].attempts
        /\ jobs[k].attempts \in Nat
    BY <1>1, RetriesAreLeases, LeaseSets DEF AttemptsInv, JobFacts
  <2>2. \A l \in Lease : l <= issued' <=> (l <= issued \/ l = issued + 1)
    BY <1>2, ConstantsAssumption DEF Lease
  <2>3. ~(issued + 1 <= issued)
    BY <1>2
  <2>4. CASE k = j
    <3>1. LeasesOf(k)' = LeasesOf(k) \union {issued + 1} /\ issued + 1 \notin LeasesOf(k)
      BY <1>2, <1>4, <2>2, <2>3, <2>4 DEF LeasesOf
    <3>2. Cardinality(LeasesOf(k)') = Cardinality(LeasesOf(k)) + 1
      BY <2>1, <3>1, FS_AddElement
    <3>3. QED
      BY <1>3, <2>1, <2>4, <3>2
  <2>5. CASE k # j
    <3>1. LeasesOf(k)' = LeasesOf(k)
      BY <1>2, <1>4, <2>2, <2>3, <2>5 DEF LeasesOf
    <3>2. QED
      BY <1>3, <2>1, <2>5, <3>1
  <2>6. QED
    BY <2>4, <2>5
<1>7. \A k \in JobId : RetriesOf(k)' = RetriesOf(k)
  BY <1>2, <1>4, <1>5 DEF RetriesOf
<1>8. RetryBudget'
  BY <1>7 DEF RetryBudget
<1>9. AttemptsInv'
  BY <1>6 DEF AttemptsInv
<1>10. QED
  BY <1>3, <1>8, <1>9

\* The holder records an outcome; it retries only while attempts remain.
LEMMA SaveCounts ==
  ASSUME IInv, AttemptsInv, RetryBudget, NEW t \in Thread, threads[t].job \in 1..created,
         NEW status \in {"succeeded", "retrying", "failed", "dead_letter"},
         SaveFenced(t, status), UNCHANGED <<created, issued>>,
         status = "retrying" => jobs[threads[t].job].attempts < MaxAttempts
  PROVE  /\ AttemptsInv' /\ RetryBudget'
         /\ jobs'[threads[t].job].status # "running"
         /\ \A k \in JobId : k # threads[t].job => jobs'[k] = jobs[k]
<1>1. PICK j \in JobId : j = threads[t].job
  BY JobsTyped
<1>2. PICK l \in Lease : l = threads[t].token /\ ledger[l] = [job |-> j, outcome |-> "open"]
  BY <1>1, SaveFencedStep, TablesOK
<1>3. JobFacts
  BY JobsTyped
<1>4. /\ jobs'[j].status = status /\ jobs'[j].attempts = jobs[j].attempts
      /\ \A k \in JobId : k # j => jobs'[k] = jobs[k]
  <2>1. jobs[j] \in JobRow /\ status \in JobStatus
    BY <1>3 DEF JobFacts, JobStatus
  <2>2. jobs' = [jobs EXCEPT ![j] = Ended(jobs[j], status)]
    BY <1>1 DEF SaveFenced
  <2>3. QED
    BY <1>3, <2>1, <2>2, EndedRowOK DEF JobFacts
<1>5. /\ ledger'[l].job = j /\ ledger'[l].outcome = status
      /\ \A m \in Lease : m # l => ledger'[m] = ledger[m]
  <2>1. ledger' = [ledger EXCEPT ![l].outcome = status]
    BY <1>2 DEF SaveFenced
  <2>2. QED
    BY <1>2, <1>3, <2>1 DEF JobFacts
<1>6. \A k \in JobId : LeasesOf(k)' = LeasesOf(k)
  BY <1>2, <1>5 DEF LeasesOf
<1>7. AttemptsInv'
  BY <1>4, <1>6 DEF AttemptsInv
<1>8. ASSUME NEW k \in JobId PROVE Cardinality(RetriesOf(k)') < MaxAttempts
  <2>1. CASE k = j /\ status = "retrying"
    <3>1. /\ Cardinality(LeasesOf(j)) \in Nat /\ IsFiniteSet(LeasesOf(j))
          /\ Cardinality(LeasesOf(j)) <= jobs[j].attempts /\ jobs[j].attempts \in Nat
          /\ jobs[j].attempts < MaxAttempts /\ MaxAttempts \in Nat
      BY <1>1, <1>3, <2>1, RetriesAreLeases, LeaseSets, ConstantsAssumption
         DEF AttemptsInv, JobFacts
    <3>2. RetriesOf(j)' \subseteq LeasesOf(j)
      <4>1. l <= issued
        <5>1. ledger[l].outcome # "unissued"
          BY <1>2
        <5>2. QED
          BY <1>3, <5>1, ConstantsAssumption DEF IInv, LedgerInv, JobFacts, Lease
      <4>2. RetriesOf(j)' \subseteq RetriesOf(j) \union {l}
        BY <1>5 DEF RetriesOf
      <4>3. QED
        BY <1>2, <4>1, <4>2, RetriesAreLeases DEF LeasesOf
    <3>3. Cardinality(RetriesOf(j)') <= Cardinality(LeasesOf(j))
      BY <3>1, <3>2, FS_Subset
    <3>4. RetriesOf(j)' \in SUBSET Lease
      BY <3>2, RetriesAreLeases
    <3>5. Cardinality(RetriesOf(j)') \in Nat
      BY <3>4, LeaseSets
    <3>6. QED
      BY <2>1, <3>1, <3>3, <3>5
  <2>2. CASE ~(k = j /\ status = "retrying")
    <3>1. RetriesOf(k)' = RetriesOf(k)
      BY <1>2, <1>5, <2>2 DEF RetriesOf
    <3>2. QED
      BY <3>1 DEF RetryBudget
  <2>3. QED
    BY <2>1, <2>2
<1>9. RetryBudget'
  BY <1>8 DEF RetryBudget
<1>10. QED
  BY <1>1, <1>4, <1>7, <1>9

-----------------------------------------------------------------------------
(* Copies of the count.                                                      *)

\* Nobody comes to hold a job by a lease issued earlier, nor sees its count move.
HoldersStay ==
  \A k \in 1..created : \A l \in 0..issued :
    Holds(jobs[k], l)' => Holds(jobs[k], l) /\ jobs'[k].attempts = jobs[k].attempts

\* Thread t moves, the others keep copies that are still right.
LEMMA CopiesStay ==
  ASSUME IInv, CopiesInv, NobodyCancels, HoldersStay, NEW t \in Thread, NEW th,
         threads' = [threads EXCEPT ![t] = th], CopyOK(th)',
         th.pc \notin {"cancel_read", "cancel"}
  PROVE  CopiesInv' /\ NobodyCancels'
<1>1. /\ threads'[t] = th /\ \A u \in Thread : u # t => threads'[u] = threads[u]
  BY DEF IInv, TypeOK
<1>2. ASSUME NEW u \in Thread, u # t PROVE CopyOK(threads[u])'
  <2>1. threads[u] \in ThreadRow /\ RowOK(threads[u]) /\ CopyOK(threads[u])
    BY OwnRow DEF CopiesInv
  <2>2. SUFFICES ASSUME threads[u].pc \in {"read", "leased", "extracting"},
                        Holds(jobs'[threads[u].job], threads[u].token)
                 PROVE  threads[u].attempts = jobs'[threads[u].job].attempts
    BY <1>1, <1>2 DEF CopyOK, Holds
  <2>3. threads[u].job \in 1..created /\ threads[u].token \in 0..issued
    BY <2>1, <2>2, JobsTyped, ConstantsAssumption
       DEF RowOK, ThreadRow, JobFacts, Lease, NoLease
  <2>4. Holds(jobs[threads[u].job], threads[u].token)
          /\ jobs'[threads[u].job].attempts = jobs[threads[u].job].attempts
    BY <2>2, <2>3 DEF HoldersStay, Holds
  <2>5. QED
    BY <2>1, <2>2, <2>4 DEF CopyOK
<1>3. \A u \in Thread : CopyOK(threads[u])'
  BY <1>1, <1>2 DEF CopyOK
<1>4. CopiesInv'
  BY <1>3 DEF CopiesInv
<1>5. NobodyCancels'
  BY <1>1 DEF NobodyCancels
<1>6. QED
  BY <1>4, <1>5

\* No thread moves.
LEMMA CopiesRest ==
  ASSUME IInv, CopiesInv, NobodyCancels, HoldersStay, threads' = threads
  PROVE  CopiesInv' /\ NobodyCancels'
<1>1. ASSUME NEW t \in Thread PROVE CopyOK(threads[t])'
  <2>1. threads[t] \in ThreadRow /\ RowOK(threads[t]) /\ CopyOK(threads[t])
    BY OwnRow DEF CopiesInv
  <2>2. SUFFICES ASSUME threads[t].pc \in {"read", "leased", "extracting"},
                        Holds(jobs'[threads[t].job], threads[t].token)
                 PROVE  threads[t].attempts = jobs'[threads[t].job].attempts
    BY DEF CopyOK, Holds
  <2>3. threads[t].job \in 1..created /\ threads[t].token \in 0..issued
    BY <2>1, <2>2, JobsTyped, ConstantsAssumption
       DEF RowOK, ThreadRow, JobFacts, Lease, NoLease
  <2>4. Holds(jobs[threads[t].job], threads[t].token)
          /\ jobs'[threads[t].job].attempts = jobs[threads[t].job].attempts
    BY <2>2, <2>3 DEF HoldersStay, Holds
  <2>5. QED
    BY <2>1, <2>2, <2>4 DEF CopyOK
<1>2. QED
  BY <1>1 DEF CopiesInv, NobodyCancels

\* Job rows and leases stay: everybody's hold and counts do.
LEMMA QuietCounts ==
  ASSUME IInv, UNCHANGED <<jobs, ledger, issued, created>>
  PROVE  CountsUntouched /\ HoldersStay
BY DEF CountsUntouched, HoldersStay, Holds

\* What a thread at rest, or about to be, holds is nothing.
LEMMA IdleCopies ==
  ASSUME NEW th, th.pc \notin {"read", "leased", "extracting"}
  PROVE  CopyOK(th)'
BY DEF CopyOK

\* A thread that goes nowhere near an extraction, while the job tables stay.
LEMMA QuietKeeps ==
  ASSUME IInv, BudgetInv, NEW t \in Thread, NEW th, threads' = [threads EXCEPT ![t] = th],
         UNCHANGED <<jobs, ledger, issued, created>>, CopyOK(th),
         th.pc \notin {"cancel_read", "cancel"}
  PROVE  BudgetInv'
<1>1. CountsUntouched /\ HoldersStay
  BY QuietCounts
<1>2. CopyOK(th)'
  BY DEF CopyOK, Holds
<1>3. QED
  BY <1>1, <1>2, UntouchedCounts, CopiesStay DEF BudgetInv

\* A run that ends.
LEMMA FinishCopies ==
  ASSUME IInv, NEW t \in Thread, NEW result, Finish(t, result)
  PROVE  \E th : /\ threads' = [threads EXCEPT ![t] = th] /\ th.pc = "done"
<1>1. [IdleThread EXCEPT !.pc = "done", !.msg = threads[t].msg, !.result = result].pc = "done"
  BY DEF IdleThread
<1>2. QED
  BY <1>1 DEF Finish

LEMMA FinishKeeps ==
  ASSUME IInv, BudgetInv, NEW t \in Thread, NEW result, Finish(t, result),
         UNCHANGED <<jobs, ledger, issued, created>>
  PROVE  BudgetInv'
<1>1. PICK th : threads' = [threads EXCEPT ![t] = th] /\ th.pc = "done"
  BY FinishCopies
<1>2. CopyOK(th)
  BY <1>1 DEF CopyOK
<1>3. QED
  BY <1>1, <1>2, QuietKeeps

-----------------------------------------------------------------------------
(* The steps.                                                                *)

LEMMA ReadDocumentKeeps ==
  ASSUME IInv, BudgetInv, NEW t \in Thread, ReadDocument(t)
  PROVE  BudgetInv'
<1>1. /\ UNCHANGED <<jobs, ledger, issued, created>> /\ threads[t].pc = "read"
      /\ threads[t] \in ThreadRow /\ CopyOK(threads[t])
  BY OwnRow DEF ReadDocument, database, At, BudgetInv, CopiesInv
<1>2. PICK next \in {"acquire", "extracting", "leased"} :
        next = IF threads[t].jobSeen # "running" THEN "acquire"
               ELSE IF docs[threads[t].doc] = "processing" THEN "extracting" ELSE "leased"
  OBVIOUS
<1>3. \/ Finish(t, "error") \/ Finish(t, "lease_lost")
      \/ threads' = [threads EXCEPT ![t].docSeen = docs[threads[t].doc], ![t].pc = next]
  BY <1>2 DEF ReadDocument
<1>4. CASE Finish(t, "error") \/ Finish(t, "lease_lost")
  BY <1>1, <1>4, FinishKeeps
<1>5. CASE threads' = [threads EXCEPT ![t].docSeen = docs[threads[t].doc], ![t].pc = next]
  <2>1. PICK th : th = [threads[t] EXCEPT !.docSeen = docs[threads[t].doc], !.pc = next]
    OBVIOUS
  <2>2. /\ threads' = [threads EXCEPT ![t] = th] /\ th.pc = next /\ th.job = threads[t].job
        /\ th.token = threads[t].token /\ th.attempts = threads[t].attempts
    BY <1>1, <1>5, <2>1 DEF ThreadRow, IInv, TypeOK
  <2>3. CopyOK(th)
    BY <1>1, <2>2 DEF CopyOK
  <2>4. QED
    BY <1>1, <1>2, <2>2, <2>3, QuietKeeps
<1>6. QED
  BY <1>3, <1>4, <1>5

LEMMA MarkProcessingKeeps ==
  ASSUME IInv, BudgetInv, NEW t \in Thread, MarkProcessing(t)
  PROVE  BudgetInv'
<1>1. /\ UNCHANGED <<jobs, ledger, issued, created>> /\ threads[t].pc = "leased"
      /\ threads[t] \in ThreadRow /\ CopyOK(threads[t])
      /\ threads' = [threads EXCEPT ![t].pc = "extracting", ![t].docSeen = "processing"]
  BY OwnRow DEF MarkProcessing, At, BudgetInv, CopiesInv
<1>2. PICK th : th = [threads[t] EXCEPT !.pc = "extracting", !.docSeen = "processing"]
  OBVIOUS
<1>3. /\ threads' = [threads EXCEPT ![t] = th] /\ th.pc = "extracting" /\ th.job = threads[t].job
      /\ th.token = threads[t].token /\ th.attempts = threads[t].attempts
  BY <1>1, <1>2 DEF ThreadRow, IInv, TypeOK
<1>4. CopyOK(th)
  BY <1>1, <1>3 DEF CopyOK
<1>5. QED
  BY <1>1, <1>3, <1>4, QuietKeeps

\* A fenced save ends the lease it was made under.
LEMMA RecordKeeps ==
  ASSUME IInv, BudgetInv, NEW t \in Thread, threads[t].pc = "extracting",
         NEW status \in {"succeeded", "retrying", "failed", "dead_letter"},
         SaveFenced(t, status), UNCHANGED <<created, issued>>,
         status = "retrying" => threads[t].attempts < MaxAttempts,
         NEW result, Finish(t, result)
  PROVE  BudgetInv'
<1>1. threads[t].job \in 1..created /\ Holds(jobs[threads[t].job], threads[t].token)
        /\ CopyOK(threads[t])
  BY OwnRow DEF RowOK, SaveFenced, BudgetInv, CopiesInv
<1>2. status = "retrying" => jobs[threads[t].job].attempts < MaxAttempts
  BY <1>1 DEF CopyOK
<1>3. /\ AttemptsInv' /\ RetryBudget' /\ jobs'[threads[t].job].status # "running"
      /\ \A k \in JobId : k # threads[t].job => jobs'[k] = jobs[k]
  BY <1>1, <1>2, SaveCounts DEF BudgetInv
<1>4. HoldersStay
  BY <1>3, JobsTyped DEF HoldersStay, Holds
<1>5. PICK th : threads' = [threads EXCEPT ![t] = th] /\ th.pc = "done"
  BY FinishCopies
<1>6. CopiesInv' /\ NobodyCancels'
  BY <1>4, <1>5, IdleCopies, CopiesStay DEF BudgetInv
<1>7. QED
  BY <1>3, <1>6 DEF BudgetInv

LEMMA RecordFailureKeeps ==
  ASSUME IInv, BudgetInv, NEW t \in Thread, NEW retryable \in BOOLEAN, RecordFailure(t, retryable)
  PROVE  BudgetInv'
<1>1. PICK outcome \in {"retrying", "failed", "dead_letter"} :
        /\ outcome = IF ~retryable THEN "failed"
                     ELSE IF threads[t].attempts < MaxAttempts THEN "retrying" ELSE "dead_letter"
        /\ SaveFenced(t, outcome)
  BY DEF RecordFailure
<1>2. outcome = "retrying" => threads[t].attempts < MaxAttempts
  BY <1>1
<1>3. threads[t].pc = "extracting" /\ UNCHANGED <<created, issued>> /\ Finish(t, "ok")
  BY DEF RecordFailure, At
<1>4. QED
  BY <1>1, <1>2, <1>3, RecordKeeps

LEMMA ProcessStepKeeps ==
  ASSUME IInv, BudgetInv, NEW t \in Thread, ProcessStep(t)
  PROVE  BudgetInv'
<1>1. CASE ReadDocument(t)
  BY <1>1, ReadDocumentKeeps
<1>2. CASE MarkProcessing(t)
  BY <1>2, MarkProcessingKeeps
<1>3. CASE RecordSuccess(t)
  <2>1. threads[t].pc = "extracting" /\ SaveFenced(t, "succeeded")
          /\ UNCHANGED <<created, issued>> /\ Finish(t, "ok")
    BY <1>3 DEF RecordSuccess, At
  <2>2. QED
    BY <2>1, RecordKeeps
<1>4. CASE RecordLeaseLost(t)
  BY <1>4, FinishKeeps DEF RecordLeaseLost, database
<1>5. CASE \E retryable \in BOOLEAN : RecordFailure(t, retryable)
  BY <1>5, RecordFailureKeeps
<1>6. CASE FinishRun(t)
  <2>1. UNCHANGED <<jobs, ledger, issued, created>> /\ threads' = [threads EXCEPT ![t] = IdleThread]
    BY <1>6 DEF FinishRun, database
  <2>2. CopyOK(IdleThread) /\ IdleThread.pc \notin {"cancel_read", "cancel"}
    BY DEF CopyOK, IdleThread
  <2>3. QED
    BY <2>1, <2>2, QuietKeeps
<1>7. QED
  BY <1>1, <1>2, <1>3, <1>4, <1>5, <1>6 DEF ProcessStep

\* A job that starts has a holder with a new lease; earlier leases hold nothing of it.
LEMMA StartKeeps ==
  ASSUME IInv, BudgetInv, NEW t \in Thread, NEW j \in 1..created, StartJob(j), UNCHANGED created,
         NEW th, threads' = [threads EXCEPT ![t] = th], th.pc \notin {"cancel_read", "cancel"},
         th.pc \in {"leased", "extracting"} => th.job = j /\ th.attempts = jobs[j].attempts + 1,
         th.pc # "read"
  PROVE  BudgetInv'
<1>1. /\ AttemptsInv' /\ RetryBudget'
      /\ jobs'[j].attempts = jobs[j].attempts + 1 /\ jobs'[j].token = issued + 1
      /\ \A k \in JobId : k # j => jobs'[k] = jobs[k]
  BY StartCounts DEF BudgetInv
<1>2. issued \in Nat /\ \A k \in 1..created : k \in JobId
  BY JobsTyped, ConstantsAssumption DEF JobFacts
<1>3. HoldersStay
  <2>1. ASSUME NEW k \in 1..created, NEW l \in 0..issued, Holds(jobs'[k], l)
        PROVE  Holds(jobs[k], l) /\ jobs'[k].attempts = jobs[k].attempts
    <3>1. l # issued + 1
      BY <1>2
    <3>2. k # j
      BY <1>1, <2>1, <3>1 DEF Holds
    <3>3. QED
      BY <1>1, <1>2, <2>1, <3>2
  <2>2. QED
    BY <2>1 DEF HoldersStay, Holds
<1>4. CopyOK(th)'
  BY <1>1 DEF CopyOK
<1>5. CopiesInv' /\ NobodyCancels'
  BY <1>3, <1>4, CopiesStay DEF BudgetInv
<1>6. QED
  BY <1>1, <1>5 DEF BudgetInv

LEMMA ClaimKeeps ==
  ASSUME IInv, BudgetInv, NEW w \in Worker, NEW j \in 1..created, Claim(w, j)
  PROVE  BudgetInv'
<1>1. w \in Thread /\ threads[w] \in ThreadRow /\ StartJob(j) /\ UNCHANGED created
  BY OwnRow DEF Thread, Claim
<1>2. PICK th : th = [threads[w] EXCEPT !.pc = "claimed", !.job = j, !.doc = jobs[j].doc,
                        !.token = issued + 1]
  OBVIOUS
<1>3. threads' = [threads EXCEPT ![w] = th] /\ th.pc = "claimed"
  BY <1>1, <1>2 DEF Claim, IInv, TypeOK, ThreadRow
<1>4. QED
  BY <1>1, <1>3, StartKeeps

LEMMA WorkerStepKeeps ==
  ASSUME IInv, BudgetInv, NEW w \in Worker, WorkerStep(w)
  PROVE  BudgetInv'
<1>1. w \in Thread /\ threads[w] \in ThreadRow /\ RowOK(threads[w])
  BY OwnRow DEF Thread
<1>2. CASE ReceiveMessage(w)
  <2>1. PICK j \in Message : threads' = [threads EXCEPT ![w].pc = "received", ![w].msg = j]
    BY <1>2 DEF ReceiveMessage
  <2>2. PICK th : th = [threads[w] EXCEPT !.pc = "received", !.msg = j]
    OBVIOUS
  <2>3. threads' = [threads EXCEPT ![w] = th] /\ th.pc = "received"
    BY <1>1, <2>1, <2>2 DEF IInv, TypeOK, ThreadRow
  <2>4. CopyOK(th)
    BY <2>3 DEF CopyOK
  <2>5. QED
    BY <1>1, <1>2, <2>3, <2>4, QuietKeeps DEF ReceiveMessage, database
<1>3. CASE ClaimDelivered(w)
  BY <1>1, <1>3, ClaimKeeps DEF ClaimDelivered, At, RowOK
<1>4. CASE SkipDelivered(w) \/ SkipLocked(w) \/ RejectDelivered(w)
  BY <1>1, <1>4, FinishKeeps DEF SkipDelivered, SkipLocked, RejectDelivered, database
<1>5. CASE ClaimPolled(w)
  <2>1. PICK j \in JobId : Processable(jobs[j]) /\ Claim(w, j)
    BY <1>5 DEF ClaimPolled, NextProcessable
  <2>2. j \in 1..created
    <3>1. j > created => jobs[j] = NoRow
      BY DEF IInv, JobsInv
    <3>2. ~Processable(NoRow)
      BY DEF Processable, NoRow
    <3>3. QED
      BY <2>1, <3>1, <3>2, ConstantsAssumption DEF IInv, TypeOK, JobId
  <2>3. QED
    BY <2>1, <2>2, ClaimKeeps
<1>6. CASE ReadClaimedJob(w)
  <2>1. UNCHANGED <<jobs, ledger, issued, created>>
    BY <1>6 DEF ReadClaimedJob, database
  <2>2. CASE Finish(w, "lease_lost")
    BY <1>1, <2>1, <2>2, FinishKeeps
  <2>3. CASE threads' = [threads EXCEPT ![w].pc = "read",
                           ![w].jobSeen = jobs[threads[w].job].status,
                           ![w].attempts = jobs[threads[w].job].attempts]
    <3>1. PICK th : th = [threads[w] EXCEPT !.pc = "read",
                            !.jobSeen = jobs[threads[w].job].status,
                            !.attempts = jobs[threads[w].job].attempts]
      OBVIOUS
    <3>2. /\ threads' = [threads EXCEPT ![w] = th] /\ th.pc = "read" /\ th.job = threads[w].job
          /\ th.attempts = jobs[threads[w].job].attempts
      BY <1>1, <2>3, <3>1 DEF IInv, TypeOK, ThreadRow
    <3>3. CopyOK(th)
      BY <3>2 DEF CopyOK
    <3>4. QED
      BY <1>1, <2>1, <3>2, <3>3, QuietKeeps
  <2>4. QED
    BY <1>6, <2>2, <2>3 DEF ReadClaimedJob
<1>7. CASE ProcessStep(w)
  BY <1>1, <1>7, ProcessStepKeeps
<1>8. QED
  BY <1>2, <1>3, <1>4, <1>5, <1>6, <1>7 DEF WorkerStep

\* A new job has no attempt and no lease.
LEMMA AddJobKeeps ==
  ASSUME IInv, BudgetInv, NEW r \in Thread, NEW d \in Doc, AddJob(d), UNCHANGED <<ledger, issued>>,
         NEW th, threads' = [threads EXCEPT ![r] = th], th.pc = "publish"
  PROVE  BudgetInv'
<1>1. created + 1 \in JobId /\ created + 1 \notin 1..created /\ JobFacts
        /\ \A j \in 1..created : j \in JobId
  BY AddJobStep, TablesOK, JobsTyped, ConstantsAssumption DEF JobFacts
<1>2. /\ jobs'[created + 1] = QueuedRow(d) /\ QueuedRow(d).attempts = 0
      /\ \A k \in JobId : k # created + 1 => jobs'[k] = jobs[k]
  BY <1>1, QueuedRowOK DEF AddJob, JobFacts
<1>3. jobs[created + 1].attempts = 0
  <2>1. created + 1 > created
    BY <1>1, ConstantsAssumption DEF JobFacts
  <2>2. jobs[created + 1] = NoRow
    BY <1>1, <2>1 DEF IInv, JobsInv
  <2>3. QED
    BY <2>2 DEF NoRow
<1>4. CountsUntouched
  BY <1>2, <1>3 DEF CountsUntouched
<1>5. HoldersStay
  BY <1>1, <1>2 DEF HoldersStay, Holds
<1>6. CopiesInv' /\ NobodyCancels'
  BY <1>5, IdleCopies, CopiesStay DEF BudgetInv
<1>7. QED
  BY <1>4, <1>6, UntouchedCounts DEF BudgetInv

LEMMA BeginKeeps ==
  ASSUME IInv, BudgetInv, "cancel" \notin Commands, NEW r \in Request, NEW d \in Doc,
         BeginProcess(r, d) \/ BeginEnqueue(r, d) \/ BeginCancel(r, d)
  PROVE  BudgetInv'
<1>1. /\ r \in Thread /\ threads[r] \in ThreadRow
      /\ UNCHANGED <<jobs, ledger, issued, created>>
  BY OwnRow DEF Thread, BeginProcess, BeginEnqueue, BeginCancel, database
<1>2. CASE BeginProcess(r, d)
  <2>1. PICK j \in JobId :
          threads' = [threads EXCEPT ![r].pc = "read", ![r].doc = d, ![r].job = j,
                                     ![r].jobSeen = jobs[j].status,
                                     ![r].attempts = jobs[j].attempts]
    BY <1>2 DEF BeginProcess
  <2>2. PICK th : th = [threads[r] EXCEPT !.pc = "read", !.doc = d, !.job = j,
                          !.jobSeen = jobs[j].status, !.attempts = jobs[j].attempts]
    OBVIOUS
  <2>3. /\ threads' = [threads EXCEPT ![r] = th] /\ th.pc = "read" /\ th.job = j
        /\ th.attempts = jobs[j].attempts
    BY <1>1, <2>1, <2>2 DEF IInv, TypeOK, ThreadRow
  <2>4. CopyOK(th)
    BY <2>3 DEF CopyOK
  <2>5. QED
    BY <1>1, <2>3, <2>4, QuietKeeps
<1>3. CASE BeginEnqueue(r, d)
  <2>1. PICK th : th = [threads[r] EXCEPT !.pc = "enqueue", !.doc = d, !.docSeen = docs[d]]
    OBVIOUS
  <2>2. threads' = [threads EXCEPT ![r] = th] /\ th.pc = "enqueue"
    BY <1>1, <1>3, <2>1 DEF BeginEnqueue, IInv, TypeOK, ThreadRow
  <2>3. CopyOK(th)
    BY <2>2 DEF CopyOK
  <2>4. QED
    BY <1>1, <2>2, <2>3, QuietKeeps
<1>4. CASE BeginCancel(r, d)
  BY <1>4 DEF BeginCancel
<1>5. QED
  BY <1>2, <1>3, <1>4

LEMMA RequestStepKeeps ==
  ASSUME IInv, BudgetInv, "cancel" \notin Commands, NEW r \in Request, RequestStep(r)
  PROVE  BudgetInv'
<1>1. r \in Thread /\ threads[r] \in ThreadRow /\ RowOK(threads[r])
  BY OwnRow DEF Thread
<1>2. CASE \E d \in Doc : Upload(r, d)
  <2>1. PICK d \in Doc : Upload(r, d)
    BY <1>2
  <2>2. PICK th : th = [threads[r] EXCEPT !.pc = "publish", !.doc = d, !.job = created + 1]
    OBVIOUS
  <2>3. threads' = [threads EXCEPT ![r] = th] /\ th.pc = "publish"
    BY <1>1, <2>1, <2>2 DEF Upload, IInv, TypeOK, ThreadRow
  <2>4. QED
    BY <1>1, <2>1, <2>3, AddJobKeeps DEF Upload
<1>3. CASE \E d \in Doc : BeginProcess(r, d) \/ BeginEnqueue(r, d) \/ BeginCancel(r, d)
  BY <1>3, BeginKeeps
<1>4. CASE Acquire(r)
  <2>1. threads[r].job \in 1..created /\ UNCHANGED created
    BY <1>1, <1>4 DEF Acquire, At, RowOK
  <2>2. CASE Finish(r, "lease_lost") /\ UNCHANGED <<jobs, ledger, issued>>
    BY <1>1, <2>1, <2>2, FinishKeeps
  <2>3. CASE StartJob(threads[r].job) /\ \E pc \in {"extracting", "leased"} :
               threads' = [threads EXCEPT ![r].token = issued + 1,
                             ![r].attempts = jobs[threads[r].job].attempts + 1, ![r].pc = pc]
    <3>1. PICK pc \in {"extracting", "leased"} :
            threads' = [threads EXCEPT ![r].token = issued + 1,
                          ![r].attempts = jobs[threads[r].job].attempts + 1, ![r].pc = pc]
      BY <2>3
    <3>2. PICK th : th = [threads[r] EXCEPT !.token = issued + 1,
                            !.attempts = jobs[threads[r].job].attempts + 1, !.pc = pc]
      OBVIOUS
    <3>3. /\ threads' = [threads EXCEPT ![r] = th] /\ th.pc = pc /\ th.job = threads[r].job
          /\ th.attempts = jobs[threads[r].job].attempts + 1
      BY <1>1, <3>1, <3>2 DEF IInv, TypeOK, ThreadRow
    <3>4. QED
      BY <1>1, <2>1, <2>3, <3>3, StartKeeps
  <2>4. QED
    BY <1>4, <2>2, <2>3 DEF Acquire
<1>5. CASE ProcessStep(r)
  BY <1>1, <1>5, ProcessStepKeeps
<1>6. CASE CommitEnqueue(r)
  <2>1. threads[r].doc \in Doc
    BY <1>1, <1>6 DEF CommitEnqueue, At, RowOK
  <2>2. PICK th : th = [threads[r] EXCEPT !.pc = "publish", !.job = created + 1]
    OBVIOUS
  <2>3. threads' = [threads EXCEPT ![r] = th] /\ th.pc = "publish"
    BY <1>1, <1>6, <2>2 DEF CommitEnqueue, IInv, TypeOK, ThreadRow
  <2>4. QED
    BY <1>1, <1>6, <2>1, <2>3, AddJobKeeps DEF CommitEnqueue
<1>7. CASE Publish(r)
  BY <1>1, <1>7, FinishKeeps DEF Publish, database
<1>8. CASE ReadCancelJob(r) \/ CommitCancel(r)
  BY <1>1, <1>8 DEF ReadCancelJob, CommitCancel, At, BudgetInv, NobodyCancels
<1>9. QED
  BY <1>2, <1>3, <1>4, <1>5, <1>6, <1>7, <1>8 DEF RequestStep

\* Heartbeats and time change flags only.
LEMMA FlagsKeep ==
  ASSUME IInv, BudgetInv, threads' = threads, UNCHANGED <<ledger, issued, created>>,
         \A k \in JobId : /\ jobs'[k].attempts = jobs[k].attempts
                          /\ jobs'[k].status = jobs[k].status /\ jobs'[k].token = jobs[k].token
  PROVE  BudgetInv'
<1>1. CountsUntouched
  BY DEF CountsUntouched
<1>2. HoldersStay
  BY JobsTyped DEF HoldersStay, Holds
<1>3. QED
  BY <1>1, <1>2, UntouchedCounts, CopiesRest DEF BudgetInv

LEMMA TimeKeeps ==
  ASSUME IInv, BudgetInv,
         \/ \E w \in Worker : Heartbeat(w)
         \/ \E t \in Thread : Fault(t)
         \/ \E j \in JobId : Passage(j)
         \/ BrokerMoves
  PROVE  BudgetInv'
<1>1. CASE \E w \in Worker : Heartbeat(w)
  <2>1. PICK w \in Worker : Heartbeat(w)
    BY <1>1
  <2>2. \A k \in JobId : /\ jobs'[k].attempts = jobs[k].attempts
                         /\ jobs'[k].status = jobs[k].status /\ jobs'[k].token = jobs[k].token
    BY <2>1 DEF Heartbeat, IInv, TypeOK, JobRow
  <2>3. QED
    BY <2>1, <2>2, FlagsKeep DEF Heartbeat
<1>2. CASE \E t \in Thread : Fault(t)
  <2>1. PICK t \in Thread : Fault(t)
    BY <1>2
  <2>2. UNCHANGED <<jobs, ledger, issued, created>>
    BY <2>1 DEF Fault, Crash, RunRaises, database
  <2>3. CopyOK(IdleThread) /\ IdleThread.pc \notin {"cancel_read", "cancel"}
    BY DEF CopyOK, IdleThread
  <2>4. CASE threads' = [threads EXCEPT ![t] = IdleThread]
    BY <2>2, <2>3, <2>4, QuietKeeps
  <2>5. CASE Finish(t, "error")
    BY <2>2, <2>5, FinishKeeps
  <2>6. QED
    BY <2>1, <2>4, <2>5 DEF Fault, Crash, RunRaises
<1>3. CASE \E j \in JobId : ExpireLease(j)
  <2>1. PICK j \in JobId : ExpireLease(j)
    BY <1>3
  <2>2. \A k \in JobId : /\ jobs'[k].attempts = jobs[k].attempts
                         /\ jobs'[k].status = jobs[k].status /\ jobs'[k].token = jobs[k].token
    BY <2>1 DEF ExpireLease, IInv, TypeOK, JobRow
  <2>3. QED
    BY <2>1, <2>2, FlagsKeep DEF ExpireLease
<1>4. CASE \E j \in JobId : RetryDue(j)
  <2>1. PICK j \in JobId : RetryDue(j)
    BY <1>4
  <2>2. \A k \in JobId : /\ jobs'[k].attempts = jobs[k].attempts
                         /\ jobs'[k].status = jobs[k].status /\ jobs'[k].token = jobs[k].token
    BY <2>1 DEF RetryDue, IInv, TypeOK, JobRow
  <2>3. QED
    BY <2>1, <2>2, FlagsKeep DEF RetryDue
<1>5. CASE BrokerMoves
  BY <1>5, BrokerMoving, FlagsKeep
<1>6. QED
  BY <1>1, <1>2, <1>3, <1>4, <1>5 DEF Passage, AbandonedLeaseExpires, HeldLeaseExpires

-----------------------------------------------------------------------------
\* Unless clients may cancel, retryable errors reschedule a job fewer than
\* MaxAttempts times, for any documents, workers, API threads and faults.  A
\* cancel would write an old count back, and the budget with it: see the README.
THEOREM RetriesStayInBudget ==
  ASSUME "cancel" \notin Commands
  PROVE  Spec => []RetryBudget
<1>1. Init => BudgetInv
  <2> SUFFICES ASSUME Init PROVE BudgetInv
    OBVIOUS
  <2>1. NobodyCancels /\ CopiesInv
    BY DEF Init, NobodyCancels, CopiesInv, CopyOK, IdleThread
  <2>2. ASSUME NEW j \in JobId
        PROVE  Cardinality(LeasesOf(j)) <= jobs[j].attempts /\ Cardinality(RetriesOf(j)) < MaxAttempts
    <3>1. LeasesOf(j) = {} /\ RetriesOf(j) = {}
      BY ConstantsAssumption DEF Init, LeasesOf, RetriesOf, Lease
    <3>2. jobs[j].attempts = 0
      BY DEF Init, NoRow
    <3>3. QED
      BY <3>1, <3>2, FS_EmptySet, ConstantsAssumption
  <2>3. QED
    BY <2>1, <2>2 DEF BudgetInv, AttemptsInv, RetryBudget
<1>2. IInv /\ BudgetInv /\ [Next]_vars => BudgetInv'
  <2> SUFFICES ASSUME IInv, BudgetInv, [Next]_vars PROVE BudgetInv'
    OBVIOUS
  <2>1. CASE \E w \in Worker : WorkerStep(w)
    BY <2>1, WorkerStepKeeps
  <2>2. CASE \E r \in Request : RequestStep(r)
    BY <2>2, RequestStepKeeps
  <2>3. CASE \/ \E w \in Worker : Heartbeat(w)
             \/ \E t \in Thread : Fault(t)
             \/ \E j \in JobId : Passage(j)
             \/ BrokerMoves
    BY <2>3, TimeKeeps
  <2>4. CASE UNCHANGED vars
    BY <2>4, FlagsKeep DEF vars
  <2>5. QED
    BY <2>1, <2>2, <2>3, <2>4 DEF Next, BrokerMoves
<1>3. BudgetInv => RetryBudget
  BY DEF BudgetInv
<1>4. QED
  BY InvariantHolds, <1>1, <1>2, <1>3, PTL DEF Spec

-----------------------------------------------------------------------------
(* Wake-ups.                                                                 *)

\* The job of a message past its receipt is no longer queued, unless the run that
\* got it ended without seeing the job or with an error.
Unserved(th) ==
  th.pc = "received" \/ (th.pc = "done" /\ th.result \in {"skipped", "rejected", "error"})

\* A job's message in somebody's hands names a job that exists.
WokenOK(th) ==
  /\ th.pc = "idle" => th.msg = NoJob
  /\ th.msg \in JobId => /\ th.msg \in 1..created
                         /\ Unserved(th) \/ jobs[th.msg].status # "queued"

ServedInv == CompletedWakeupsWereServed /\ \A t \in Thread : WokenOK(threads[t])

Over(state) == state = "completed"

-----------------------------------------------------------------------------
(* Jobs, messages and threads.                                               *)

\* Jobs are added, and none of those that exist returns to the queue.
NoneRequeued ==
  /\ created <= created'
  /\ \A k \in 1..created : jobs[k].status # "queued" => jobs'[k].status # "queued"

\* A message is completed for a job that left the queue.
SettledRightly ==
  \A j \in JobId : Over(mail'[j].state) =>
    Over(mail[j].state) \/ jobs'[j].status # "queued"

LEMMA Counted == ASSUME IInv PROVE /\ created \in Nat /\ \A j \in 1..created : j \in JobId
                                   /\ jobs \in [JobId -> JobRow] /\ mail \in [Message -> MailRow]
BY ConstantsAssumption DEF IInv, TypeOK, JobId

LEMMA SettledStays ==
  ASSUME IInv, CompletedWakeupsWereServed, NoneRequeued, SettledRightly
  PROVE  CompletedWakeupsWereServed'
<1>1. ASSUME NEW j \in JobId, Over(mail'[j].state) PROVE jobs'[j].status # "queued"
  <2>1. CASE Over(mail[j].state)
    <3>1. jobs[j].status # "queued"
      BY <2>1 DEF CompletedWakeupsWereServed, Over
    <3>2. j \in 1..created
      BY <2>1, Counted DEF IInv, MailInv, Over, JobId
    <3>3. QED
      BY <3>1, <3>2 DEF NoneRequeued
  <2>2. QED
    BY <1>1, <2>1 DEF SettledRightly
<1>2. QED
  BY <1>1 DEF CompletedWakeupsWereServed, Over

\* Thread t moves, the others still hold what they held.
LEMMA WokenStay ==
  ASSUME IInv, created' \in Nat, ServedInv, NoneRequeued, SettledRightly, NEW t \in Thread,
         NEW th, threads' = [threads EXCEPT ![t] = th], WokenOK(th)'
  PROVE  ServedInv'
<1>1. threads'[t] = th /\ \A u \in Thread : u # t => threads'[u] = threads[u]
  BY DEF IInv, TypeOK
<1>2. ASSUME NEW u \in Thread, u # t PROVE WokenOK(threads[u])'
  <2>1. WokenOK(threads[u])
    BY DEF ServedInv
  <2>2. 1..created \subseteq 1..created'
    BY Counted DEF NoneRequeued
  <2>3. QED
    BY <1>1, <1>2, <2>1, <2>2 DEF WokenOK, NoneRequeued
<1>3. \A u \in Thread : WokenOK(threads[u])'
  BY <1>1, <1>2 DEF WokenOK
<1>4. QED
  BY <1>3, SettledStays DEF ServedInv

\* A thread goes on with the message it has, if any.
LEMMA GoesOn ==
  ASSUME IInv, created' \in Nat, ServedInv, NoneRequeued, SettledRightly, NEW t \in Thread,
         NEW th, threads' = [threads EXCEPT ![t] = th], th.msg = threads[t].msg,
         th.pc # "idle", threads[t].pc \notin {"received", "done"}
  PROVE  ServedInv'
<1>1. WokenOK(threads[t]) /\ ~Unserved(threads[t])
  BY DEF ServedInv, Unserved
<1>2. 1..created \subseteq 1..created'
  BY Counted DEF NoneRequeued
<1>3. WokenOK(th)'
  BY <1>1, <1>2 DEF WokenOK, NoneRequeued
<1>4. QED
  BY <1>3, WokenStay

\* Job rows and messages stay.
LEMMA NothingServed ==
  ASSUME IInv, UNCHANGED <<jobs, created, mail>>
  PROVE  NoneRequeued /\ SettledRightly /\ created' \in Nat
BY Counted DEF NoneRequeued, SettledRightly

\* A run that ends with its message still to settle.
LEMMA FinishGoesOn ==
  ASSUME IInv, created' \in Nat, ServedInv, NoneRequeued, SettledRightly, NEW t \in Thread,
         NEW result, Finish(t, result), threads[t].pc \notin {"received", "done"}
  PROVE  ServedInv'
<1>1. PICK th : th = [IdleThread EXCEPT !.pc = "done", !.msg = threads[t].msg, !.result = result]
  OBVIOUS
<1>2. threads' = [threads EXCEPT ![t] = th] /\ th.pc = "done" /\ th.msg = threads[t].msg
  BY <1>1 DEF Finish, IdleThread
<1>3. QED
  BY <1>2, GoesOn

\* A run that ends without having served its message says so.
LEMMA EndsUnserved ==
  ASSUME IInv, ServedInv, NEW t \in Thread, NEW result \in {"skipped", "rejected", "error"},
         Finish(t, result), UNCHANGED <<jobs, created, mail>>
  PROVE  ServedInv'
<1>1. PICK th : th = [IdleThread EXCEPT !.pc = "done", !.msg = threads[t].msg, !.result = result]
  OBVIOUS
<1>2. /\ threads' = [threads EXCEPT ![t] = th] /\ th.pc = "done" /\ th.msg = threads[t].msg
      /\ th.result = result
  BY <1>1 DEF Finish, IdleThread
<1>3. WokenOK(threads[t])
  BY DEF ServedInv
<1>4. WokenOK(th)'
  BY <1>2, <1>3 DEF WokenOK, Unserved
<1>5. QED
  BY <1>2, <1>4, NothingServed, WokenStay

-----------------------------------------------------------------------------
(* Steps of _process_job.                                                    *)

LEMMA SaveRequeuesNone ==
  ASSUME IInv, NEW t \in Thread, threads[t].pc = "extracting",
         NEW status \in {"succeeded", "retrying", "failed", "dead_letter"},
         SaveFenced(t, status), UNCHANGED <<created, mail>>
  PROVE  NoneRequeued /\ SettledRightly /\ created' \in Nat
<1>1. threads[t].job \in JobId
  BY OwnRow, Counted DEF RowOK
<1>2. PICK j \in JobId : j = threads[t].job
  BY <1>1
<1>3. jobs' = [jobs EXCEPT ![j] = Ended(jobs[j], status)]
  BY <1>2 DEF SaveFenced
<1>4. jobs[j] \in JobRow /\ status \in JobStatus
  BY Counted DEF JobStatus
<1>5. Ended(jobs[j], status).status = status
  BY <1>4, EndedRowOK
<1>6. \A k \in JobId : jobs[k].status # "queued" => jobs'[k].status # "queued"
  BY <1>3, <1>5, Counted
<1>7. QED
  BY <1>6, Counted DEF NoneRequeued, SettledRightly

LEMMA ProcessStepServes ==
  ASSUME IInv, ServedInv, NEW t \in Thread, ProcessStep(t)
  PROVE  ServedInv'
<1>1. threads[t] \in ThreadRow /\ threads \in [Thread -> ThreadRow]
  BY OwnRow DEF IInv, TypeOK
<1>2. CASE ReadDocument(t)
  <2>1. NoneRequeued /\ SettledRightly /\ created' \in Nat /\ threads[t].pc \notin {"received", "done"}
    BY <1>2, NothingServed DEF ReadDocument, At, database
  <2>2. CASE Finish(t, "error") \/ Finish(t, "lease_lost")
    BY <2>1, <2>2, FinishGoesOn
  <2>3. ASSUME NEW next \in {"acquire", "extracting", "leased"},
               threads' = [threads EXCEPT ![t].docSeen = docs[threads[t].doc], ![t].pc = next]
        PROVE  ServedInv'
    <3>1. PICK th : th = [threads[t] EXCEPT !.docSeen = docs[threads[t].doc], !.pc = next]
      OBVIOUS
    <3>2. threads' = [threads EXCEPT ![t] = th] /\ th.pc = next /\ th.msg = threads[t].msg
      BY <1>1, <2>3, <3>1 DEF ThreadRow
    <3>3. QED
      BY <2>1, <3>2, GoesOn
  <2>4. PICK next \in {"acquire", "extracting", "leased"} :
          next = IF threads[t].jobSeen # "running" THEN "acquire"
                 ELSE IF docs[threads[t].doc] = "processing" THEN "extracting" ELSE "leased"
    OBVIOUS
  <2>5. \/ Finish(t, "error") \/ Finish(t, "lease_lost")
        \/ threads' = [threads EXCEPT ![t].docSeen = docs[threads[t].doc], ![t].pc = next]
    BY <1>2, <2>4 DEF ReadDocument
  <2>6. QED
    BY <2>2, <2>3, <2>5
<1>3. CASE MarkProcessing(t)
  <2>1. PICK th : th = [threads[t] EXCEPT !.pc = "extracting", !.docSeen = "processing"]
    OBVIOUS
  <2>2. /\ threads' = [threads EXCEPT ![t] = th] /\ th.pc = "extracting"
        /\ th.msg = threads[t].msg /\ threads[t].pc \notin {"received", "done"}
    BY <1>1, <1>3, <2>1 DEF MarkProcessing, At, ThreadRow
  <2>3. QED
    BY <1>3, <2>2, NothingServed, GoesOn DEF MarkProcessing
<1>4. CASE RecordSuccess(t)
  <2>1. threads[t].pc = "extracting" /\ SaveFenced(t, "succeeded")
          /\ UNCHANGED <<created, mail>> /\ Finish(t, "ok")
    BY <1>4 DEF RecordSuccess, At
  <2>2. QED
    BY <2>1, SaveRequeuesNone, FinishGoesOn
<1>5. CASE RecordLeaseLost(t)
  <2>1. threads[t].pc = "extracting" /\ UNCHANGED <<jobs, created, mail>> /\ Finish(t, "lease_lost")
    BY <1>5 DEF RecordLeaseLost, At, database
  <2>2. QED
    BY <2>1, NothingServed, FinishGoesOn
<1>6. CASE \E retryable \in BOOLEAN : RecordFailure(t, retryable)
  <2>1. PICK outcome \in {"succeeded", "retrying", "failed", "dead_letter"} : SaveFenced(t, outcome)
    BY <1>6 DEF RecordFailure
  <2>2. threads[t].pc = "extracting" /\ UNCHANGED <<created, mail>> /\ Finish(t, "ok")
    BY <1>6 DEF RecordFailure, At
  <2>3. QED
    BY <2>1, <2>2, SaveRequeuesNone, FinishGoesOn
<1>7. CASE FinishRun(t)
  <2>1. /\ UNCHANGED <<jobs, created>> /\ threads[t].pc = "done"
        /\ threads' = [threads EXCEPT ![t] = IdleThread]
    BY <1>7 DEF FinishRun, At, database
  <2>2. NoneRequeued /\ created' \in Nat
    BY <2>1, Counted DEF NoneRequeued
  <2>3. WokenOK(threads[t])
    BY DEF ServedInv
  <2>4. SettledRightly
    <3>1. CASE mail' = mail
      BY <3>1 DEF SettledRightly
    <3>2. CASE mail' = [mail EXCEPT ![threads[t].msg] = Settled(@, threads[t].result)]
      <4>1. PICK m \in Message \union {NoJob} : m = threads[t].msg
        BY <1>1 DEF ThreadRow
      <4>2. \A k \in JobId : k # m => mail'[k] = mail[k]
        BY <3>2, <4>1, Counted DEF Message
      <4>3. ASSUME m \in JobId, Over(mail'[m].state) PROVE jobs[m].status # "queued"
        <5>1. mail'[m] = Settled(mail[m], threads[t].result) /\ mail[m] \in MailRow
          BY <3>2, <4>1, <4>3, Counted DEF Message
        <5>2. mail'[m].state = SettledState(mail[m], threads[t].result)
          BY <5>1 DEF Settled, MailRow
        <5>3. threads[t].result \in {"ok", "lease_lost"}
          BY <4>3, <5>2 DEF Over, SettledState, StateAfter
        <5>4. ~Unserved(threads[t])
          BY <2>1, <5>3 DEF Unserved
        <5>5. QED
          BY <2>3, <4>1, <4>3, <5>4 DEF WokenOK
      <4>4. QED
        BY <2>1, <4>2, <4>3 DEF SettledRightly
    <3>3. QED
      BY <1>7, <3>1, <3>2 DEF FinishRun
  <2>5. WokenOK(IdleThread)'
    BY ConstantsAssumption DEF WokenOK, IdleThread, NoJob, JobId
  <2>6. QED
    BY <2>1, <2>2, <2>4, <2>5, WokenStay
<1>8. QED
  BY <1>2, <1>3, <1>4, <1>5, <1>6, <1>7 DEF ProcessStep

-----------------------------------------------------------------------------
(* Workers.                                                                  *)

LEMMA StartRequeuesNone ==
  ASSUME IInv, NEW j \in JobId, StartJob(j), UNCHANGED <<created, mail>>
  PROVE  NoneRequeued /\ SettledRightly /\ created' \in Nat /\ jobs'[j].status = "running"
<1>1. jobs' = [jobs EXCEPT ![j] = Started(jobs[j], issued + 1)]
  BY DEF StartJob
<1>2. Started(jobs[j], issued + 1).status = "running"
  BY Counted DEF Started, JobRow
<1>3. jobs'[j].status = "running" /\ \A k \in JobId : k # j => jobs'[k] = jobs[k]
  BY <1>1, <1>2, Counted
<1>4. QED
  BY <1>3, Counted DEF NoneRequeued, SettledRightly

LEMMA ClaimServes ==
  ASSUME IInv, ServedInv, NEW w \in Worker, NEW j \in JobId, Claim(w, j),
         threads[w].msg \in {NoJob, j}
  PROVE  ServedInv'
<1>1. w \in Thread /\ threads[w] \in ThreadRow /\ StartJob(j) /\ UNCHANGED <<created, mail>>
        /\ threads \in [Thread -> ThreadRow]
  BY OwnRow DEF Thread, Claim, IInv, TypeOK
<1>2. PICK th : th = [threads[w] EXCEPT !.pc = "claimed", !.job = j, !.doc = jobs[j].doc,
                        !.token = issued + 1]
  OBVIOUS
<1>3. threads' = [threads EXCEPT ![w] = th] /\ th.pc = "claimed" /\ th.msg = threads[w].msg
  BY <1>1, <1>2 DEF Claim, ThreadRow
<1>4. NoneRequeued /\ SettledRightly /\ created' \in Nat /\ jobs'[j].status = "running"
  BY <1>1, StartRequeuesNone
<1>5. WokenOK(th)'
  <2>1. th.msg \in JobId => th.msg \in 1..created /\ th.msg = j
    BY <1>1, <1>3, ConstantsAssumption DEF ServedInv, WokenOK, NoJob, JobId
  <2>2. QED
    BY <1>1, <1>3, <1>4, <2>1 DEF WokenOK
<1>6. QED
  BY <1>1, <1>3, <1>4, <1>5, WokenStay

LEMMA WorkerStepServes ==
  ASSUME IInv, ServedInv, NEW w \in Worker, WorkerStep(w)
  PROVE  ServedInv'
<1>1. /\ w \in Thread /\ threads[w] \in ThreadRow /\ RowOK(threads[w])
      /\ threads \in [Thread -> ThreadRow] /\ WokenOK(threads[w])
  BY OwnRow DEF Thread, IInv, TypeOK, ServedInv
<1>2. CASE ReceiveMessage(w)
  <2>1. PICK j \in Message :
          /\ mail[j].state = "ready"
          /\ mail' = [mail EXCEPT ![j] = [state |-> "locked", deliveries |-> @.deliveries + 1,
                                          holder |-> w]]
          /\ threads' = [threads EXCEPT ![w].pc = "received", ![w].msg = j]
    BY <1>2 DEF ReceiveMessage
  <2>2. UNCHANGED <<jobs, created>> /\ NoneRequeued /\ created' \in Nat
    BY <1>2, Counted DEF ReceiveMessage, database, NoneRequeued
  <2>3. SettledRightly
    <3>1. mail'[j].state = "locked" /\ \A k \in JobId : k # j => mail'[k] = mail[k]
      BY <2>1, Counted DEF Message
    <3>2. QED
      BY <3>1 DEF SettledRightly, Over
  <2>4. PICK th : th = [threads[w] EXCEPT !.pc = "received", !.msg = j]
    OBVIOUS
  <2>5. threads' = [threads EXCEPT ![w] = th] /\ th.pc = "received" /\ th.msg = j
    BY <1>1, <2>1, <2>4 DEF ThreadRow
  <2>6. j \in JobId => j \in 1..created
    BY <2>1, Counted DEF IInv, MailInv, JobId
  <2>7. WokenOK(th)'
    BY <2>2, <2>5, <2>6 DEF WokenOK, Unserved
  <2>8. QED
    BY <1>1, <2>2, <2>3, <2>5, <2>7, WokenStay
<1>3. CASE ClaimDelivered(w)
  <2>1. threads[w].msg \in JobId
    BY <1>3 DEF ClaimDelivered
  <2>2. QED
    BY <1>3, <2>1, ClaimServes DEF ClaimDelivered
<1>4. CASE SkipDelivered(w)
  <2>1. NoneRequeued /\ SettledRightly /\ created' \in Nat /\ UNCHANGED <<jobs, created>>
    BY <1>4, NothingServed DEF SkipDelivered, database
  <2>2. PICK th : th = [IdleThread EXCEPT !.pc = "done", !.msg = threads[w].msg, !.result = "ok"]
    OBVIOUS
  <2>3. threads' = [threads EXCEPT ![w] = th] /\ th.pc = "done" /\ th.msg = threads[w].msg
    BY <1>4, <2>2 DEF SkipDelivered, Finish, IdleThread
  <2>4. jobs[threads[w].msg].status # "queued" /\ threads[w].msg \in 1..created
    BY <1>1, <1>4 DEF SkipDelivered, Processable, At, RowOK
  <2>5. WokenOK(th)'
    BY <2>1, <2>3, <2>4 DEF WokenOK
  <2>6. QED
    BY <1>1, <2>1, <2>3, <2>5, WokenStay
<1>5. CASE ClaimPolled(w)
  <2>1. PICK j \in JobId : Claim(w, j)
    BY <1>5 DEF ClaimPolled
  <2>2. threads[w].msg = NoJob
    BY <1>1, <1>5 DEF ClaimPolled, At, WokenOK
  <2>3. QED
    BY <2>1, <2>2, ClaimServes
<1>6. CASE ReadClaimedJob(w)
  <2>1. NoneRequeued /\ SettledRightly /\ created' \in Nat /\ threads[w].pc \notin {"received", "done"}
    BY <1>6, NothingServed DEF ReadClaimedJob, At, database
  <2>2. CASE Finish(w, "lease_lost")
    BY <1>1, <2>1, <2>2, FinishGoesOn
  <2>3. CASE threads' = [threads EXCEPT ![w].pc = "read",
                           ![w].jobSeen = jobs[threads[w].job].status,
                           ![w].attempts = jobs[threads[w].job].attempts]
    <3>1. PICK th : th = [threads[w] EXCEPT !.pc = "read",
                            !.jobSeen = jobs[threads[w].job].status,
                            !.attempts = jobs[threads[w].job].attempts]
      OBVIOUS
    <3>2. threads' = [threads EXCEPT ![w] = th] /\ th.pc = "read" /\ th.msg = threads[w].msg
      BY <1>1, <2>3, <3>1 DEF ThreadRow
    <3>3. QED
      BY <1>1, <2>1, <3>2, GoesOn
  <2>4. QED
    BY <1>6, <2>2, <2>3 DEF ReadClaimedJob
<1>7. CASE ProcessStep(w)
  BY <1>1, <1>7, ProcessStepServes
<1>8. CASE SkipLocked(w) \/ RejectDelivered(w)
  BY <1>1, <1>8, EndsUnserved DEF SkipLocked, RejectDelivered, database
<1>9. QED
  BY <1>2, <1>3, <1>4, <1>5, <1>6, <1>7, <1>8 DEF WorkerStep

-----------------------------------------------------------------------------
(* Requests.                                                                 *)

\* A request never touches a message: it goes on with none.
LEMMA RequestGoesOn ==
  ASSUME IInv, ServedInv, created' \in Nat, NoneRequeued, SettledRightly, NEW r \in Request,
         threads[r].pc \notin {"received", "done"}, NEW th \in ThreadRow,
         threads' = [threads EXCEPT ![r] = th], th.msg = threads[r].msg, th.pc # "idle"
  PROVE  ServedInv'
BY GoesOn DEF Thread

LEMMA AddJobServes ==
  ASSUME IInv, NEW d \in Doc, AddJob(d), UNCHANGED <<ledger, issued, mail>>
  PROVE  NoneRequeued /\ SettledRightly /\ created' \in Nat
<1>1. created + 1 \in JobId /\ created' = created + 1
  BY AddJobStep, TablesOK
<1>2. \A k \in 1..created : jobs'[k] = jobs[k]
  BY <1>1, Counted DEF AddJob
<1>3. QED
  BY <1>1, <1>2, Counted DEF NoneRequeued, SettledRightly

LEMMA BeginServes ==
  ASSUME IInv, ServedInv, NEW r \in Request, NEW d \in Doc,
         BeginProcess(r, d) \/ BeginEnqueue(r, d) \/ BeginCancel(r, d) \/ Upload(r, d)
  PROVE  ServedInv'
<1>1. /\ r \in Thread /\ threads[r] \in ThreadRow /\ threads \in [Thread -> ThreadRow]
      /\ threads[r].pc = "idle"
  BY OwnRow DEF Thread, BeginProcess, BeginEnqueue, BeginCancel, Upload, At, IInv, TypeOK
<1>2. NoneRequeued /\ SettledRightly /\ created' \in Nat
  <2>1. CASE Upload(r, d)
    BY <2>1, AddJobServes DEF Upload
  <2>2. CASE BeginProcess(r, d) \/ BeginEnqueue(r, d) \/ BeginCancel(r, d)
    BY <2>2, NothingServed DEF BeginProcess, BeginEnqueue, BeginCancel, database
  <2>3. QED
    BY <2>1, <2>2
<1>3. \E th : /\ threads' = [threads EXCEPT ![r] = th] /\ th.msg = threads[r].msg
              /\ th.pc # "idle"
  <2>1. CASE BeginProcess(r, d)
    <3>1. PICK j \in JobId :
            threads' = [threads EXCEPT ![r].pc = "read", ![r].doc = d, ![r].job = j,
                                       ![r].jobSeen = jobs[j].status,
                                       ![r].attempts = jobs[j].attempts]
      BY <2>1 DEF BeginProcess
    <3>2. PICK th : th = [threads[r] EXCEPT !.pc = "read", !.doc = d, !.job = j,
                            !.jobSeen = jobs[j].status, !.attempts = jobs[j].attempts]
      OBVIOUS
    <3>3. threads' = [threads EXCEPT ![r] = th] /\ th.pc = "read" /\ th.msg = threads[r].msg
      BY <1>1, <3>1, <3>2 DEF ThreadRow
    <3>4. QED
      BY <3>3
  <2>2. CASE BeginEnqueue(r, d)
    <3>1. PICK th : th = [threads[r] EXCEPT !.pc = "enqueue", !.doc = d, !.docSeen = docs[d]]
      OBVIOUS
    <3>2. threads' = [threads EXCEPT ![r] = th] /\ th.pc = "enqueue" /\ th.msg = threads[r].msg
      BY <1>1, <2>2, <3>1 DEF BeginEnqueue, ThreadRow
    <3>3. QED
      BY <3>2
  <2>3. CASE BeginCancel(r, d)
    <3>1. PICK th : th = [threads[r] EXCEPT !.pc = "cancel_read", !.doc = d, !.docSeen = docs[d]]
      OBVIOUS
    <3>2. threads' = [threads EXCEPT ![r] = th] /\ th.pc = "cancel_read" /\ th.msg = threads[r].msg
      BY <1>1, <2>3, <3>1 DEF BeginCancel, ThreadRow
    <3>3. QED
      BY <3>2
  <2>4. CASE Upload(r, d)
    <3>1. PICK th : th = [threads[r] EXCEPT !.pc = "publish", !.doc = d, !.job = created + 1]
      OBVIOUS
    <3>2. threads' = [threads EXCEPT ![r] = th] /\ th.pc = "publish" /\ th.msg = threads[r].msg
      BY <1>1, <2>4, <3>1 DEF Upload, ThreadRow
    <3>3. QED
      BY <3>2
  <2>5. QED
    BY <2>1, <2>2, <2>3, <2>4
<1>4. QED
  BY <1>1, <1>2, <1>3, GoesOn

LEMMA CancelServes ==
  ASSUME IInv, ServedInv, NEW r \in Request, CommitCancel(r)
  PROVE  ServedInv'
<1>1. /\ r \in Thread /\ threads[r] \in ThreadRow /\ RowOK(threads[r]) /\ threads[r].pc = "cancel"
      /\ UNCHANGED <<created, mail>>
  BY OwnRow DEF Thread, CommitCancel, At
<1>2. PICK j \in JobId : j = threads[r].job
  BY <1>1, Counted DEF RowOK
<1>3. CASE jobs[j].status = "running"
  <2>1. Finish(r, "lease_lost") /\ UNCHANGED jobs
    BY <1>2, <1>3 DEF CommitCancel
  <2>2. QED
    BY <1>1, <2>1, NothingServed, FinishGoesOn
<1>4. CASE jobs[j].status # "running"
  <2>1. /\ Finish(r, "ok")
        /\ jobs' = [jobs EXCEPT ![j] = [Ended(jobs[j], "cancelled") EXCEPT
                                          !.attempts = threads[r].attempts]]
    BY <1>2, <1>4 DEF CommitCancel
  <2>2. [Ended(jobs[j], "cancelled") EXCEPT !.attempts = threads[r].attempts].status = "cancelled"
    BY Counted DEF Ended, JobRow
  <2>3. \A k \in JobId : jobs[k].status # "queued" => jobs'[k].status # "queued"
    BY <2>1, <2>2, Counted
  <2>4. NoneRequeued /\ SettledRightly /\ created' \in Nat
    BY <1>1, <2>3, Counted DEF NoneRequeued, SettledRightly
  <2>5. QED
    BY <1>1, <2>1, <2>4, FinishGoesOn
<1>5. QED
  BY <1>3, <1>4

LEMMA RequestStepServes ==
  ASSUME IInv, ServedInv, NEW r \in Request, RequestStep(r)
  PROVE  ServedInv'
<1>1. /\ r \in Thread /\ threads[r] \in ThreadRow /\ RowOK(threads[r])
      /\ threads \in [Thread -> ThreadRow]
  BY OwnRow DEF Thread, IInv, TypeOK
<1>2. CASE \E d \in Doc : Upload(r, d) \/ BeginProcess(r, d) \/ BeginEnqueue(r, d)
                          \/ BeginCancel(r, d)
  BY <1>2, BeginServes
<1>3. CASE Acquire(r)
  <2>1. PICK j \in JobId : j = threads[r].job
    BY <1>1, <1>3, Counted DEF Acquire, At, RowOK
  <2>2. threads[r].pc = "acquire" /\ UNCHANGED <<created, mail>>
    BY <1>3 DEF Acquire, At
  <2>3. CASE Finish(r, "lease_lost") /\ UNCHANGED jobs
    BY <1>1, <2>2, <2>3, NothingServed, FinishGoesOn
  <2>4. ASSUME StartJob(j), NEW pc \in {"extracting", "leased"},
               threads' = [threads EXCEPT ![r].token = issued + 1,
                             ![r].attempts = jobs[j].attempts + 1, ![r].pc = pc]
        PROVE  ServedInv'
    <3>1. PICK th : th = [threads[r] EXCEPT !.token = issued + 1,
                            !.attempts = jobs[j].attempts + 1, !.pc = pc]
      OBVIOUS
    <3>2. threads' = [threads EXCEPT ![r] = th] /\ th.pc = pc /\ th.msg = threads[r].msg
      BY <1>1, <2>4, <3>1 DEF ThreadRow
    <3>3. NoneRequeued /\ SettledRightly /\ created' \in Nat
      BY <2>2, <2>4, StartRequeuesNone
    <3>4. QED
      BY <1>1, <2>2, <3>2, <3>3, GoesOn
  <2>5. PICK pc \in {"extracting", "leased"} :
          pc = IF threads[r].docSeen = "processing" THEN "extracting" ELSE "leased"
    OBVIOUS
  <2>6. \/ Finish(r, "lease_lost") /\ UNCHANGED jobs
        \/ /\ StartJob(j)
           /\ threads' = [threads EXCEPT ![r].token = issued + 1,
                            ![r].attempts = jobs[j].attempts + 1, ![r].pc = pc]
    BY <1>3, <2>1, <2>5 DEF Acquire
  <2>7. QED
    BY <2>3, <2>4, <2>6
<1>4. CASE ProcessStep(r)
  BY <1>1, <1>4, ProcessStepServes
<1>5. CASE CommitEnqueue(r)
  <2>1. threads[r].doc \in Doc /\ threads[r].pc = "enqueue"
    BY <1>1, <1>5 DEF CommitEnqueue, At, RowOK
  <2>2. PICK th : th = [threads[r] EXCEPT !.pc = "publish", !.job = created + 1]
    OBVIOUS
  <2>3. threads' = [threads EXCEPT ![r] = th] /\ th.pc = "publish" /\ th.msg = threads[r].msg
    BY <1>1, <1>5, <2>2 DEF CommitEnqueue, ThreadRow
  <2>4. NoneRequeued /\ SettledRightly /\ created' \in Nat
    BY <1>5, <2>1, AddJobServes DEF CommitEnqueue
  <2>5. QED
    BY <1>1, <2>1, <2>3, <2>4, GoesOn
<1>6. CASE Publish(r)
  <2>1. UNCHANGED <<jobs, created>> /\ Finish(r, "ok") /\ threads[r].pc = "publish"
    BY <1>6 DEF Publish, database, At
  <2>2. PICK j \in JobId : j = threads[r].job
    BY <1>1, <2>1, Counted DEF RowOK
  <2>3. SettledRightly
    <3>1. CASE UNCHANGED mail
      BY <3>1 DEF SettledRightly
    <3>2. CASE mail' = [mail EXCEPT ![j].state = "ready"]
      <4>1. mail'[j].state = "ready" /\ \A k \in JobId : k # j => mail'[k] = mail[k]
        BY <3>2, Counted DEF MailRow, Message
      <4>2. QED
        BY <4>1 DEF SettledRightly, Over
    <3>3. QED
      BY <1>6, <2>2, <3>1, <3>2 DEF Publish
  <2>4. NoneRequeued /\ created' \in Nat
    BY <2>1, Counted DEF NoneRequeued
  <2>5. QED
    BY <1>1, <2>1, <2>3, <2>4, FinishGoesOn
<1>7. CASE ReadCancelJob(r)
  <2>1. NoneRequeued /\ SettledRightly /\ created' \in Nat /\ threads[r].pc \notin {"received", "done"}
    BY <1>7, NothingServed DEF ReadCancelJob, At, database
  <2>2. CASE Finish(r, "error")
    BY <1>1, <2>1, <2>2, FinishGoesOn
  <2>3. ASSUME NEW j \in JobId,
               threads' = [threads EXCEPT ![r].pc = "cancel", ![r].job = j,
                                          ![r].jobSeen = jobs[j].status,
                                          ![r].attempts = jobs[j].attempts]
        PROVE  ServedInv'
    <3>1. PICK th : th = [threads[r] EXCEPT !.pc = "cancel", !.job = j,
                            !.jobSeen = jobs[j].status, !.attempts = jobs[j].attempts]
      OBVIOUS
    <3>2. threads' = [threads EXCEPT ![r] = th] /\ th.pc = "cancel" /\ th.msg = threads[r].msg
      BY <1>1, <2>3, <3>1 DEF ThreadRow
    <3>3. QED
      BY <1>1, <2>1, <3>2, GoesOn
  <2>4. QED
    BY <1>7, <2>2, <2>3 DEF ReadCancelJob
<1>8. CASE CommitCancel(r)
  BY <1>8, CancelServes
<1>9. QED
  BY <1>2, <1>3, <1>4, <1>5, <1>6, <1>7, <1>8 DEF RequestStep

-----------------------------------------------------------------------------
(* Time, failures and the broker.                                            *)

\* No thread moves.
LEMMA AllRest ==
  ASSUME IInv, ServedInv, threads' = threads, created' = created, SettledRightly,
         \A k \in JobId : jobs'[k].status = jobs[k].status
  PROVE  ServedInv'
<1>1. NoneRequeued
  BY Counted DEF NoneRequeued
<1>2. \A t \in Thread : WokenOK(threads[t])'
  BY Counted DEF ServedInv, WokenOK
<1>3. QED
  BY <1>1, <1>2, SettledStays DEF ServedInv

LEMMA TimeServes ==
  ASSUME IInv, ServedInv,
         \/ \E w \in Worker : Heartbeat(w)
         \/ \E t \in Thread : Fault(t)
         \/ \E j \in JobId : Passage(j)
         \/ BrokerMoves
  PROVE  ServedInv'
<1>1. CASE \E w \in Worker : Heartbeat(w)
  <2>1. PICK w \in Worker : Heartbeat(w)
    BY <1>1
  <2>2. \A k \in JobId : jobs'[k].status = jobs[k].status
    BY <2>1 DEF Heartbeat, IInv, TypeOK, JobRow
  <2>3. SettledRightly /\ threads' = threads /\ created' = created
    BY <2>1 DEF Heartbeat, SettledRightly
  <2>4. QED
    BY <2>2, <2>3, AllRest
<1>2. CASE \E t \in Thread : Fault(t)
  <2>1. PICK t \in Thread : Fault(t)
    BY <1>2
  <2>2. UNCHANGED <<jobs, created, mail>>
    BY <2>1 DEF Fault, Crash, RunRaises, database
  <2>3. WokenOK(IdleThread)'
    BY ConstantsAssumption DEF WokenOK, IdleThread, NoJob, JobId
  <2>4. CASE threads' = [threads EXCEPT ![t] = IdleThread]
    BY <2>2, <2>3, <2>4, NothingServed, WokenStay
  <2>5. CASE Finish(t, "error")
    BY <2>2, <2>5, EndsUnserved
  <2>6. QED
    BY <2>1, <2>4, <2>5 DEF Fault, Crash, RunRaises
<1>3. CASE \E j \in JobId : ExpireLease(j)
  <2>1. PICK j \in JobId : ExpireLease(j)
    BY <1>3
  <2>2. \A k \in JobId : jobs'[k].status = jobs[k].status
    BY <2>1 DEF ExpireLease, IInv, TypeOK, JobRow
  <2>3. SettledRightly /\ threads' = threads /\ created' = created
    BY <2>1 DEF ExpireLease, SettledRightly
  <2>4. QED
    BY <2>2, <2>3, AllRest
<1>4. CASE \E j \in JobId : RetryDue(j)
  <2>1. PICK j \in JobId : RetryDue(j)
    BY <1>4
  <2>2. \A k \in JobId : jobs'[k].status = jobs[k].status
    BY <2>1 DEF RetryDue, IInv, TypeOK, JobRow
  <2>3. SettledRightly /\ threads' = threads /\ created' = created
    BY <2>1 DEF RetryDue, SettledRightly
  <2>4. QED
    BY <2>2, <2>3, AllRest
<1>5. CASE BrokerMoves
  <2>1. /\ UNCHANGED <<jobs, created, threads>>
        /\ \A j \in JobId : mail'[j] = mail[j] \/ mail'[j].state \in {"ready", "dead"}
    BY <1>5, BrokerMoving
  <2>2. SettledRightly
    BY <2>1 DEF SettledRightly, Over
  <2>3. QED
    BY <2>1, <2>2, AllRest
<1>6. QED
  BY <1>1, <1>2, <1>3, <1>4, <1>5 DEF Passage, AbandonedLeaseExpires, HeldLeaseExpires

-----------------------------------------------------------------------------
\* A worker that completes a wake-up having seen its job completes it for a job
\* that was claimed or cancelled, whatever is redelivered, late, duplicated, lost
\* with a crash or sent by others, and wherever a run raises.  (A message may be
\* dead-lettered, or completed over a locked row, for a job still queued.)
THEOREM WakeupsServe == Spec => []CompletedWakeupsWereServed
<1>1. Init => ServedInv
  <2> SUFFICES ASSUME Init PROVE ServedInv
    OBVIOUS
  <2>1. CompletedWakeupsWereServed
    BY DEF Init, CompletedWakeupsWereServed, NoMail, Message
  <2>2. \A t \in Thread : threads[t] = IdleThread
    BY DEF Init
  <2>3. WokenOK(IdleThread)
    BY NoJobIsNoJob DEF WokenOK, IdleThread
  <2>4. QED
    BY <2>1, <2>2, <2>3 DEF ServedInv
<1>2. IInv /\ ServedInv /\ [Next]_vars => ServedInv'
  <2> SUFFICES ASSUME IInv, ServedInv, [Next]_vars PROVE ServedInv'
    OBVIOUS
  <2>1. CASE \E w \in Worker : WorkerStep(w)
    BY <2>1, WorkerStepServes
  <2>2. CASE \E r \in Request : RequestStep(r)
    BY <2>2, RequestStepServes
  <2>3. CASE \/ \E w \in Worker : Heartbeat(w)
             \/ \E t \in Thread : Fault(t)
             \/ \E j \in JobId : Passage(j)
             \/ BrokerMoves
    BY <2>3, TimeServes
  <2>4. CASE UNCHANGED vars
    <3>1. UNCHANGED <<jobs, created, mail, threads>>
      BY <2>4 DEF vars
    <3>2. QED
      BY <3>1, NothingServed, AllRest
  <2>5. QED
    BY <2>1, <2>2, <2>3, <2>4 DEF Next, BrokerMoves
<1>3. ServedInv => CompletedWakeupsWereServed
  BY DEF ServedInv
<1>4. QED
  BY InvariantHolds, <1>1, <1>2, <1>3, PTL DEF Spec

-----------------------------------------------------------------------------
(* Finished jobs.  Without the process command no API thread is on its way to *)
(* a job it read earlier, and a claim reads the row it starts.                *)

\* No API thread holds a copy of a job it is about to acquire.
NobodyAcquires == \A r \in Request : threads[r].pc \notin {"read", "acquire"}

NoneRestarted == \A j \in JobId : Finished(jobs[j]) => jobs'[j].status # "running"

\* A row of one job changes, and it turns running only if it was not finished.
LEMMA OneRowRestartsNone ==
  ASSUME IInv, NEW j, NEW row, jobs' = [jobs EXCEPT ![j] = row],
         j \in JobId /\ Finished(jobs[j]) => row.status # "running"
  PROVE  NoneRestarted
BY DEF NoneRestarted, Finished, IInv, TypeOK

LEMMA ClaimRestartsNone ==
  ASSUME IInv, NEW j, Processable(jobs[j]), StartJob(j)
  PROVE  NoneRestarted
<1>1. j \in JobId => ~Finished(jobs[j])
  BY DEF Processable, Finished
<1>2. QED
  BY <1>1, OneRowRestartsNone DEF StartJob

\* An outcome that is saved ends the job.
LEMMA SaveRestartsNone ==
  ASSUME IInv, NEW t \in Thread, NEW status \in Outcome, SaveFenced(t, status)
  PROVE  NoneRestarted
<1>1. threads[t].job \in JobId => Ended(jobs[threads[t].job], status).status # "running"
  BY DEF Ended, IInv, TypeOK, JobRow, Outcome
<1>2. QED
  BY <1>1, OneRowRestartsNone DEF SaveFenced

\* Heartbeats and time change flags only.
LEMMA FlagsRestartNone ==
  ASSUME IInv, \/ \E w \in Worker : Heartbeat(w)
               \/ \E j \in JobId : ExpireLease(j) \/ RetryDue(j)
  PROVE  NoneRestarted
<1>1. \A k \in JobId : jobs'[k].status = jobs[k].status
  <2>1. CASE \E w \in Worker : Heartbeat(w)
    BY <2>1 DEF Heartbeat, IInv, TypeOK, JobRow
  <2>2. CASE \E j \in JobId : ExpireLease(j) \/ RetryDue(j)
    BY <2>2 DEF ExpireLease, RetryDue, IInv, TypeOK, JobRow
  <2>3. QED
    BY <2>1, <2>2
<1>2. QED
  BY <1>1 DEF NoneRestarted, Finished

LEMMA ProcessStepRestartsNone ==
  ASSUME IInv, NEW t \in Thread, ProcessStep(t)
  PROVE  NoneRestarted
<1>1. CASE RecordSuccess(t)
  BY <1>1, SaveRestartsNone DEF RecordSuccess, Outcome
<1>2. CASE \E retryable \in BOOLEAN : RecordFailure(t, retryable)
  <2>1. \E status \in {"failed", "retrying", "dead_letter"} : SaveFenced(t, status)
    BY <1>2 DEF RecordFailure
  <2>2. QED
    BY <2>1, SaveRestartsNone DEF Outcome
<1>3. CASE ReadDocument(t) \/ RecordLeaseLost(t) \/ FinishRun(t) \/ MarkProcessing(t)
  BY <1>3 DEF ReadDocument, RecordLeaseLost, FinishRun, MarkProcessing, database, NoneRestarted,
              Finished
<1>4. QED
  BY <1>1, <1>2, <1>3 DEF ProcessStep

LEMMA WorkerStepRestartsNone ==
  ASSUME IInv, NEW w \in Worker, WorkerStep(w)
  PROVE  NoneRestarted
<1>1. CASE ClaimDelivered(w) \/ ClaimPolled(w)
  BY <1>1, ClaimRestartsNone DEF ClaimDelivered, ClaimPolled, NextProcessable, Claim
<1>2. CASE ReceiveMessage(w) \/ SkipDelivered(w) \/ SkipLocked(w)
           \/ RejectDelivered(w) \/ ReadClaimedJob(w)
  BY <1>2 DEF ReceiveMessage, SkipDelivered, SkipLocked, RejectDelivered, ReadClaimedJob,
              database, NoneRestarted, Finished
<1>3. CASE ProcessStep(w)
  BY <1>3, ProcessStepRestartsNone DEF Thread
<1>4. QED
  BY <1>1, <1>2, <1>3 DEF WorkerStep

LEMMA RequestStepRestartsNone ==
  ASSUME IInv, NobodyAcquires, NEW r \in Request, RequestStep(r)
  PROVE  NoneRestarted
<1>1. CASE CommitEnqueue(r) \/ \E d \in Doc : Upload(r, d)
  <2>1. PICK d : jobs' = [jobs EXCEPT ![created + 1] = QueuedRow(d)]
    BY <1>1 DEF Upload, CommitEnqueue, AddJob
  <2>2. QueuedRow(d).status = "queued"
    BY DEF QueuedRow, NoRow
  <2>3. QED
    BY <2>1, <2>2, OneRowRestartsNone
<1>2. CASE CommitCancel(r)
  <2>1. CASE UNCHANGED jobs
    BY <2>1 DEF NoneRestarted, Finished
  <2>2. CASE jobs' = [jobs EXCEPT ![threads[r].job] =
                        [Ended(@, "cancelled") EXCEPT !.attempts = threads[r].attempts]]
    <3>1. PICK row : row = [Ended(jobs[threads[r].job], "cancelled")
                              EXCEPT !.attempts = threads[r].attempts]
      OBVIOUS
    <3>2. threads[r].job \in JobId => row.status = "cancelled"
      BY <3>1 DEF Ended, IInv, TypeOK, JobRow
    <3>3. QED
      BY <2>2, <3>1, <3>2, OneRowRestartsNone
  <2>3. QED
    BY <1>2, <2>1, <2>2 DEF CommitCancel
<1>3. CASE \/ Publish(r) \/ ReadCancelJob(r)
           \/ \E d \in Doc : BeginProcess(r, d) \/ BeginEnqueue(r, d) \/ BeginCancel(r, d)
  BY <1>3 DEF Publish, ReadCancelJob, BeginProcess, BeginEnqueue, BeginCancel, database,
              NoneRestarted, Finished
<1>4. CASE ProcessStep(r)
  BY <1>4, ProcessStepRestartsNone DEF Thread
<1>5. ~Acquire(r)
  BY DEF NobodyAcquires, Acquire, At
<1>6. QED
  BY <1>1, <1>2, <1>3, <1>4, <1>5 DEF RequestStep

\* One thread moves, and an API thread to no copy of a job.
LEMMA AcquiringStays ==
  ASSUME IInv, NobodyAcquires, NEW t \in Thread, NEW th,
         threads' = [threads EXCEPT ![t] = th],
         t \in Request => th.pc \notin {"read", "acquire"}
  PROVE  NobodyAcquires'
BY DEF NobodyAcquires, IInv, TypeOK

LEMMA NobodyAcquiresStep ==
  ASSUME IInv, NobodyAcquires, "process" \notin Commands, Next
  PROVE  NobodyAcquires'
<1>1. ASSUME NEW t \in Thread, NEW result, Finish(t, result) PROVE NobodyAcquires'
  <2>1. PICK th : th = [IdleThread EXCEPT !.pc = "done", !.msg = threads[t].msg, !.result = result]
    OBVIOUS
  <2>2. threads' = [threads EXCEPT ![t] = th] /\ th.pc = "done"
    BY <1>1, <2>1 DEF Finish, IdleThread
  <2>3. QED
    BY <2>2, AcquiringStays
<1>2. ASSUME NEW w \in Worker, WorkerStep(w) PROVE NobodyAcquires'
  <2>1. w \in Thread /\ w \notin Request
    BY ConstantsAssumption DEF Thread
  <2>2. \A r \in Request : threads'[r] = threads[r]
    BY <1>2, <2>1 DEF WorkerStep, ReceiveMessage, ClaimDelivered, SkipDelivered, SkipLocked,
       RejectDelivered, ClaimPolled, Claim,
       ReadClaimedJob, ProcessStep, ReadDocument, RecordSuccess, RecordFailure, RecordLeaseLost,
       FinishRun, MarkProcessing, Finish, IInv, TypeOK, Thread
  <2>3. QED
    BY <2>2 DEF NobodyAcquires
<1>3. ASSUME NEW r \in Request, RequestStep(r) PROVE NobodyAcquires'
  <2>1. r \in Thread /\ threads[r] \in ThreadRow
    BY OwnRow DEF Thread
  <2>2. CASE ProcessStep(r)
    <3>1. CASE MarkProcessing(r) \/ FinishRun(r)
      <4>1. threads'[r].pc \in {"extracting", "idle"} /\ \A u \in Thread : u # r => threads'[u] = threads[u]
        BY <2>1, <3>1 DEF MarkProcessing, FinishRun, IdleThread, IInv, TypeOK, ThreadRow
      <4>2. QED
        BY <4>1 DEF NobodyAcquires, Thread
    <3>2. CASE \/ RecordSuccess(r) \/ RecordLeaseLost(r)
               \/ \E retryable \in BOOLEAN : RecordFailure(r, retryable)
      BY <1>1, <2>1, <3>2 DEF RecordSuccess, RecordLeaseLost, RecordFailure
    <3>3. ~ReadDocument(r)
      BY DEF NobodyAcquires, ReadDocument, At
    <3>4. QED
      BY <2>2, <3>1, <3>2, <3>3 DEF ProcessStep
  <2>3. CASE \/ CommitEnqueue(r)
             \/ \E d \in Doc : Upload(r, d) \/ BeginEnqueue(r, d) \/ BeginCancel(r, d)
    <3>1. CASE CommitEnqueue(r)
      BY <2>1, <3>1 DEF CommitEnqueue, IInv, TypeOK, ThreadRow, NobodyAcquires, Thread
    <3>2. ASSUME NEW d \in Doc, Upload(r, d) \/ BeginEnqueue(r, d) \/ BeginCancel(r, d)
          PROVE  NobodyAcquires'
      <4>1. /\ threads'[r].pc \in {"publish", "enqueue", "cancel_read"}
            /\ \A u \in Thread : u # r => threads'[u] = threads[u]
        BY <2>1, <3>2 DEF Upload, BeginEnqueue, BeginCancel, IInv, TypeOK, ThreadRow
      <4>2. QED
        BY <4>1 DEF NobodyAcquires, Thread
    <3>3. QED
      BY <2>3, <3>1, <3>2
  <2>4. CASE ReadCancelJob(r)
    <3>1. CASE Finish(r, "error")
      BY <1>1, <2>1, <3>1
    <3>2. CASE \E j \in JobId :
                 threads' = [threads EXCEPT ![r].pc = "cancel", ![r].job = j,
                               ![r].jobSeen = jobs[j].status, ![r].attempts = jobs[j].attempts]
      <4>1. PICK j \in JobId :
              threads' = [threads EXCEPT ![r].pc = "cancel", ![r].job = j,
                            ![r].jobSeen = jobs[j].status, ![r].attempts = jobs[j].attempts]
        BY <3>2
      <4>2. threads'[r].pc = "cancel" /\ \A u \in Thread : u # r => threads'[u] = threads[u]
        BY <2>1, <4>1 DEF IInv, TypeOK, ThreadRow
      <4>3. QED
        BY <4>2 DEF NobodyAcquires, Thread
    <3>3. QED
      BY <2>4, <3>1, <3>2 DEF ReadCancelJob
  <2>5. CASE Publish(r) \/ CommitCancel(r)
    BY <1>1, <2>1, <2>5 DEF Publish, CommitCancel
  <2>6. ~Acquire(r) /\ \A d \in Doc : ~BeginProcess(r, d)
    BY DEF NobodyAcquires, Acquire, At, BeginProcess
  <2>7. QED
    BY <1>3, <2>2, <2>3, <2>4, <2>5, <2>6 DEF RequestStep
<1>4. CASE \E t \in Thread : Fault(t)
  BY <1>1, <1>4, AcquiringStays DEF Fault, Crash, RunRaises, IdleThread
<1>5. CASE UNCHANGED threads
  BY <1>5 DEF NobodyAcquires
<1>6. CASE BrokerMoves
  BY <1>6, BrokerMoving DEF NobodyAcquires
<1>7. QED
  BY <1>2, <1>3, <1>4, <1>5, <1>6
     DEF Next, Heartbeat, Passage, AbandonedLeaseExpires, HeldLeaseExpires, RetryDue,
         ExpireLease, BrokerMoves

\* A job that finished is never started again, by whatever message, poll, crash or
\* lost lease, unless clients may ask for a document to be processed at once: that
\* command refuses only a running job (acquire).
THEOREM FinishedStay ==
  ASSUME "process" \notin Commands
  PROVE  Spec => FinishedJobsNeverRestart
<1>1. Init => NobodyAcquires
  BY DEF Init, NobodyAcquires, IdleThread, Thread
<1>2. IInv /\ NobodyAcquires /\ [Next]_vars => NobodyAcquires'
  BY NobodyAcquiresStep DEF vars, NobodyAcquires
<1>3. IInv /\ NobodyAcquires /\ [Next]_vars => [NoneRestarted]_jobs
  <2> SUFFICES ASSUME IInv, NobodyAcquires, Next, jobs' # jobs PROVE NoneRestarted
    BY DEF vars
  <2>1. CASE \E w \in Worker : WorkerStep(w)
    BY <2>1, WorkerStepRestartsNone
  <2>2. CASE \E r \in Request : RequestStep(r)
    BY <2>2, RequestStepRestartsNone
  <2>3. CASE \/ \E w \in Worker : Heartbeat(w)
             \/ \E j \in JobId : ExpireLease(j) \/ RetryDue(j)
    BY <2>3, FlagsRestartNone
  <2>4. CASE (\E t \in Thread : Fault(t)) \/ BrokerMoves
    BY <2>4, BrokerMoving DEF Fault, Crash, RunRaises, database
  <2>5. QED
    BY <2>1, <2>2, <2>3, <2>4
       DEF Next, Passage, AbandonedLeaseExpires, HeldLeaseExpires, BrokerMoves
<1>4. QED
  BY InvariantHolds, <1>1, <1>2, <1>3, PTL DEF Spec, FinishedJobsNeverRestart, NoneRestarted
=============================================================================
