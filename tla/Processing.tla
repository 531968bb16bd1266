----------------------------- MODULE Processing -----------------------------
(***************************************************************************)
(* Invoice processing: the job ledger, the leases that fence its results,  *)
(* the worker processes that claim jobs (by polling, or woken by a queue   *)
(* message), and the API threads that upload, process, retry, reprocess    *)
(* and cancel documents.  Every step is one database transaction, one read *)
(* outside a transaction, or one call to the wake-up queue, so that the    *)
(* interleavings are those of the threads of one API process and of        *)
(* several worker processes sharing a database.                            *)
(***************************************************************************)
EXTENDS Naturals, FiniteSets, DocumentStatus

CONSTANTS
  Doc,           \* documents that may be uploaded
  Worker,        \* worker processes
  Request,       \* threads of the API process, each serving one request at a time
  NoDoc,         \* the document of a job row that does not exist yet
  Nobody,        \* the receiver of a message that nobody holds
  Stray,         \* messages of other senders, which no job answers to
  Commands,      \* the API commands requests may issue
  QueueEnabled,  \* a wake-up queue is configured
  MaxAttempts,   \* max_processing_attempts
  RowLocks,      \* a claim skips a row that another transaction has locked
  MaxDeliveries, \* max_delivery_count of the queue worker
  BrokerLimit,   \* maxDeliveryCount of the queue itself
  MaxJobs,       \* bound: job rows
  MaxLeases,     \* bound: lease tokens issued
  MaxCrashes,    \* bound: processes that die, or runs that raise, in the middle
  MaxStalls      \* bound: live holders whose lease or message lock expires

Thread == Worker \union Request
JobId  == 1..MaxJobs
Message == JobId \union Stray
Lease  == 1..MaxLeases
NoJob   == 0
NoLease == 0

ASSUME ConstantsAssumption ==
  /\ MaxJobs \in Nat /\ MaxLeases \in Nat
  /\ MaxAttempts \in Nat \ {0} /\ MaxDeliveries \in Nat \ {0}
  /\ BrokerLimit \in Nat \ {0} /\ RowLocks \in BOOLEAN
  /\ MaxCrashes \in Nat /\ MaxStalls \in Nat
  /\ QueueEnabled \in BOOLEAN
  /\ Commands \subseteq {"upload", "process", "retry", "reprocess", "cancel"}
  /\ Worker \intersect Request = {}
  /\ NoDoc \notin Doc
  /\ Nobody \notin Worker
  /\ Stray \intersect (0..MaxJobs) = {}

VARIABLES
  docs,        \* the status column of each document row
  jobs,        \* the job rows, numbered by created_at
  created,     \* how many job rows exist
  extraction,  \* the stored extraction of each document
  mail,        \* the wake-up message of each job, and the strays
  threads,     \* where each worker or request is, and what it holds in memory
  ledger,      \* history: the job and the outcome of each lease issued
  issued,      \* how many leases have been issued
  crashes, stalls

vars == <<docs, jobs, created, extraction, mail, threads, ledger, issued,
          crashes, stalls>>
database == <<docs, jobs, created, extraction, ledger, issued>>
faults == <<crashes, stalls>>

-----------------------------------------------------------------------------
JobStatus == {"none", "queued", "running", "retrying", "succeeded", "failed",
              "dead_letter", "cancelled"}

\* late: updated_at <= stale_before.  due: next_attempt_at <= now.
JobRow == [doc: Doc \union {NoDoc}, status: JobStatus, attempts: 0..MaxLeases,
           token: Lease \union {NoLease}, late: BOOLEAN, due: BOOLEAN]
NoRow  == [doc |-> NoDoc, status |-> "none", attempts |-> 0,
           token |-> NoLease, late |-> FALSE, due |-> FALSE]
\* Mutant: a new job is saved under the status of its document.
QueuedRowUnderUploaded(d) == [NoRow EXCEPT !.doc = d, !.status = "uploaded"]
QueuedRow(d) == [NoRow EXCEPT !.doc = d, !.status = "queued"]

Outcome == {"unissued", "open", "succeeded", "retrying", "failed", "dead_letter"}
Report  == {"none", "clean", "errors"}

\* lease: the lease whose result was stored; report: the validation report.
Extraction   == [lease: Lease \union {NoLease}, report: Report]
NoExtraction == [lease |-> NoLease, report |-> "none"]

\* skipped: completed like any other, but for a job whose row was locked.
\* dead: in the dead-letter queue.
MailRow == [state: {"none", "ready", "locked", "completed", "skipped", "dead"},
            deliveries: Nat, holder: Worker \union {Nobody}]
NoMail  == [state |-> "none", deliveries |-> 0, holder |-> Nobody]

\* What a thread holds between two steps: the document and the job it works
\* on, the status it read from each (stale from then on), the attempt count of
\* its copy of the job, its lease, the message that woke it.
ThreadRow == [pc: {"idle", "received", "claimed", "read", "acquire", "leased",
                   "extracting", "enqueue", "cancel_read", "cancel", "publish",
                   "done"},
              doc: Doc \union {NoDoc}, docSeen: Status \union {Absent},
              job: JobId \union {NoJob}, jobSeen: JobStatus,
              attempts: 0..MaxLeases, token: Lease \union {NoLease},
              msg: Message \union {NoJob},
              result: {"none", "ok", "skipped", "lease_lost", "rejected", "error"}]
IdleThread == [pc |-> "idle", doc |-> NoDoc, docSeen |-> Absent, job |-> NoJob,
               jobSeen |-> "none", attempts |-> 0, token |-> NoLease,
               msg |-> NoJob, result |-> "none"]

Init ==
  /\ docs = [d \in Doc |-> Absent]
  /\ jobs = [j \in JobId |-> NoRow]
  /\ created = 0
  /\ extraction = [d \in Doc |-> NoExtraction]
  /\ mail = [m \in Message |-> NoMail]
  /\ threads = [t \in Thread |-> IdleThread]
  /\ ledger = [l \in Lease |-> [job |-> NoJob, outcome |-> "unissued"]]
  /\ issued = 0
  /\ crashes = 0
  /\ stalls = 0

At(t, pc) == threads[t].pc = pc

\* A worker's run ends: the message that woke it, if any, is still to settle.
\* A request ends with its response.
Finish(t, result) ==
  threads' = [threads EXCEPT ![t] =
                [IdleThread EXCEPT !.pc = "done", !.msg = threads[t].msg,
                                   !.result = result]]

-----------------------------------------------------------------------------
(* The job row: claims, leases and fencing. *)

\* Mutant: a claim only refuses a job that is running or waiting for its retry.
ProcessableUnlessBusy(job) ==
  \/ job.status \notin {"none", "running", "retrying"}
  \/ job.status = "retrying" /\ job.due
  \/ job.status = "running" /\ job.late

\* Mutant: an expired lease is not reclaimed.
ProcessableWithoutReclaim(job) ==
  job.status = "queued" \/ (job.status = "retrying" /\ job.due)

Processable(job) ==
  \/ job.status = "queued"
  \/ job.status = "retrying" /\ job.due
  \/ job.status = "running" /\ job.late

Started(job, lease) ==
  [job EXCEPT !.status = "running", !.attempts = @ + 1, !.token = lease,
              !.late = FALSE, !.due = FALSE]

Ended(job, status) ==
  [job EXCEPT !.status = status, !.token = NoLease, !.late = FALSE, !.due = FALSE]

Holds(job, lease) == job.status = "running" /\ job.token = lease

\* Starting job j: the row turns running under a lease never issued before.
StartJob(j) ==
  /\ issued < MaxLeases
  /\ issued' = issued + 1
  /\ jobs' = [jobs EXCEPT ![j] = Started(@, issued + 1)]
  /\ ledger' = [ledger EXCEPT ![issued + 1] = [job |-> j, outcome |-> "open"]]

\* An outcome is saved with expected_lease_token: one row is updated or the
\* whole transaction rolls back.
SaveFenced(t, status) ==
  LET j == threads[t].job
      l == threads[t].token
  IN /\ Holds(jobs[j], l)
     /\ jobs' = [jobs EXCEPT ![j] = Ended(@, status)]
     /\ ledger' = [ledger EXCEPT ![l].outcome = status]

\* The order in which polling serves processable jobs: expired leases first,
\* then the oldest.
ServedBefore(j, k) ==
  \/ jobs[j].status = "running" /\ jobs[k].status # "running"
  \/ (jobs[j].status = "running" <=> jobs[k].status = "running") /\ j <= k

NextProcessable(j) ==
  /\ Processable(jobs[j])
  /\ \A k \in JobId : Processable(jobs[k]) => ServedBefore(j, k)

AddJob(d) ==
  /\ created < MaxJobs
  /\ created' = created + 1
  /\ jobs' = [jobs EXCEPT ![created + 1] = QueuedRow(d)]

JobsOf(d) == {j \in JobId : jobs[j].doc = d}

IsLatestJob(j, d) == j \in JobsOf(d) /\ \A k \in JobsOf(d) : k <= j

-----------------------------------------------------------------------------
(* The worker process: one loop iteration receives a message or polls. *)

ReceiveMessage(w) ==
  /\ QueueEnabled /\ At(w, "idle")
  /\ \E m \in Message :
       /\ mail[m].state = "ready"
       /\ mail' = [mail EXCEPT ![m] = [state |-> "locked", deliveries |-> @.deliveries + 1,
                                       holder |-> w]]
       /\ threads' = [threads EXCEPT ![w].pc = "received", ![w].msg = m]
  /\ UNCHANGED <<database, faults>>

Claim(w, j) ==
  /\ StartJob(j)
  /\ threads' = [threads EXCEPT ![w].pc = "claimed", ![w].job = j,
                                ![w].doc = jobs[j].doc, ![w].token = issued + 1]
  /\ UNCHANGED <<docs, created, extraction, mail, faults>>

\* The message handler claims exactly the job the message names.
ClaimDelivered(w) ==
  /\ At(w, "received") /\ threads[w].msg \in JobId
  /\ Processable(jobs[threads[w].msg])
  /\ Claim(w, threads[w].msg)

\* Mutant: a message whose job cannot be claimed is published again.
SkipDeliveredRepublishes(w) ==
  /\ At(w, "received") /\ threads[w].msg \in JobId
  /\ ~Processable(jobs[threads[w].msg])
  /\ mail' = [mail EXCEPT ![threads[w].msg] = [NoMail EXCEPT !.state = "ready"]]
  /\ threads' = [threads EXCEPT ![w] = IdleThread]
  /\ UNCHANGED <<database, faults>>

\* A terminal, future-retry, or actively leased job is a safe duplicate.
SkipDelivered(w) ==
  /\ At(w, "received") /\ threads[w].msg \in JobId
  /\ ~Processable(jobs[threads[w].msg])
  /\ Finish(w, "ok")
  /\ UNCHANGED <<database, mail, faults>>

\* PostgreSQL skips a row that another transaction has locked, whatever that
\* transaction goes on to do: the handler sees no job and takes it for a duplicate.
SkipLocked(w) ==
  /\ RowLocks
  /\ At(w, "received") /\ threads[w].msg \in JobId
  /\ Finish(w, "skipped")
  /\ UNCHANGED <<database, mail, faults>>

\* A message that is no valid envelope, names no job, or names a job under
\* another document is refused before anything is claimed.
RejectDelivered(w) ==
  /\ At(w, "received") /\ threads[w].msg \in Stray
  /\ Finish(w, "rejected")
  /\ UNCHANGED <<database, mail, faults>>

\* Polling follows a receive that returned nothing: the queue was empty, or
\* disabled, or the receive timed out.
ClaimPolled(w) ==
  /\ At(w, "idle")
  /\ \E j \in JobId : NextProcessable(j) /\ Claim(w, j)

\* Mutant: process_job adopts whatever token the row holds.
ReadJobAdoptingLease(w) ==
  /\ At(w, "claimed")
  /\ LET job == jobs[threads[w].job]
     IN threads' = [threads EXCEPT ![w].pc = "read", ![w].jobSeen = job.status,
                                   ![w].token = job.token, ![w].attempts = job.attempts]
  /\ UNCHANGED <<database, mail, faults>>

\* process_job re-reads the job and compares its token with the claimed one.
ReadClaimedJob(w) ==
  /\ At(w, "claimed")
  /\ LET job == jobs[threads[w].job]
     IN IF job.token = threads[w].token
        THEN threads' = [threads EXCEPT ![w].pc = "read", ![w].jobSeen = job.status,
                                        ![w].attempts = job.attempts]
        ELSE Finish(w, "lease_lost")
  /\ UNCHANGED <<database, mail, faults>>

\* The heartbeat thread of a claimed job: renew_lease matches the job only
\* while it runs under this worker's token.
Heartbeat(w) ==
  /\ threads[w].pc \in {"claimed", "read", "leased", "extracting"}
  /\ LET j == threads[w].job
     IN /\ Holds(jobs[j], threads[w].token)
        /\ jobs[j].late
        /\ jobs' = [jobs EXCEPT ![j].late = FALSE]
  /\ UNCHANGED <<docs, created, extraction, ledger, issued, mail, threads, faults>>

-----------------------------------------------------------------------------
(* _process_job, run by workers with a claimed lease and by API threads      *)
(* without one.                                                              *)

\* The document is read after the job, and judged by the copy read here.  An
\* API thread that saw the job running is refused; one that saw it waiting
\* goes on to acquire it.
ReadDocument(t) ==
  /\ At(t, "read")
  /\ LET th   == threads[t]
         seen == docs[th.doc]
     IN IF th.jobSeen \notin {"queued", "retrying", "running"}
           \/ seen \notin {"queued", "processing"}
        THEN Finish(t, "error")
        ELSE IF th.jobSeen = "running" /\ th.token = NoLease
        THEN Finish(t, "lease_lost")
        ELSE threads' = [threads EXCEPT
               ![t].docSeen = seen,
               ![t].pc = IF th.jobSeen # "running" THEN "acquire"
                         ELSE IF seen = "processing" THEN "extracting" ELSE "leased"]
  /\ UNCHANGED <<database, mail, faults>>

\* acquire re-reads the job in its transaction and refuses only a running one.
Acquire(r) ==
  /\ At(r, "acquire")
  /\ LET th == threads[r]
         j  == th.job
     IN \/ /\ jobs[j].status = "running"
           /\ Finish(r, "lease_lost")
           /\ UNCHANGED <<jobs, ledger, issued>>
        \/ /\ jobs[j].status # "running"
           /\ StartJob(j)
           /\ threads' = [threads EXCEPT
                ![r].token = issued + 1, ![r].attempts = jobs[j].attempts + 1,
                ![r].pc = IF th.docSeen = "processing" THEN "extracting" ELSE "leased"]
  /\ UNCHANGED <<docs, created, extraction, mail, faults>>

\* The transition to processing is checked against the copy and carries no
\* lease token.
MarkProcessing(t) ==
  /\ At(t, "leased")
  /\ LET th == threads[t]
     IN /\ CanTransition(th.docSeen, "processing")
        /\ docs' = [docs EXCEPT ![th.doc] = "processing"]
        /\ threads' = [threads EXCEPT ![t].pc = "extracting", ![t].docSeen = "processing"]
  /\ UNCHANGED <<jobs, created, extraction, ledger, issued, mail, faults>>

\* Mutant: the extraction is stored in a transaction of its own, before the
\* fenced one.
RecordSuccessUnfenced(t) ==
  /\ At(t, "extracting")
  /\ LET th == threads[t]
     IN /\ CanTransition(th.docSeen, "extracted")
        /\ extraction' = [extraction EXCEPT ![th.doc] = [lease |-> th.token, report |-> "clean"]]
        /\ IF Holds(jobs[th.job], th.token)
           THEN SaveFenced(t, "succeeded") /\ docs' = [docs EXCEPT ![th.doc] = "needs_review"]
           ELSE UNCHANGED <<jobs, ledger, docs>>
  /\ Finish(t, "ok")
  /\ UNCHANGED <<created, issued, mail, faults>>

\* The provider returned an extraction: extraction, both transitions and the
\* job commit together under the lease.
RecordSuccess(t) ==
  /\ At(t, "extracting")
  /\ LET th == threads[t]
     IN /\ CanTransition(th.docSeen, "extracted")
        /\ SaveFenced(t, "succeeded")
        /\ docs' = [docs EXCEPT ![th.doc] = "needs_review"]
        /\ \E report \in {"clean", "errors"} :
             extraction' = [extraction EXCEPT ![th.doc] =
                              [lease |-> th.token, report |-> report]]
  /\ Finish(t, "ok")
  /\ UNCHANGED <<created, issued, mail, faults>>

\* Mutant: one attempt too many.
RecordFailureOneMore(t, retryable) ==
  /\ At(t, "extracting")
  /\ LET th == threads[t]
         outcome == IF ~retryable THEN "failed"
                    ELSE IF th.attempts <= MaxAttempts THEN "retrying" ELSE "dead_letter"
         target  == IF outcome = "retrying" THEN "queued" ELSE "failed"
     IN /\ CanTransition(th.docSeen, target)
        /\ SaveFenced(t, outcome)
        /\ docs' = [docs EXCEPT ![th.doc] = target]
  /\ Finish(t, "ok")
  /\ UNCHANGED <<created, extraction, issued, mail, faults>>

\* The parser or the extractor raised.  A retryable error is retried while
\* attempts remain and dead-lettered after that; any other error fails the job.
RecordFailure(t, retryable) ==
  /\ At(t, "extracting")
  /\ LET th == threads[t]
         outcome == IF ~retryable THEN "failed"
                    ELSE IF th.attempts < MaxAttempts THEN "retrying" ELSE "dead_letter"
         target  == IF outcome = "retrying" THEN "queued" ELSE "failed"
     IN /\ CanTransition(th.docSeen, target)
        /\ SaveFenced(t, outcome)
        /\ docs' = [docs EXCEPT ![th.doc] = target]
  /\ Finish(t, "ok")
  /\ UNCHANGED <<created, extraction, issued, mail, faults>>

\* The fence refused the row and the whole transaction rolled back.
RecordLeaseLost(t) ==
  /\ At(t, "extracting")
  /\ ~Holds(jobs[threads[t].job], threads[t].token)
  /\ Finish(t, "lease_lost")
  /\ UNCHANGED <<database, mail, faults>>

\* A message given back, or whose lock is lost, is delivered again unless the
\* queue has delivered it often enough.
StateAfter(deliveries, limit) == IF deliveries >= limit THEN "dead" ELSE "ready"

\* Mutant: a run that raised is taken for a duplicate.
SettledStateIgnoringErrors(message, result) ==
  CASE result \in {"ok", "lease_lost", "error"} -> "completed"
    [] result = "skipped" -> "skipped"
    [] OTHER -> "dead"

\* The disposition the handler returns for the message that woke the worker: one
\* it rejects is dead-lettered, and so is one whose run raised for the last time.
SettledState(message, result) ==
  CASE result \in {"ok", "lease_lost"} -> "completed"
    [] result = "skipped" -> "skipped"
    [] result = "rejected" -> "dead"
    [] OTHER -> IF message.deliveries >= MaxDeliveries THEN "dead"
                ELSE StateAfter(message.deliveries, BrokerLimit)

Settled(message, result) ==
  [message EXCEPT !.holder = Nobody, !.state = SettledState(message, result)]

\* Settling raises when the message lock was lost: the message stays as it is.
FinishRun(t) ==
  /\ At(t, "done")
  /\ LET m == threads[t].msg
     IN mail' = IF m # NoJob /\ mail[m].state = "locked" /\ mail[m].holder = t
                THEN [mail EXCEPT ![m] = Settled(@, threads[t].result)]
                ELSE mail
  /\ threads' = [threads EXCEPT ![t] = IdleThread]
  /\ UNCHANGED <<database, faults>>

ProcessStep(t) ==
  \/ ReadDocument(t) \/ MarkProcessing(t)
  \/ RecordSuccess(t) \/ RecordLeaseLost(t)
  \/ \E retryable \in BOOLEAN : RecordFailure(t, retryable)
  \/ FinishRun(t)

-----------------------------------------------------------------------------
(* The API commands.                                                         *)

\* The document, its upload and queued transitions and its first job commit
\* together; the wake-up is published after the commit.
Upload(r, d) ==
  /\ "upload" \in Commands
  /\ At(r, "idle")
  /\ docs[d] = Absent
  /\ CanTransition("uploaded", "queued")
  /\ docs' = [docs EXCEPT ![d] = "queued"]
  /\ AddJob(d)
  /\ threads' = [threads EXCEPT ![r].pc = "publish", ![r].doc = d, ![r].job = created + 1]
  /\ UNCHANGED <<extraction, ledger, issued, mail, faults>>

\* process_document works on the latest job and claims nothing yet.
BeginProcess(r, d) ==
  /\ "process" \in Commands
  /\ At(r, "idle")
  /\ \E j \in JobId :
       /\ IsLatestJob(j, d)
       /\ threads' = [threads EXCEPT ![r].pc = "read", ![r].doc = d, ![r].job = j,
                                     ![r].jobSeen = jobs[j].status,
                                     ![r].attempts = jobs[j].attempts]
  /\ UNCHANGED <<database, mail, faults>>

EnqueueableFrom(command) ==
  IF command = "retry" THEN {"failed"}
  ELSE {"extracted", "needs_review", "failed", "cancelled"}

\* Retry and reprocess judge the copy read before the transaction...
BeginEnqueue(r, d) ==
  /\ At(r, "idle")
  /\ \E command \in Commands \intersect {"retry", "reprocess"} :
       docs[d] \in EnqueueableFrom(command)
  /\ threads' = [threads EXCEPT ![r].pc = "enqueue", ![r].doc = d, ![r].docSeen = docs[d]]
  /\ UNCHANGED <<database, mail, faults>>

\* ...and write the row from it.
CommitEnqueue(r) ==
  /\ At(r, "enqueue")
  /\ LET d == threads[r].doc
     IN /\ CanTransition(threads[r].docSeen, "queued")
        /\ docs' = [docs EXCEPT ![d] = "queued"]
        /\ AddJob(d)
        /\ threads' = [threads EXCEPT ![r].pc = "publish", ![r].job = created + 1]
  /\ UNCHANGED <<extraction, ledger, issued, mail, faults>>

\* publish_wakeup swallows a queue error.
Publish(r) ==
  /\ At(r, "publish")
  /\ \/ QueueEnabled /\ mail' = [mail EXCEPT ![threads[r].job].state = "ready"]
     \/ UNCHANGED mail
  /\ Finish(r, "ok")
  /\ UNCHANGED <<database, faults>>

BeginCancel(r, d) ==
  /\ "cancel" \in Commands
  /\ At(r, "idle")
  /\ docs[d] \in {"queued", "failed"}
  /\ threads' = [threads EXCEPT ![r].pc = "cancel_read", ![r].doc = d, ![r].docSeen = docs[d]]
  /\ UNCHANGED <<database, mail, faults>>

ReadCancelJob(r) ==
  /\ At(r, "cancel_read")
  /\ \E j \in JobId :
       /\ IsLatestJob(j, threads[r].doc)
       /\ IF jobs[j].status \in {"queued", "retrying", "failed", "dead_letter"}
          THEN threads' = [threads EXCEPT ![r].pc = "cancel", ![r].job = j,
                                          ![r].jobSeen = jobs[j].status,
                                          ![r].attempts = jobs[j].attempts]
          ELSE Finish(r, "error")
  /\ UNCHANGED <<database, mail, faults>>

\* Mutant: the cancelled job is saved whatever the stored job is.
CommitCancelUnconditionally(r) ==
  /\ At(r, "cancel")
  /\ LET th == threads[r]
     IN /\ CanTransition(th.docSeen, "cancelled")
        /\ jobs' = [jobs EXCEPT ![th.job] =
                      [Ended(@, "cancelled") EXCEPT !.attempts = th.attempts]]
        /\ docs' = [docs EXCEPT ![th.doc] = "cancelled"]
  /\ Finish(r, "ok")
  /\ UNCHANGED <<created, extraction, ledger, issued, mail, faults>>

\* The job row is saved without a token, from the copy: refused only when the
\* stored job is running.
CommitCancel(r) ==
  /\ At(r, "cancel")
  /\ LET th == threads[r]
         j  == th.job
     IN IF jobs[j].status = "running"
        THEN Finish(r, "lease_lost") /\ UNCHANGED <<docs, jobs>>
        ELSE /\ CanTransition(th.docSeen, "cancelled")
             /\ jobs' = [jobs EXCEPT ![j] =
                           [Ended(@, "cancelled") EXCEPT !.attempts = th.attempts]]
             /\ docs' = [docs EXCEPT ![th.doc] = "cancelled"]
             /\ Finish(r, "ok")
  /\ UNCHANGED <<created, extraction, ledger, issued, mail, faults>>

-----------------------------------------------------------------------------
(* Time, failures and the broker.                                            *)

Working(t) == threads[t].pc \in {"claimed", "read", "leased", "extracting"}

Abandoned(j) ==
  ~ \E t \in Thread : Working(t) /\ threads[t].job = j /\ threads[t].token = jobs[j].token

ExpireLease(j) ==
  /\ jobs[j].status = "running" /\ ~jobs[j].late
  /\ jobs' = [jobs EXCEPT ![j].late = TRUE]
  /\ UNCHANGED <<docs, created, extraction, ledger, issued, mail, threads, crashes>>

\* The lease of a thread that is gone expires...
AbandonedLeaseExpires(j) == Abandoned(j) /\ ExpireLease(j) /\ UNCHANGED stalls

\* ...and so may that of a thread whose heartbeat stalls, or of an API thread,
\* which has no heartbeat.
HeldLeaseExpires(j) ==
  ~Abandoned(j) /\ stalls < MaxStalls /\ stalls' = stalls + 1 /\ ExpireLease(j)

RetryDue(j) ==
  /\ jobs[j].status = "retrying" /\ ~jobs[j].due
  /\ jobs' = [jobs EXCEPT ![j].due = TRUE]
  /\ UNCHANGED <<docs, created, extraction, ledger, issued, mail, threads, faults>>

\* The lock of a message whose receiver died, or stalled, is lost.
ReturnMessage(m) ==
  /\ mail[m].state = "locked"
  /\ mail' = [mail EXCEPT ![m].state = StateAfter(mail[m].deliveries, BrokerLimit),
                          ![m].holder = Nobody]
  /\ UNCHANGED <<database, threads, crashes>>

AbandonedMessageReturns(m) ==
  ReturnMessage(m) /\ threads[mail[m].holder].msg # m /\ UNCHANGED stalls

HeldMessageReturns(m) ==
  /\ ReturnMessage(m)
  /\ threads[mail[m].holder].msg = m
  /\ stalls < MaxStalls /\ stalls' = stalls + 1

\* A message nobody received within its time to live is dead-lettered.
MessageExpires(m) ==
  /\ mail[m].state = "ready"
  /\ mail' = [mail EXCEPT ![m].state = "dead"]
  /\ UNCHANGED <<database, threads, faults>>

\* Somebody else sends a message, by mistake or replaying an old queue.
StrayArrives(m) ==
  /\ QueueEnabled
  /\ mail[m].state = "none"
  /\ mail' = [mail EXCEPT ![m].state = "ready"]
  /\ UNCHANGED <<database, threads, faults>>

\* A worker that dies is restarted; so is the API process, whose threads lose
\* what they held.  The worker may die after its run, before it settles the message.
Crash(t) ==
  /\ crashes < MaxCrashes
  /\ ~At(t, "idle")
  /\ crashes' = crashes + 1
  /\ threads' = [threads EXCEPT ![t] = IdleThread]
  /\ UNCHANGED <<database, mail, stalls>>

\* A read or a transaction raises (the database is away, a lock times out): the
\* handler catches it and gives the message back, a request answers with an error.
\* A lease the thread held stays in the row until it expires.
RunRaises(t) ==
  /\ crashes < MaxCrashes
  /\ threads[t].pc \notin {"idle", "done"}
  /\ crashes' = crashes + 1
  /\ Finish(t, "error")
  /\ UNCHANGED <<database, mail, stalls>>

-----------------------------------------------------------------------------
WorkerStep(w) ==
  \/ ReceiveMessage(w) \/ ClaimDelivered(w) \/ SkipDelivered(w) \/ SkipLocked(w)
  \/ RejectDelivered(w) \/ ClaimPolled(w) \/ ReadClaimedJob(w) \/ ProcessStep(w)

RequestStep(r) ==
  \/ \E d \in Doc : Upload(r, d) \/ BeginProcess(r, d) \/ BeginEnqueue(r, d)
                    \/ BeginCancel(r, d)
  \/ Acquire(r) \/ ProcessStep(r) \/ CommitEnqueue(r) \/ Publish(r)
  \/ ReadCancelJob(r) \/ CommitCancel(r)

Passage(j) == AbandonedLeaseExpires(j) \/ RetryDue(j) \/ HeldLeaseExpires(j)
Broker(m)  == AbandonedMessageReturns(m) \/ HeldMessageReturns(m) \/ MessageExpires(m)
Fault(t)   == Crash(t) \/ RunRaises(t)

Next ==
  \/ \E w \in Worker : WorkerStep(w) \/ Heartbeat(w)
  \/ \E r \in Request : RequestStep(r)
  \/ \E t \in Thread : Fault(t)
  \/ \E j \in JobId : Passage(j)
  \/ \E m \in Message : Broker(m)
  \/ \E m \in Stray : StrayArrives(m)

Spec == Init /\ [][Next]_vars

\* The worker loop keeps running and time passes; nothing obliges a client to
\* issue a request, and nothing obliges anyone to crash.
Fairness ==
  /\ \A w \in Worker : WF_vars(WorkerStep(w))
  /\ \A r \in Request : WF_vars(ProcessStep(r) \/ Acquire(r))
  /\ \A j \in JobId : WF_vars(AbandonedLeaseExpires(j)) /\ WF_vars(RetryDue(j))
  /\ \A m \in Message : WF_vars(AbandonedMessageReturns(m))

FairSpec == Spec /\ Fairness
-----------------------------------------------------------------------------
TypeOK ==
  /\ docs \in [Doc -> Status \union {Absent}]
  /\ jobs \in [JobId -> JobRow]
  /\ created \in 0..MaxJobs
  /\ extraction \in [Doc -> Extraction]
  /\ mail \in [Message -> MailRow]
  /\ threads \in [Thread -> ThreadRow]
  /\ ledger \in [Lease -> [job: JobId \union {NoJob}, outcome: Outcome]]
  /\ issued \in 0..MaxLeases
  /\ crashes \in 0..MaxCrashes
  /\ stalls \in 0..MaxStalls

\* Two threads never both hold the lease of one job: claims are atomic, and a
\* reclaim disowns the previous holder.
HoldsLease(t) == Working(t) /\ Holds(jobs[threads[t].job], threads[t].token)
OneHolderPerJob ==
  \A t, u \in Thread :
    HoldsLease(t) /\ HoldsLease(u) /\ threads[t].job = threads[u].job => t = u

\* The job ledger as its callers may rely on it, whatever the claims, the
\* reclaims, the cancels and the crashes: see FencedLedger.
Fencing == INSTANCE FencedLedger WITH
  Job <- JobId, Results <- Outcome \ {"unissued", "open"},
  holder <- [j \in JobId |-> jobs[j].token]
ImplementsFencedLedger == Fencing!Spec

\* The former holder of a job can no longer finalize it.
FormerHoldersAreFenced == Fencing!FormerHoldersAreFenced

\* A result is stored together with the success of the lease that produced it,
\* or not at all, whichever thread loses the race.
ResultsMatchLedger ==
  /\ \A d \in Doc : extraction[d] # NoExtraction =>
       LET l == extraction[d].lease
       IN /\ l # NoLease
          /\ ledger[l].outcome = "succeeded"
          /\ jobs[ledger[l].job].doc = d
  /\ \A l \in Lease : ledger[l].outcome = "succeeded" =>
       extraction[jobs[ledger[l].job].doc] # NoExtraction

\* Retryable provider errors reschedule a job fewer than max_attempts times,
\* however often its lease was also lost to a crash.
RetriesOf(j) == {l \in Lease : ledger[l].job = j /\ ledger[l].outcome = "retrying"}
RetryBudget == \A j \in JobId : Cardinality(RetriesOf(j)) < MaxAttempts

\* Duplicate or already-completed messages do not repeat work: a job that
\* finished is never started again.
Finished(job) == job.status \in {"succeeded", "failed", "dead_letter", "cancelled"}
FinishedJobsNeverRestart ==
  [][\A j \in JobId : Finished(jobs[j]) => jobs'[j].status # "running"]_jobs

\* A worker that completes a wake-up having seen its job completes it for a job
\* that was claimed or cancelled: no redelivery, error, crash or lost lease makes
\* it acknowledge work that nobody took.  A wake-up that is dead-lettered, or whose
\* job's row was locked, promises nothing: its job is left to polling (UploadsConverge).
CompletedWakeupsWereServed ==
  \A j \in JobId : mail[j].state = "completed" => jobs[j].status # "queued"

\* A committed job is served whatever happened to its wake-up (lost, rejected,
\* expired, dead-lettered before anybody claimed, completed over a locked row) and
\* to the workers that claimed it: the document ends in review or failed.
UploadsConverge ==
  \A d \in Doc : docs[d] = "queued" ~> docs[d] \in {"needs_review", "failed"}

\* Every message delivered is eventually completed or dead-lettered.
WakeupsSettle ==
  \A m \in Message :
    mail[m].state = "ready" ~> mail[m].state \in {"completed", "skipped", "dead"}

-----------------------------------------------------------------------------
(* What the code does not guarantee when threads interleave: the README      *)
(* says how each of these fails.                                             *)

\* The stored status moves only along ALLOWED_TRANSITIONS.
StatusFollowsWorkflow ==
  [][\A d \in Doc : \/ docs'[d] = docs[d]
                    \/ docs[d] = Absent /\ docs'[d] = "queued"
                    \/ CanReachInOneCommit(docs[d], docs'[d])]_docs

\* A document whose latest job succeeded is waiting for review.
SucceededDocumentsAreReviewable ==
  \A d \in Doc : \A j \in JobId :
    IsLatestJob(j, d) /\ jobs[j].status = "succeeded" => docs[d] # "processing"
=============================================================================
