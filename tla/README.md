# Verification of the document operations backend

This directory holds TLA+ models of the backend under `backend/app`: the
processing of uploaded invoices, their review, their export in batches, their
delivery to an accounting system, the controlled execution of backoffice plans,
their retention, and the rules, queries, policies and evaluations around them.
TLC checks the models on small instances; TLAPS proves the most important facts
about job leases, reviews, export batches, deliveries, backoffice execution and
retention for every value of the constants. Paths below are relative to `backend/app` unless they
begin with `docs/`, `frontend/` or `infra/`.

## The system

A document is uploaded through the API, stored as a blob and a row, and
processed by a *job*. A worker claims the job under a *lease*, extracts and
validates the invoice and stores the result. A reviewer corrects and approves
or rejects it. An approved invoice leaves the system as a row of a CSV download,
in a run of an export batch, or as a draft in an accounting system; a backoffice
*work item* plans its export, and runs it when an administrator has approved. API threads
and worker processes share one database (SQLite, or PostgreSQL in the cloud
deployment); an optional queue wakes workers up.

| Component | State it keeps | Operations | What is hard about it | What makes it correct |
|---|---|---|---|---|
| Status workflow (`documents/status.py`, `state_writer.py`) | `status` of a document row | transitions, one or many documents | a transition is judged on a copy read before the transaction and overwrites the row | status moves along the allowed transitions only |
| Job ledger and leases (`documents/jobs.py`, `job_leases.py`, `sqlite_repositories.py`) | job rows: status, attempts, lease token, `updated_at`, `next_attempt_at` | add, claim by polling or by id, acquire, renew, save with or without a token | two claimants; a holder that is slow rather than dead; saves without a token | one holder; a former holder cannot finish the job; an outcome is recorded once |
| Document processing (`documents/services.py`, `processing_results.py`, `processing_policy.py`, `worker.py`, `worker_loop.py`) | what a thread holds between two transactions | upload, run of a worker, run of an API thread, success, retry, failure, dead letter, heartbeat | crash at any point; stale copies; the document and the job are different rows | a stored result belongs to a lease that succeeded; retries are bounded; uploads converge |
| Wake-up queue (`documents/processing_queue.py`, `providers/azure_service_bus.py`) | messages, delivery counts, locks | publish after commit, receive, complete, abandon, dead-letter | messages lost before publication, redelivered, late, expired, dead-lettered unserved | a worker that saw the job completes its wake-up only once it was claimed; duplicates repeat no work; a job needs no wake-up |
| Lifecycle commands (`documents/lifecycle_commands.py`) | none | retry, reprocess, cancel | read, then write without a token | a cancel does not take a job from its holder |
| Review and corrections (`review/`) | review tasks, correction events, stored extraction | save, approve, reject | report and status are read before the transaction; task and status are two tables | decision and status agree; errors block approval; every correction leads back to what was extracted |
| Invoice drafts (`api/invoices.py`) | stored extraction | save a draft | status and old extraction are read before the transaction | finalized invoices do not change |
| Validation and duplicates (`validation/`) | none | validate an invoice against all stored ones | the duplicate lookup and the save are not one transaction | two clean invoices never share vendor and number |
| Extraction pipeline (`documents/extraction_pipeline.py`, `providers/`) | none | parse, extract, validate | providers fail, retryably or not | an outcome is always recorded |
| Export batches and runs (`exports/`) | batches, runs, an in-process lock | create, edit, execute, replay, retry, download | blind upserts; runs that are slow or abandoned; replicas that share no lock | an invoice is exported once; a run exports all or nothing; a running batch can be released |
| Accounting deliveries (`integrations/`) | delivery rows; drafts at the provider | send, retry, look up, operator reconciliation | answers lost, late or refused; retries that race | success means that a draft exists or an operator said so; no create is repeated while its outcome is unknown; attempts are counted |
| Backoffice planning and execution (`backoffice/`) | work items, plans, steps, approvals, reservations | plan, approve, reserve, run a tool, finalize, reconcile | the tool runs between two transactions; heartbeats; administrators reconcile | a step has its effect at most once; executing steps can be reconciled; decisions are final |
| Retention and storage (`documents/retention.py`, `providers/storage.py`, `azure_blob_storage.py`) | files, a parser cache, tombstones | store, fetch, purge one, purge the expired | file and rows are not one transaction; writers with copies; a sweep that stops half-way | a document has its file; a purged document does not come back |
| Operations and notifications (`operations/`, `api/operations.py`) | notifications | project failures, mark as read | a projection races a purge, a retry and another projection | a notification belongs to a document |
| Rules of an invoice (`validation/`, `integrations/erpnext_mapping.py`) | none | validate, judge untrusted text, map to a draft | rounding, signs, dates that are equal | a draft has the total that was approved |
| Reading (`providers/llm_json.py`, `extraction_pipeline.py`) | none | normalize a model's answer, ground it in the text | two readings of one printed number | what passes unflagged occurs in the text |
| Queries and pages (`invoices/queries.py`, `postgres/queries.py`, `overview/`, `exports/workspace.py`, `api/exceptions.py`) | none | list, count, link | one fact computed in two SQL dialects, in Python, and on several pages | the stores and the pages agree |
| Metrics and health (`metrics/`, `system/`, `operations/queries.py`) | none | count jobs and runs | as above; jobs of unknown duration or provider | every job is counted once; "operational" is earned |
| Agent copilot (`agent/`) | none | route a request, gate a tool, recommend | table, services and planner repeat who may do what | a read changes nothing; advice can be followed |
| Policy and planner (`backoffice/policy.py`, `planner.py`, `evidence.py`) | none | classify, decide, plan | the same | nothing needing approval is planned without it |
| AgentOps (`agentops/`) | recorded runs | evaluate scenarios, summarize, compare | ratios of few runs; runs counted by traces | a run is counted as what happened |
| Evaluation (`evaluation/`, `benchmark/history.py`) | attempts, reports, a run lock | run, score, compare, show | two tables, failing writes, restarts | an attempt tells what happened to its report |
| Security and settings (`core/`, `api/auth.py`, `api/dependencies.py`, `bootstrap/`, `main.py`) | sessions, request counts | start, sign in, limit, check origin | layered sources; boundaries of windows | what starts is sound; who is let in was issued a session |
| PostgreSQL store (`postgres/`) | connections | SQL translation, transactions | isolation level | same steps as SQLite |
| Scripts, frontend, infrastructure | - | clients and configuration | - | see "Not modelled" |

The components meet in the database. A worker and an API thread that handle the
same document never call each other: each reads rows, decides, and writes rows
in a transaction, so the hazards are the reads made *before* the transaction
that uses them. `PROJECT.json` lists the hazards at their lines.

## Modules

| Module | Models | Its actions |
|---|---|---|
| `DocumentStatus` | the statuses and the allowed transitions | (operators only) |
| `Processing` | job ledger, workers, queue, lifecycle commands | one per transaction, per read outside a transaction, per queue call; time, stalls, crashes |
| `FencedLedger` | what callers of the job ledger may rely on: grant a lease, record its outcome | `Grant`, `Commit` |
| `Review` | review, corrections, drafts, validation, reprocessing, CSV download | one per read and per transaction of each handler |
| `ExportBatches` | batches, runs, direct download, replicas | the same, with the execution lock of each replica |
| `Delivery` | deliveries, the provider, lookups and operator reconciliation | the same, with the provider's events |
| `Backoffice` | planning, approvals, controlled execution and its recovery | one that opens a transaction, one that commits it, per command; tool, heartbeat |
| `Retention` | files, rows, cache, notifications and links from upload to purge | one per write to the file store and per transaction |
| `InvoiceRules` | validation of an invoice, its mapping to an ERPNext draft | (operators) |
| `Reading` | from a model's answer to a grounded, validated invoice | (operators) |
| `InvoiceViews` | what every store answers and every page shows of invoices, exceptions and batches | (operators) |
| `Telemetry` | job metrics, job and provider health, the system page | (operators) |
| `Copilot`, `Policy`, `AgentOps` | the copilot's tools and answers; policy and planner; what is recorded of runs and how it is judged | (operators; each extends the one before) |
| `Scoring`, `Evidence` | scoring an evaluation; choosing and comparing its reports | (operators) |
| `Evaluation` | the life of an evaluation run | one per write, per document, failures and restarts |
| `Startup` | settings, start-up policies, what is built, tokens | (operators) |
| `Gateway` | limiter, origin check, sessions | one per request, time, restart |
| `ProcessingProofs`, `ReviewProofs`, `ExportBatchesProofs`, `DeliveryProofs`, `BackofficeProofs`, `RetentionProofs`, `PagesProofs`, `EvaluationProofs` | proofs | |
| `MC...` | instances for TLC: symmetry, the host of each request, the keys of each document, and in `MCPages` the inputs of the operators | |

**Conventions.** Every model has a record per thread: a program counter, and the
copies the handler holds (`seen`, `copy`, `docSeen`, ...). A copy is stale from
the step after it was read. A transaction is one step. Names of actions follow
the handlers; `Begin...` is the read, `Commit...` the transaction.
The modules of operators have no state: `MCPages` builds their inputs step by step
(`about` says which kind of input the behaviour is about), so TLC visits every
combination and checks the properties on each. Where the code computes one thing
twice, in SQL and in Python, or on two pages, so do they.
Definitions preceded by "Mutant:" are deliberately wrong variants of the
definition that follows; no specification uses them. Each is what a plausible bug
would make of the code, and shows that the property named with it in
`PROJECT.json` notices.

**Processing.** `jobs[j]` is a row of the jobs table, numbered by `created_at`;
`late` says that `updated_at` is older than the lease, `due` that
`next_attempt_at` has passed. Lease tokens are numbered in the order they are
issued, which is how the model knows the newest; the code draws UUIDs and only
ever compares them for equality, as the actions do. `ledger` is a history
variable: which job each lease was for and how it ended. `StartJob` is the
effect of every claim, `SaveFenced` the save with `expected_lease_token`.
A message is named after the job it wakes; `Stray` are messages of other senders,
which no job answers to. A message is completed, completed over a row another
transaction had locked (`SkipLocked`, with `RowLocks`), or dead-lettered: by the
worker that cannot match it or whose run raised for the last time, or by the broker
after `BrokerLimit` deliveries or its time to live. `Crash` empties a thread,
`RunRaises` ends its run with an exception; `HeldLeaseExpires` is a live holder whose
heartbeat stalls.

**Review.** Claims and leases are left to `Processing`; here a waiting job is a
token one worker takes. An invoice is reduced to the pair of vendor and number
and to whether `validate_invoice` is content with it; its report to whether it
has errors, the duplicate check included. `outputs` and `exports` are histories.

**ExportBatches.** A request runs on a replica (`Host`); each replica has its own
execution lock, the `RLock` of its `ExportExecutionLifecycle`. Editing a
batch is a read and a blind upsert. A run is reserved, rendered, and completed
or failed in three steps; `Replay` is a second use of an idempotency key and may
declare a run abandoned. `exported` records which run or download took a
document.

**Delivery.** `wire` holds create requests the provider has not handled; a
request may be handled after its sender gave up (`Timeout`). The provider's own
uniqueness constraint on the delivery key (set up in
`scripts/erpnext_setup/provisioner.py`) makes `Accept` create a draft at most
once per key. A delivery is settled by a lookup at the provider (ERPNext only) or
by an operator, whose endpoint serves every adapter, ERPNext included
(`api/integrations.py:299-313`), and takes any answer: `BeginConfirm` lets the operator
say anything, and `vouched` is a history of which deliveries were confirmed on that
word alone.

**Backoffice.** One work item with one linked document. Here a transaction is two
steps: `Open` reads the rows (and, when `Serialized`, takes the lock), the
command ends it. `steps[p]` is the status of the step of plan `p` that an execute
request may name: the export step, the only one of a plan that a tool is mapped
to, or the escalation of a plan without evidence. `item` holds the
`execution_*` entries of the row's business context: `target` is
`execution_plan_id` with `execution_step_id`, `stale` the age of
`execution_heartbeat_at`. The tool is the direct export: `CallTool` lists the
approved documents, `CommitTool` moves them to exported in one transaction,
`ToolRefuses` is any answer that is not a success, `ToolRaises` an exception. The
heartbeat thread's transaction is one step even when others interleave; it may
run once more after `stop()` gave up waiting. A command that is refused, and a
replay of an idempotency key, end a transaction without a change. The
administrator who reconciles is assumed to report whether the document is
exported: the code takes any answer.

**Retention.** `blob` is the object store, with what the scanner says of each file
(`Scanner` is the configured one; "none" lets every file through), `row` the document
row, `traces` the kinds of other rows that name the document (its audit records and job
are one kind; the rows of an export run another). A request is a record with the step it
is at. `late`, `strays` and `halved` are histories that say which document a request
held a copy of when its data went, whose upload left its file, and whose purge ended
between file and rows: the invariants allow a disagreement there and nowhere else. The
purge's sweep takes its candidates oldest first and stops at the first that fails.

**Invoices and texts.** Money is counted in tenths of a cent, so that rounding to
cents can be seen; dates are days; names that differ in case or punctuation are
one name. A text is a sequence of pages of lines, and of a line `Reading` keeps
what the code looks for. Texts are searched for substrings: an excerpt may begin or end
within a number, a date or a name. A number is therefore its digits and the place and
kind of its separators, from which `Cuts` makes every number that a part of it reads as;
dates and names that occur within others are given with the line (`part_days`, `names`).
A labelled amount that does not parse is skipped. Left out are signs, spaces and markup
within numbers, and excerpts of several lines. The rounding of ERPNext is external: rows
and tax each rounded to cents (`MappedNet`, `DraftTax`).

**Pages and telemetry.** A snapshot is the content of the tables: two documents
with status, owner, report, and correction requests, their work items and export
batches; or three jobs and the runs. `Sql...` and `Memory...` operators are the
two stores.

**Copilot, policy, AgentOps.** A request is a set of topics; which words make a
topic is external. A caller is one of the principals a token stands for, or the
same with a claimed role. `AllowedRoles`, the services' checks and `PolicyRoles`
are three tables of the code, and the properties relate them.

**Evaluation.** The attempt and the report are written one after the other, and
either write may fail; the lock is in memory. `Scoring` has every field of the
evaluated documents; `Evidence` the selection of reports and comparisons, with
scores in ten-thousandths.

**Startup and gateway.** Settings are a process environment over a file over
defaults. A token is its secret and whether it is strong; a URL the parts that are
looked at. Time in `Gateway` is a bounded clock; the middlewares run on one event
loop and the session store under a lock, so each is one step.

## What a transaction is

`SQLite` transactions are `BEGIN IMMEDIATE` under one lock, so a transaction is
atomic and each model but `Backoffice` makes it one step. `PostgreSQL` runs at the driver's
default, READ COMMITTED (`postgres/store.py:151-164`); job claims lock their row
(`FOR UPDATE SKIP LOCKED`, which is why a wake-up may find no row: `SkipLocked`),
fenced saves are conditional updates, and the
retention purge locks its rows, but any other transaction there that reads and
then writes may interleave with another one. `Backoffice` has both: its constant
`Serialized` says whether a transaction excludes all others. The other models
describe serialized transactions; what they show about claims and fenced saves carries over to
PostgreSQL, what depends on a re-read inside a transaction (`CommitSave`,
`CommitExport`, `Complete`, `ClaimRetry`, `CommitCancel`) is shown for SQLite.

## Runs

| Run | Instance | Shows |
|---|---|---|
| `workers_queue` | 1 document, 1 job, 2 workers, 1 uploader, row locks, 1 stray, 2 deliveries (3 at the broker), 2 attempts, 4 leases, 2 crashes or exceptions, 1 stall | one holder per job; retries within the budget although reclaims raise the attempt count too; a finished job is not started again by a late or repeated message; a worker that saw the job completes its message only once it was claimed |
| `api_races` | 1 document, 2 jobs, 1 worker, 2 API threads, all commands, 3 leases, 1 stall | the job rows implement `FencedLedger`; a stored result belongs to a lease that succeeded |
| `workers_live` | as `workers_queue` without stalls, under `FairSpec` | an uploaded document ends in review or failed, whatever became of its wake-up; every message is completed or dead-lettered |
| `review_races` | 1 document, 1 worker, 2 API threads, 2 jobs, 2 corrections, all commands | recorded decision and status agree; correction lineage starts at an extraction |
| `review_serial` | 2 documents, 1 worker, 1 API thread | approved invoices have no errors; finalized invoices do not change; each is downloaded once, as approved |
| `exports` | 2 documents, 2 batches, 2 runs, 2 keys, 2 requests on 2 replicas, 1 edit, 1 crash | exported once; all or nothing; a completed batch is what its last run exported; a running batch can be released; settled runs stay |
| `deliveries` | 1 document, 1 key, 2 threads, 2 attempts, 2 creates, 1 edit, 1 crash | a success has a draft, or the word of an operator, behind it; one create at a time and every create counted until somebody reconciles; success is final |
| `backoffice` | 1 item, 2 requests, serialized, 3 plans, 3 reservations, 1 crash | a step's tool is called once, with its approval; one call at a time unless reconciled; the item names the step it executes; settled steps stay, and what they record is true |
| `operations` | 2 documents (one possibly approved beforehand), 1 work item, 2 threads, any failure between two steps | files and rows agree but where a request is under way or ended half-way; purged data comes back only through a request that held a copy |
| `pages` | every input described below | ready invoices pass the batch's checks; deliverable invoices are valid but for parts of a cent, and their draft is as near the approved amounts as the rounding of its rate allows; unflagged readings occur in the text; stores and pages agree; settings, sign-in, copilot, policy, planner and services agree; evaluations add up |

Two runs show a disagreement between the code and what the repository says of
it; each ends in a counterexample:

| Run | Statement | What happens |
|---|---|---|
| `late_processing_mark` | a former holder cannot change the outcome (`docs/ARCHITECTURE.md:143-146`) | the transition to `processing` carries no token: a reclaimed worker overwrites `needs_review` after its successor succeeded, and nothing moves the document on |
| `purge_leftovers` | a purge "retains only a hashed document fingerprint and deletion counts" (`docs/RUNBOOK.md:144`) | the export run that rendered the invoice, and its batch, keep their rows |

**Bounds.** The hazards listed in `PROJECT.json` are races of two actors over
one or two rows, some with a crash or a lost lease in the middle: each instance
has two actors, one or two rows of each kind, and one crash or stall. They are
large enough for the two counterexamples, for those of the
next section, 8 to 29 steps long, and for every mutant. `MaxLeases`, `MaxJobs`, `MaxRuns`,
`MaxBatches`, `MaxCorrections`, `MaxPlans`, `MaxReservations` and `MaxPosts` bound counters of rows; `MaxCrashes`,
`MaxStalls`, `MaxEdits` and `MaxFaults` bound what the environment does. `MaxAttempts` and
`MaxDeliveries` are settings of the code, set to 2 so that both the retry and
the exhaustion are reached; `BrokerLimit` is the queue's own `maxDeliveryCount`
(`infra/azure/modules/service-bus.bicep`), one more here so that each of the two
limits is met first in some behaviour. Two exceptions or crashes let both deliveries
of a wake-up raise before anybody claims its job.
`workers_queue` has 4 leases so that two retries and two reclaims fit.
`backoffice` has three plans so that a third can be made while the first is
settled and the second unknown. `exports`
has two replicas because `infra/azure/container-apps/api.yaml` allows up to three
although `docs/RUNBOOK.md:281` asks for one; `Blocked` is empty there because a
document whose report has errors is never reserved. `review_serial` has one API
thread because `ApprovedInvoicesAreClean` and `FinalizedInvoicesAreImmutable`
fail with two (next section): it shows that the races, and not
the guards, are what is wrong. `operations` moves documents to `processing`,
`failed` and `queued` only, which is what its other handlers need
(`purge_leftovers`: to `processing`, `extracted` and `approved`), and pages are
opened for one of the two documents.

`pages` has 330,000 states of eleven kinds of input: snapshots of two documents of
two owners; invoices with up to three lines, at the amounts where rounding turns, above
100.00 too (amounts are in tenths of a cent, `Cent`, and quantities in tenths of a unit,
`Whole`: fine enough for every rounding of the code to go either way); texts of two pages with
their answers, whose excerpts are whole, cut, wrong or missing; ledgers of up to three jobs; copilot
requests with every set of topics; up to three recorded runs of an agent; two
cases with their readings; up to three recorded reports; evaluation runs of two
documents with two attempts and two faults; settings where a hosted application
differs from a sound one in its credentials or in its backends; and a gateway with
one client, two cookies, a limit of 2, a window of 2, sessions of 3 and a clock of
0 to 3 (with sessions as short as the window, a sign-out that does nothing would go
unnoticed). Lists are cut where the code cuts them; `ScoresTellCounts` counts up to
20 documents, where two scores of different counts could be closest.

Deadlock is checked in `backoffice` and `operations`, where a request can always
begin or end. Elsewhere every client may stop, and the bounds end each run.

**Symmetry** is used in the runs of invariants and action properties only. The
instance with two replicas may swap the replicas with their requests.

**Fairness** (`workers_live`). The worker loop (`worker_loop.py`) runs
until stopped and the deployment restarts it, so each worker's step is weakly
fair, and so is an API thread that has begun to process. Time passes: the lease
of a thread that is gone expires, a retry comes due, the broker returns an
abandoned message or dead-letters it. Nothing obliges a message to expire. Nothing obliges a client to call, a process to crash or a
live holder to stall.

Nothing else is asked about progress, because nothing else is promised: a request
of a client may end anywhere, and a job whose document is in no processable status
is refused, keeps its lease until it expires, and is reclaimed and refused again
for ever (`documents/sqlite_repositories.py:183`).

## What the code does not guarantee

The modules state more than the runs check. These properties fail, as TLC finds
within seconds when they are put in a configuration with the constants given:

- `ApprovedInvoicesAreClean` (`Review`) with two API threads, although validation
  errors block approval (`docs/ARCHITECTURE.md:176`): the report is read before
  the transaction; a correction with errors is saved in between. One document, one
  worker, two requests, one number, `Commands = {"approve", "save"}`,
  `MaxJobs = 1`, `MaxCorrections = 1`.
- `RetryBudget` (`Processing`) with the commands `cancel` and `process`: a cancel saves
  the job from the copy it read before its transaction, attempt count included
  (`documents/lifecycle_commands.py:81`), so an attempt made in between is forgotten,
  and an API thread that saw the job waiting acquires it again and retries once more.
  One document, one worker, two requests, `Commands = {"upload", "process", "cancel"}`,
  `QueueEnabled = FALSE`, `Stray = {}`, `RowLocks = FALSE`, `BrokerLimit = 2`,
  `MaxAttempts = 2`, `MaxDeliveries = 2`, `MaxJobs = 1`, `MaxLeases = 3`,
  `MaxCrashes = 0`, `MaxStalls = 0`. (The entries of `Processing` below take the same
  four values for the queue.)
- `AttemptsAreBounded` (`Delivery`), "At most three create attempts are permitted
  for one delivery" (`docs/erpnext-integration-design.md:201`): the count is
  compared on an old copy (`integrations/services.py:277`) and the claim does not
  compare again. One document, one key, two threads, `Commands = {"send"}`,
  `MaxAttempts = 3`, `MaxPosts = 4`, `MaxEdits = 0`, `MaxCrashes = 0`.
- `EachStepRunsOnce` (`Backoffice`) with `Serialized = FALSE`, that is on
  PostgreSQL, although the first transaction reserves the action and a repeated
  execution makes no second side effect (`docs/ARCHITECTURE.md:189-195`,
  `backoffice/execution.py:355`): at READ COMMITTED (`postgres/store.py:151-164`)
  both requests read the step waiting, the second reservation overwrites the
  first, and the tool is called twice. Two requests, `MaxPlans = 1`,
  `MaxReservations = 2`, `MaxCrashes = 0`.
- `StatusFollowsWorkflow` (`Processing`): the status may move along an edge that
  does not exist, because two API threads judge copies. One document, one worker,
  two requests, all commands, no queue, `MaxAttempts = 2`, `MaxJobs = 2`,
  `MaxLeases = 3`, `MaxStalls = 1`, `MaxCrashes = 0`.
- `FinishedJobsNeverRestart` with the `process` command enabled (same
  constants): `acquire` refuses only a running job, so a thread that saw the job
  waiting can start it again after it was finished or cancelled.
- `CorrectionsRecordTheChange` (`Review`): a draft names as the replaced value the
  extraction it read before its transaction. One document, one worker, two
  requests, one number, `Commands = {"draft"}`, `MaxJobs = 1`,
  `MaxCorrections = 2`.
- `CleanInvoicesAreUnique` (`Review`): two invoices are validated before either is
  stored. Two documents, two workers, one request, `Commands = {"approve"}`,
  `MaxJobs = 1`, `MaxCorrections = 0`.
- `FinalizedInvoicesAreImmutable` (`Review`) with two API threads: the draft
  handler checks the status before its transaction (`api/invoices.py:343`), an
  approval comes in between, and the approved invoice is overwritten, although
  `docs/ARCHITECTURE.md:165-166` says "Approved, rejected, and exported records
  cannot be changed through the intake draft API." One document, one worker, two
  requests, one number, `Commands = {"approve", "draft"}`, `MaxJobs = 1`,
  `MaxCorrections = 1`.
- `CompletedBatchesAreFinal` (`ExportBatches`): `exports/batch_service.py:195`
  refuses to edit a running or completed batch, but on a copy; the copy is saved
  after the batch was executed, and the completed batch is a draft again. One
  document, one replica, two requests, two keys, `MaxBatches = 1`, `MaxRuns = 2`,
  `MaxEdits = 1`, `MaxCrashes = 0`.
- The other properties of `Backoffice` but `TypeOK` with `Serialized = FALSE`: two reservations, a plan and a reservation, an approval and a
  rejection, a reconciliation and a late answer overwrite one another. Two requests, no
  crash, one plan and at most two reservations (`OneCallAtATime` needs two plans).
- `SuccessMeansDrafted` (`Delivery`), "no unknown result is converted to success from
  an operator-entered external ID alone" (`docs/erpnext-integration-design.md:202-203`): the
  endpoint for operators asks no adapter and looks nothing up
  (`api/integrations.py:299-313`, `integrations/services.py:159-214`), so a delivery of
  which the provider has no draft is recorded as succeeded, and its document as exported.
  One document, one key, one thread, `Commands = {"send", "confirm"}`, `MaxAttempts = 3`,
  `MaxPosts = 1`, `MaxEdits = 0`, `MaxCrashes = 0`.
- `MappedTaxIsExact` (`InvoiceRules`, of `input` where `about = "invoice"`, with the
  constants of `pages`), "Exact 10% and 20% cases use their Assisted Benchmark templates. A
  missing, negative, or unsupported rate blocks delivery"
  (`docs/erpnext-integration-design.md:150-152`): the rate is rounded to 0.01 % before it
  is looked up (`integrations/erpnext_mapping.py:183`). A tax of 50.02 on 500.00 is taken
  for 10 %; the draft has 550.00 instead of 550.02, and is refused after it was made.
- `VerifiedDraftsPostTheSubtotal` (`InvoiceRules`, likewise), line items "must reconcile
  exactly to subtotal" (`docs/erpnext-integration-design.md:113`): the rate of a row is
  rounded after its amount was compared, and of the draft only the grand total is. The
  same amounts with rows of 3 at 66.667, 3 at 66.667 and 1 at 100.00 make a draft of 500.02
  with a tax of 50.00, whose total is the approved one.
- `CleanValuesArePrintedWhole` (`Reading`, of `input.answer` and `input.text` where
  `Answered`, with the constants of `pages`): an excerpt is any substring of its page
  (`providers/llm_json.py:363`), and the value is looked for within the excerpt alone
  (`validation/untrusted_content.py:86-93`). Without a labelled total, 5 passes as cut out
  of 15.00; with one that reads 1.234.5, which is skipped, so does 1.2; and a date of
  2/03/2026 passes within 12/03/2026.
- `OneActiveBatchPerInvoice` (`ExportBatches`): two batches are checked before
  either is saved. One document, one replica, two requests, `MaxBatches = 2`,
  `MaxRuns = 2`, `MaxEdits = 0`, `MaxCrashes = 0`.

About deliveries: `OneCreateAtATime` and `SuccessIsFinal` are stated for keys nobody has
reconciled. A provider lookup that finds nothing makes even a pending delivery failed,
and retryable while attempts are left (`integrations/delivery_executor.py:238-265`),
although its create request may still be on its way;
`docs/erpnext-integration-design.md:209` would retain `unknown` until a lookup window
ends. Its save also overwrites what was recorded since it read the row. The payload of a
retry is read again and not compared with the reserved hash
(`integrations/services.py:294`), and a claimed retry whose payload can no longer be
sent stays pending. Nothing relates the two ways out: a CSV export and a draft may both
take one document. The keys of the accounting adapter are chosen by the caller, so one
document may be sent under two.

What the models of pages, rules and policies made visible, beside what their
properties say:

- *Invoices.* No validator emits a warning, so the "warnings" scope and the medium
  risk are unreachable; no code contains "tax", so `tax_amount_issues` is always 0.
  The mapping rounds what it compares, the validator does not: an invoice with parts of a
  cent may map and still have a total mismatch.
- *Reading.* An amount with one digit after a comma is read as 1.5 by the extractor
  and judged as 15 by the content check; a currency printed as a symbol is always
  flagged. The evidence and injection issues vanish when a review edit revalidates.
- *Pages.* Provider names are set on success only, so provider failures are always 0
  and "degraded" is unreachable (`docs/PORTFOLIO_CASE_STUDY.md:193` has an invalid
  credential reported as provider health).
  Overview figures ignore requested corrections; the exported summary counts today
  where its list has all; system alerts list at most 5 failed jobs, so their count is
  capped. PostgreSQL sorts absent values last, the other stores first; ties on
  `updated_at` differ as well. An amount above an export tab mixes invoices without a
  currency.
- *Retention.* A candidate that was activated after the purge read it is purged while
  queued; late upserts, marks, racing projections and downloads bring rows, notices
  and cached files back (`late`). In SQL stores a late save of a work item is refused
  by its foreign key, which the in-memory store lacks. Leftover `.tmp` files never
  match `purge_parser_cache`.
- *Copilot and policy.* The uploader may process its documents through the API but call
  no tool of the copilot. `process_document` answers "success" although processing
  failed. The export step's tool exports every approved invoice of the workspace,
  its guard looks at the linked one. A work item is classified once: one first
  planned with a field missing can never be planned for export.
- *AgentOps.* `unsafe_action_prevention_rate` is blocked over blocked; the failure trend
  counts a run's failure and its trace's; 3 of the 9 scenarios of
  `examples/agentops/scenarios_v1.json` can never be met (`UnmetScenarios`).
- *Evaluation.* The lock is taken before the dataset is loaded and the first attempt is
  saved, and released only by what follows, so a failure there refuses every later run
  until a restart. A crash leaves an attempt "running" for ever. When saving the success
  fails after the report was saved, the attempt says that nothing was promoted although
  the report is shown. A run of 3 documents is compared with one of 20. A workspace's
  history is cut at 100 reports of all workspaces.
- *Startup and gateway.* An empty variable falls back to the next source, so the refusal
  of a missing metrics token is unreachable. The worker applies none of the policies.
  Sessions and counts are per process, so the limit is per process life; the limiter is
  outside the origin check and sign-in, so refused requests count as hits.

## Proofs

`ProcessingProofs` proves of `Processing`, for any documents, workers, requests,
settings and bounds that satisfy `ConstantsAssumption` (workers and requests are
different threads, bounds are naturals, the null values are not members):

| Theorem | Statement |
|---|---|
| `InvariantHolds` | `Spec => []IInv` |
| `TypeCorrect` | `Spec => []TypeOK` |
| `OneHolder` | `Spec => []OneHolderPerJob` |
| `ImplementsLedger` | `Spec => ImplementsFencedLedger`: initial states map to initial states, every step grants, commits or stutters |
| `LedgerInvariant`, `Fenced` | whoever implements `FencedLedger` keeps its `TypeOK`, `HolderIsNewest` and `IssuedInOrder` (`SoundLedgers`), and records an outcome only for the newest lease of a job that is still open; nothing of `Processing` but its sets of jobs, leases and outcomes is used |
| `FormerHoldersFenced` | `Spec => FormerHoldersAreFenced`, from the refinement and `Fenced`; `LedgerAssumption` follows from `ConstantsAssumption` |
| `ResultsMatch` | `Spec => []ResultsMatchLedger` |

Neither `OneHolderPerJob` nor the refinement is inductive. `IInv` adds what they
rest on: job rows appear in order, and a row is running exactly when it carries a
token, which is on record for that job and open (`JobsInv`); what a thread holds
names existing rows and issued leases (`RowOK`); no two threads were given one
lease (`TokensDiffer`), which is what makes a token sufficient as a fence and
holds because a claim issues a lease never used before; messages exist for
existing jobs (`MailInv`); the history is filled in order (`LedgerInv`). The
proof has one lemma per action, over lemmas for the operations on the tables
(`StartJobStep`, `SaveFencedStep`, `AddJobStep`, `CancelJobStep`, `FlagStep`) and
one for a step that changes a single thread (`StepInv`). `CommitCancel` is the
delicate case: it saves without a token, from a copy, and is sound only because
it re-reads that the row is not running.

It goes on from there, in three sections:

| Theorem | Statement |
|---|---|
| `RetriesStayInBudget` | without `"cancel"` in `Commands`, `Spec => []RetryBudget` |
| `WakeupsServe` | `Spec => []CompletedWakeupsWereServed`, for every command and fault |
| `FinishedStay` | without `"process"` in `Commands`, `Spec => FinishedJobsNeverRestart` |

*Retries.* The assumption is needed, as the list above shows. A job's row counts at
least the leases it was granted (`AttemptsInv`): only a claim raises the number of
leases, and it raises the count as well. A thread writes a count back from the copy it
holds, and while the fence lets it write that copy has the row's count (`CopiesInv`). A
retry is then granted only below `MaxAttempts`, and the retries of a job are among its
leases.

*Wake-ups.* A thread with a job's message in hands knows an existing job, and unless
its run is still to look at the job, raised, or passed over a locked row (`Unserved`)
that job is no longer in its first waiting state (`WokenOK`); no step brings a job back
to it, a retry included, and a message is sent only for a job that exists. The theorem
is about completed messages, because a dead-lettered one may leave its job queued, as
`app/tests/test_processing_queue.py` expects; that polling serves such a job all the same
is `UploadsConverge`.

*Finished jobs.* Every claim a worker makes looks at the row it updates and passes over
finished jobs; `acquire`, by which the API processes a document itself, refuses only a
running one. So the theorem says that no request acquires (`NobodyAcquires`), and the
assumption says where that is so; every other route to a running row is a worker's
claim, of a job that is queued, due or held by an expired lease.

`BackofficeProofs` proves of `Backoffice`, for any set of requests and any bounds:

| Theorem | Statement |
|---|---|
| `TypeCorrect` | `Spec => []TypeOK`, whether or not transactions are serialized |
| `InvariantHolds` | if `Serialized`, `Spec => []IInv` |
| `StepsRunOnce`, `OneCall` | if `Serialized`, `Spec => []EachStepRunsOnce`, `Spec => []OneCallAtATime` |
| `ItemTracks`, `ApprovedCalls` | if `Serialized`, `Spec => []ItemTracksItsExecution`, `Spec => []CallsAreApproved` |
| `SettledFinal` | if `Serialized`, `Spec => SettledStepsAreFinal` |
| `RecordsAreTrue` | if `Serialized`, `Spec => []RecordedOutcomeIsTrue` |

The assumption `Serialized` is needed: `EachStepRunsOnce` fails without it, with the
constants given under "What the code does not guarantee". It enters in one
place: at most one thread has a transaction open, and what that thread read is
what the database holds (`LockInv`), so a command may be judged on its view. The
rest of the invariant says that a step not yet executed was not called, and one
called was approved (`CallsInv`); that a thread that has reserved names a plan
(`ThreadsInv`); that an open outcome is that of the current plan's step, which is
why a plan cannot be replaced while it is (`ItemInv`); and that one thread at
most runs a step, which is executing until its call is over or its plan was
reconciled (`RunInv`). What is recorded is true for two reasons (`OutcomeInv`): a
reservation needs an approved document, and while a step is reserved that document
stays approved or becomes exported, so a call that finds nothing left to export finds
it exported; and the plan whose call exported the document was reserved, so no step
that is settled without a call is that plan. Only a call that an administrator
reconciled while it ran escapes, and it is counted in `raced`.

`DeliveryProofs` proves of `Delivery`, for any documents, keys, threads and bounds:

| Theorem | Statement |
|---|---|
| `TypesHold` | `Spec => []TypeOK` |
| `SuccessIsAttestedAlways` | `Spec => []SuccessIsAttested` |
| `CreatesAreSingle` | `Spec => []OneCreateAtATime` |
| `SuccessFinal` | `Spec => SuccessIsFinal` |

The invariant says of every delivery that its row, its requests and its drafts are of
one document (`DocsInv`); of every copy a thread holds that what it says of drafts, or
of an operator's word, is true, however stale it is, because neither is ever withdrawn
and rows are never removed (`CopyInv`: this is what makes a replay or a late lookup
safe; what an operator is about to say is exempt); and of every delivery nobody has
reconciled that one thread at most holds it, whose copy is the row, that one request at
most is unanswered, and that a thread that is about to post or has heard an answer other
than a timeout leaves none on the wire (`WireInv`). A timeout gives up the request but
not the row's `unknown`, which no claim accepts. Each step is one lemma; `LookingKeeps`
covers those that only move a thread, `SaveKeeps` those that write a row.

`ReviewProofs` proves of `Review`, for any documents, API threads and bounds and any
finite set of workers:

| Theorem | Statement |
|---|---|
| `TypesHold` | `Spec => []TypeOK` |
| `DecisionsMatch` | `Spec => []DecisionMatchesTask` |
| `LineagesStart` | `Spec => []LineageStartsAtExtraction` |
| `ApprovedAreClean` | if `OneThread`, `Spec => []ApprovedInvoicesAreClean` |
| `ExportedOnce` | if `OneThread`, `Spec => []ExportedOnceAsApproved` |
| `FinalizedStay` | if `OneThread`, `Spec => FinalizedInvoicesAreImmutable` |

`DecisionMatchesTask` needs no more than itself: a decision writes status and task in
one transaction, saved notes open a task only where there is none, and only
"approved" leads to "exported". The lineage needs that what is stored and never
corrected was extracted (`OriginInv`), and that the copy a draft request has read,
however old, was extracted if nothing is corrected when it is saved (`RowsInv`). Types
need that the jobs that wait and the workers that hold one never outnumber the jobs
made (`CountInv`), which is why the workers must be finitely many.

The last three fail with two API threads, as the previous section shows, so they assume
`OneThread`: any two requests are the same one. Workers are not restricted; they still
run beside the one request, die and are replaced. What keeps them apart is the status of
the document, and that has to be proved (`SerialInv`): a document with a job that waits
is queued, that job is its only one, and no worker has it; one worker at most has a
document, which is queued until it is extracted and processing until it is stored
(`WorkInv`, `WorkerOK`). A document in process is thus none that a request may decide,
edit or export, and whatever the request has read of another is still so when it commits
(`RequestOK`): a document to be approved still waits for review and its invoice has no
errors, and the rows of a download are what is stored. `OneStored` says that a stored
extraction is one invoice, without which "has no errors" would be about some of it.

`ExportBatchesProofs` proves of `ExportBatches`, for any documents, replicas, keys and
bounds and any finite set of requests:

| Theorem | Statement |
|---|---|
| `TypesHold` | `Spec => []TypeOK` |
| `ExportsAreSingle` | `Spec => []ExportedOnce` |
| `RunsAreAtomic` | `Spec => []RunsExportAllOrNothing` |
| `CompletedBatchesMatch` | `Spec => []CompletedBatchMatchesRun` |
| `RunningBatchesRelease` | `Spec => []RunningBatchesCanBeReleased` |
| `SettledRunsStay` | `Spec => RunsSettleOnce` |

None of the invariants is inductive. A batch that is running or completed has the
documents of its last run, which is running or succeeded (`BatchesInv`); it survives
the blind upserts because the copies of an edit are never running or completed
(`ThreadsInv`). Every document a run exported is among the documents of a run that
succeeded, and the other way round (`ExportInv`), because the completing transaction
reads all of them again. A new run is one nobody made before (`RunsInv`), so no
reservation reopens a settled run. Edits are counted when they are saved, so their
bound needs those in progress (`EditsInv`), hence finitely many requests. The
execution lock is not used: nothing here rests on it, nor on one replica.

`RetentionProofs` proves of `Retention`, for any documents, work items, threads, targets
and allowed moves:

| Theorem | Statement |
|---|---|
| `FilesAgree` | `Spec => []FilesAndRowsAgree`, which contains `TypeOK` |
| `PurgesStay` | `Spec => []PurgedDataStaysGone` |

`PurgeInv` adds to the two invariants what every request in progress is entitled to
(`RequestOK`). A request other than an upload names a document that was uploaded, an
upload one that was not (`NamesOK`), and no two uploads share a document (`PairsOK`): so
a purge and an upload never meet on one file. A purge past the store has no file, and
past the cache no cached copy, unless a fetch it overtook writes one later, and then the
document is counted in `late` (`FilesOK`, `PairsOK`). Whoever holds a copy of a document
whose rows are gone is counted there too, a notification page and a list of failed
documents included (`CopiesOK`), which is what makes a blind upsert, a late notification
and a late cached file the only ways back. A document purged and not in `late` is being
fetched by nobody (`RowsOK`).

`PagesProofs` and `EvaluationProofs` prove of the operators of the modules without a state of
their own, for every argument and not only for those that `pages` enumerates:

| Theorem | Statement |
|---|---|
| `EveryDeliveryIsSound` | `DeliverableInvoicesAreSound(invoice)` for every invoice, of any amounts and any number of lines |
| `EveryCleanReadingIsPrinted` | `CleanReadingsArePrinted(answer, text, others)` for every answer and any text |
| `EveryPrintedAmountIsEvident` | `PrintedAmountsAreEvident(answer, text)` for every answer and every text |
| `EveryReadyInvoicePasses` | `ReadyInvoicesPassTheBatchChecks(db)` for every database |
| `EverySettingIsLayered` | `SettingsAreLayered(process, file)` for every environment and settings file |
| `EveryStartIsSound` | `StartedAppsAreSound(c)` for every configuration |
| `CallersKnown` | `Spec => []CallersAreKnown` of `Gateway`, for any clients, cookies, environment, limit, window and time to live |
| `EveryReplyIsPermitted` | `WordsMoveNothing`, `WorkspaceIsKept` and `TableMatchesServices` for every request, caller and database |
| `AdviceIsFollowed` | `AdviceCanBeFollowed(request, caller, db)` for every caller but an operator, where no document waits for its first job |
| `PolicyIsTheTable`, `EveryPlanAsksFirst`, `EveryPlanIsContained`, `EveryPlanRunTells` | `PolicyMatchesTools`, `PlansAskFirst`, `NoEvidenceNoAction`, `PlanContainsItsSteps` and `PlanRunsTell` for every work item and caller |
| `EveryRunTells`, `EveryScenarioIsMet` | `RunsTellWhatHappened` and `ScenariosAreMet` for every request, caller and database |
| `EveryStoreAnswersAlike`, `EveryCountMatchesItsPage` | `StoresAnswerAlike(db)` and `CountsMatchTheirPages(db)` for every snapshot of the database |
| `EveryDashboardAgrees`, `EveryOperationalIsEarned` | `DashboardsAgree(sys, now)` at every minute and `OperationalIsEarned(sys, ready, providers, accounting)` for every ledger of jobs |
| `EverySummaryAddsUp`, `EveryRegressionTurnsRound` | `SummaryAddsUp(runs)` and `RegressionTurnsRound(runs, previous, current)` for every sequence of recorded runs |
| `PagesHold` | `Spec => []PagesAgree` of the instance |
| `EveryReportAddsUp`, `EveryCallAddsUp` | `ReportsAddUp(cases, seen)` and `CallsAddUp(seen)` for every sequence of documents |
| `EveryComparisonAddsUp`, `EveryScoreTellsItsCount` | `ComparisonsAddUp(public, history, workspace, asked, limit)` for all reports, `ScoresTellCounts(documents)` below 10000 documents |
| `EvaluationsHold` | `Spec => []EvaluationsAddUp` of the instance, for any threads, documents, attempts and faults |
| `GatesHold` | `Spec => []GatesAgree` of the instance, whatever its documents, clients and limits are |
| `DeliveriesAreSound`, `ReadingsArePrinted`, `ReadyIsReady` | `Spec => []SoundDeliveries`, `[]PrintedReadings`, `[]ReadyMeansReady` of the instance |

An invoice (`IsInvoice`) has integers or nulls for its amounts, dates and quantities and
a sequence of lines; an answer has the fields of an invoice; a text (`IsText`) is a
sequence of pages of lines that each carry a sequence of numbers. The instance theorems
add that what `MCPages` enters is of that kind (`EnteredInv`, `PrintedInv`).
`AttemptsTell` is `Spec => []AttemptsTellWhatHappened` of `Evaluation`, for any threads,
documents, attempts and faults, assuming that `NoThread` is no thread and that a
dataset has a number of documents (`EvaluationAssumption`).

*Deliveries.* The validator, the mapping and ERPNext each round for themselves. Rounding
moves an amount by at most half a unit (`HalfUp`), so a line that maps is within the
validator's cent of its product, and a sum of rounded terms is the rounded total only up to
parts of a cent: the one issue that is left. Unless a price has parts of a cent the rate of
a row is the price itself, so the draft's net is the sum of the lines' amounts, which the
mapping compared with the subtotal; adding whole cents rounds nothing. The rate is off by at
most half of 0.01 %, hence the tax it gives back by that share of the subtotal and half a
cent, which is less than a cent, so nothing, up to 100.00. No bound on the
amounts is assumed.

*Readings.* The place a labelled value is read from exists and is on a page of the text
(`FirstPlace`, `MoneyPlace`, `CurrencyPlace`). Absent issues mean that each field that
was read has evidence that supports it (`EvidenceNeeded`), and evidence supports a value
only where the line, or a part of what it prints, shows it; conversely the extractor's
own evidence supports the amount it grounded when the two readings of the number agree
(`EvidenceSuffices`).

*Lists, counts and dashboards.* A snapshot (`Snapshot`) has finitely many rows, reports
and work items, dates that are numbers or null, and no two work items of one document
updated at the same moment: the SQL of the invoice list and the in-memory branch break such
a tie differently, so without this the stores need not agree. A ledger (`Ledger`) has
finitely many jobs in the statuses of the table, with times or `NULL` (`Unset`, which is no
time: `UnsetAssumption`). Recorded runs (`Recordings`) each have a finite sequence of
traces. The arguments are about counting. What a page groups and adds up is the count of
what it groups, because the groups are apart (`Apart`, `SumOfParts`, `SumIsCount`); minutes are
counted as well, as points of a plane (`Points`), so that sums of durations split like
sets do. The pages of the overview and the list of open exceptions are two images of one
set of facts, so counting either counts the facts (`FiniteImage`, `IssuesOfQueue`). A
failed job is on the page its rank falls on, divided by the size of a page. The failures
of a summary are the places of the runs that have one, each under its name; and the trend
counts at least as many, since a failed run has the failure it is named after among its
own (`FailureOfRun`). A comparison reads two neighbouring stretches of the runs, and turned
round it reads the same two (`PutTogether`, `StretchOfStretch`). `PagesHold` adds that what
`MCPages` writes is such a snapshot, ledger or sequence (`SnapshotInv`, `LedgerInv`,
`RecordingsInv`).

*Evaluations.* `EvaluationInv` adds that only the holder of the lock is in a run; that a
run past its start has its attempt on record as running (`HeldInv`); that it has no
report before it saves one, and knows the report it saved (`ReportsInv`); and instead
of the reports whose attempt did not succeed it counts those that no run is about to
claim either (`Lost`), because a failed write loses the report before the attempt is
settled as failed. A complete reading makes two calls a document, which is a sum again.

*Reports and comparisons.* The kinds of failures divide the missed fields (`MissedOnce`,
`MissedAddUp`). What compares scores is that a rounded rate lies within half a
ten-thousandth of the quotient and grows with it (`RateNear`): so a rate over the
documents that were read is at least that over all, and the matches of fewer than 10000
documents can be told from it. A full rounded score means that every field matched
only below 2500 documents, eight fields each; the datasets have a few dozen. That the
codes of an exact document are the expected ones holds when rounding to cents changes
no rule: the expected amounts are whole cents, and those read are too, or the total stands
alone; evaluated invoices carry no lines (`AlikeCodes`). Duplicates need that documents of
one group have one name and number (`Evaluable`), and no text may be the value for none
(`TextAssumption`). The sorts of the page are stable sorts by place, which put every place
of a finite sequence once and in order; the run a page selects, its trend and its
predecessor are then places whose neighbours are known. A comparison is of one
dataset, version and split only if a fingerprint names one (`Fingerprinted`); the code
compares `dataset_fingerprint_sha256` of public reports and takes it for the content of a
dataset. `EvaluationsHold` adds what `MCPages` enters of this kind
(`ScoresInv`, `EvidenceInv`).

*Settings.* Loading tries its sources in order, so what it gives is what the first
source that names the setting says (`LoadedFrom`, `FirstNaming`). A start that is
allowed has distinct tokens, none of which is the one for metrics: so a token that
signs in at all signs in one principal (`TokensOfStarted`).

*The gateway.* It assumes that the limit, the window, the time to live and the bounds of
the model are integers and that no cookie is the value for none (`GateAssumption`). The
limiter forgets a time as soon as it is a window old, so its list is the end of the list
of all times served, whose earlier part is old, and times never decrease
(`LimiterInv`): what is left after dropping the old front is exactly what was served
within the window (`RecentTimes`, `IntervalCount`), and so a client is turned away
when that is the limit and only then. A session is in the table just when it was issued
by this process, not signed out of and not yet seen expired (`SessionsInv`), hence live
just when it is in force; the reply then names the principal of that session, or of the
token (`AuthenticatedIsPrincipal`).

*The copilot.* A request is refused for the caller's role, or answered by a tool that
reads and moves nothing (`ReadsMoveNothing`), or run by one that was named
(`WordsSelectReads`, `ControlledMoves`): `AnswerOf` joins the three, and what is
promised of answers, advice and recorded runs is a look at each. A plan has at most two
steps, the first of which reads (`PlanSteps`), so its order is found by two steps of a
fold (`FoundFew`, `FoundWhenEmbedded`). Two hypotheses are not for show. The copilot
recommends processing for an uploaded document, which only a queued one takes: an upload
commits both statuses at once, so none is seen in between. And an operator may be advised to
process a document that another submitted, which the service refuses. `GatesHold` adds
only that the documents of the instance are such documents (`CopilotInv`), from
`DocumentAssumption`, `ToolAssumption` and `FailureAssumption`: no document, tool or
failure is the value for none.

The lemmas on sums need induction over the number of lines. The
induction theorems of the library take an operator as a parameter and cannot be
instantiated, but well-foundedness as a property of sets can: a set of
counterexamples has a smallest member (`Smallest`), and the step shows that a smaller
one would be another (`FoldExists`, `FoldIsWhole`).

Some things in the models were wrong or weaker than the code until these proofs asked.
Several operators used a CASE whose guards overlap: TLA+ leaves open which arm such a
CASE takes, TLC takes the first, and the code's `if`/`elif` chains do as well. They are now
nested IFs. And nothing said that a null is no amount: `NullAssumption` of `InvoiceRules` does, and that
the accounting mapping knows no vendor without a name. `Recent` of `Gateway` kept
whichever times are recent; the code drops old ones from the front until it meets a
recent one, and that the two agree is now a lemma and not an assumption.

The trend of `Evidence` cut the list of the page; the code sorts the series again, oldest
first, and a stable sort then shows runs of one moment in the order of the list. The model
does so now, and `TrendTells` says when such a tie pushes the selected run out.

Model-checked only: the liveness properties, because fairness and ENABLED are beyond the
prover. Every invariant and every action property of the passing runs is a theorem. The two
`violation` runs state what the code does not do.

## Not modelled

- The words: which words of a message make a topic, prompts, labels, wording of
  answers, search text, paging offsets, CSV text and its stored artifact, assignments,
  notes, audit records; backoffice message drafts and workflow events. No property
  tells them apart.
- Provider HTTP, PDF parsing, ClamAV's protocol, object-store requests: `Processing`,
  `Review` and `Retention` let them answer anything.
- Names, sizes and signatures of files; a download is one read.
- Connection pooling, SQL translation and migrations: what the isolation level
  changes is a parameter of `Backoffice`.
- Queue messages that cannot be read, and sends accepted in part.
- Response headers, redirects of page addresses.
- The benchmark's command line and report, production validation, set-up scripts:
  they drive the system and read its results.
- The frontend and the infrastructure are clients and configuration: any sequence of
  requests is among the requests of the models.

## What remains

- An abstract specification of a step (proposed, approved, reserved, settled) that
  `Backoffice` implements when transactions are serialized.
- A liveness run with commands, for the job that is refused for ever, once the code
  says what should become of it.
