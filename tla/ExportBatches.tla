--------------------------- MODULE ExportBatches ---------------------------
(***************************************************************************)
(* Export batches and their runs: batches that are created and edited      *)
(* outside a transaction, runs that are reserved in one transaction and    *)
(* completed or failed in another, replays of an idempotency key, the      *)
(* direct CSV download, and replicas of the API process that crash between *)
(* two steps.  Documents are approved by Review.                           *)
(***************************************************************************)
EXTENDS Naturals, FiniteSets

CONSTANTS
  Doc,        \* documents that may be approved
  Blocked,    \* documents whose stored report has errors
  Replica,    \* processes serving the API, each with an execution lock
  Request,    \* their threads
  Host,       \* the replica of each request
  Key,        \* idempotency keys
  NoKey,      \* the key of a run that does not exist
  Nobody,     \* the holder of a free execution lock
  MaxBatches, \* bound: batches created
  MaxRuns,    \* bound: runs reserved
  MaxEdits,   \* bound: batch updates
  MaxCrashes  \* bound: replicas that die

BatchId == 1..MaxBatches
RunId   == 1..MaxRuns
None     == 0
Download == 0

ASSUME ConstantsAssumption ==
  /\ Blocked \subseteq Doc
  /\ Host \in [Request -> Replica]
  /\ NoKey \notin Key
  /\ Nobody \notin Request /\ IsFiniteSet(Request)
  /\ MaxBatches \in Nat /\ MaxRuns \in Nat /\ MaxEdits \in Nat /\ MaxCrashes \in Nat

VARIABLES
  docs,      \* the status of each document
  batches,   \* the batch rows, numbered by creation
  runs,      \* the run rows, numbered by reservation
  lock,      \* the execution lock of each replica
  threads,   \* where each request is, and the copies it holds
  exported,  \* history: the runs, or Download, that exported each document
  edits, crashes

vars == <<docs, batches, runs, lock, threads, exported, edits, crashes>>

-----------------------------------------------------------------------------
BatchRow == [status: {"none", "draft", "ready", "running", "completed", "failed"},
             docs: SUBSET Doc, last: RunId \union {None}]
NoBatch  == [status |-> "none", docs |-> {}, last |-> None]

\* old: updated_at is at least ABANDONED_RUN_AFTER ago.
RunRow == [status: {"none", "running", "succeeded", "failed"},
           batch: BatchId \union {None}, docs: SUBSET Doc, key: Key \union {NoKey},
           old: BOOLEAN]
NoRun  == [status |-> "none", batch |-> None, docs |-> {}, key |-> NoKey, old |-> FALSE]

\* batch, copy: the batch being edited and the row to be saved over it.
\* docs: the documents selected for a download.
ThreadRow == [pc: {"idle", "save_batch", "render", "complete", "fail", "download"},
              batch: BatchId \union {None}, copy: BatchRow, run: RunId \union {None},
              docs: SUBSET Doc]
IdleThread == [pc |-> "idle", batch |-> None, copy |-> NoBatch, run |-> None, docs |-> {}]

Init ==
  /\ docs = [d \in Doc |-> "needs_review"]
  /\ batches = [b \in BatchId |-> NoBatch]
  /\ runs = [n \in RunId |-> NoRun]
  /\ lock = [p \in Replica |-> Nobody]
  /\ threads = [r \in Request |-> IdleThread]
  /\ exported = [d \in Doc |-> {}]
  /\ edits = 0
  /\ crashes = 0

At(r, pc) == threads[r].pc = pc

Finish(r) == threads' = [threads EXCEPT ![r] = IdleThread]

Made(rows) == {i \in DOMAIN rows : rows[i].status # "none"}

\* The invoices reserved by another active batch.
ReservedOutside(b) ==
  UNION {batches[c].docs : c \in {c \in BatchId \ {b} :
                                  batches[c].status \in {"ready", "running", "failed"}}}

\* eligible_documents for a ready batch, workspace_documents for a draft.
Accepted(selection, status, b) ==
  {d \in selection \ ReservedOutside(b) :
     IF status = "draft" THEN docs[d] # "exported"
     ELSE docs[d] = "approved" /\ d \notin Blocked}

\* The checks made when a batch is executed.
Eligible(b) ==
  /\ batches[b].docs # {}
  /\ \A d \in batches[b].docs : docs[d] = "approved"
  /\ batches[b].docs \intersect (Blocked \union ReservedOutside(b)) = {}

-----------------------------------------------------------------------------
(* Creating and editing a batch: read, then write, without a transaction.    *)

BeginCreate(r) ==
  /\ At(r, "idle")
  /\ \E selection \in SUBSET Doc \ {{}}, status \in {"draft", "ready"} :
       LET accepted == Accepted(selection, status, None)
       IN /\ accepted # {}
          /\ threads' = [threads EXCEPT ![r].pc = "save_batch",
                           ![r].copy = [status |-> status, docs |-> accepted, last |-> None]]
  /\ UNCHANGED <<docs, batches, runs, lock, exported, edits, crashes>>

BeginUpdate(r, b) ==
  /\ At(r, "idle")
  /\ edits < MaxEdits
  /\ batches[b].status \in {"draft", "ready", "failed"}
  /\ \E selection \in SUBSET Doc \ {{}}, status \in {"draft", "ready"} :
       threads' = [threads EXCEPT ![r].pc = "save_batch", ![r].batch = b,
                     ![r].copy = [batches[b] EXCEPT !.status = status,
                                    !.docs = Accepted(selection, status, b)]]
  /\ UNCHANGED <<docs, batches, runs, lock, exported, edits, crashes>>

\* save_batch is a blind upsert of the copy.
SaveBatch(r) ==
  /\ At(r, "save_batch")
  /\ \/ \E b \in BatchId :
          /\ threads[r].batch = None
          /\ b = Cardinality(Made(batches)) + 1
          /\ batches' = [batches EXCEPT ![b] = threads[r].copy]
          /\ UNCHANGED edits
     \/ /\ threads[r].batch # None
        /\ batches' = [batches EXCEPT ![threads[r].batch] = threads[r].copy]
        /\ edits' = edits + 1
  /\ Finish(r)
  /\ UNCHANGED <<docs, runs, lock, exported, crashes>>

-----------------------------------------------------------------------------
(* Executing a batch under the execution lock of the replica.                *)

RunsOfKey(key) == {n \in Made(runs) : runs[n].key = key}

Coherent(n) ==
  LET batch == batches[runs[n].batch]
  IN batch.status = "running" /\ batch.last = n

FailRun(n) ==
  /\ runs' = [runs EXCEPT ![n].status = "failed"]
  /\ batches' = IF Coherent(n) THEN [batches EXCEPT ![runs[n].batch].status = "failed"]
                ELSE batches

\* A key seen before replays its run.  A run that is still marked running is
\* abandoned when it is old, or no longer the run of its batch.
Replay(r, b, key) ==
  /\ At(r, "idle") /\ lock[Host[r]] = Nobody
  /\ \E n \in RunsOfKey(key) :
       /\ runs[n].batch = b /\ runs[n].status = "running"
       /\ ~Coherent(n) \/ runs[n].old
       /\ FailRun(n)
  /\ UNCHANGED <<docs, lock, threads, exported, edits, crashes>>

\* A new key reserves a run of a ready or failed batch whose checks pass.  A
\* retry of a failed run is the same step under another key.
Reserve(r, b, key) ==
  /\ At(r, "idle") /\ lock[Host[r]] = Nobody
  /\ RunsOfKey(key) = {}
  /\ batches[b].status \in {"ready", "failed"}
  /\ Eligible(b)
  /\ \E n \in RunId :
       /\ n = Cardinality(Made(runs)) + 1
       /\ runs' = [runs EXCEPT ![n] = [status |-> "running", batch |-> b,
                                       docs |-> batches[b].docs, key |-> key,
                                       old |-> FALSE]]
       /\ batches' = [batches EXCEPT ![b].status = "running", ![b].last = n]
       /\ threads' = [threads EXCEPT ![r].pc = "render", ![r].run = n]
  /\ lock' = [lock EXCEPT ![Host[r]] = r]
  /\ UNCHANGED <<docs, exported, edits, crashes>>

\* The CSV is rendered outside any transaction, and may raise.
Render(r) ==
  /\ At(r, "render")
  /\ \E next \in {"complete", "fail"} : threads' = [threads EXCEPT ![r].pc = next]
  /\ UNCHANGED <<docs, batches, runs, lock, exported, edits, crashes>>

MarkExported(selected, by) ==
  /\ docs' = [d \in Doc |-> IF d \in selected THEN "exported" ELSE docs[d]]
  /\ exported' = [d \in Doc |-> IF d \in selected THEN exported[d] \union {by} ELSE exported[d]]

\* Mutant: the run that completes no longer has to own the batch.
CompleteWithoutOwnership(r) ==
  LET n == threads[r].run
  IN /\ At(r, "complete")
     /\ \A d \in runs[n].docs : docs[d] = "approved"
     /\ MarkExported(runs[n].docs, n)
     /\ runs' = [runs EXCEPT ![n].status = "succeeded"]
     /\ batches' = [batches EXCEPT ![runs[n].batch].status = "completed"]
     /\ Finish(r)
     /\ lock' = [lock EXCEPT ![Host[r]] = Nobody]
     /\ UNCHANGED <<edits, crashes>>

\* Mutant: the documents are marked exported one by one, skipping those that
\* are no longer approved.
CompleteSkipping(r) ==
  LET n == threads[r].run
  IN /\ At(r, "complete")
     /\ Coherent(n) /\ runs[n].status = "running"
     /\ MarkExported({d \in runs[n].docs : docs[d] = "approved"}, n)
     /\ runs' = [runs EXCEPT ![n].status = "succeeded"]
     /\ batches' = [batches EXCEPT ![runs[n].batch].status = "completed"]
     /\ Finish(r)
     /\ lock' = [lock EXCEPT ![Host[r]] = Nobody]
     /\ UNCHANGED <<edits, crashes>>

\* Mutant: the batch is saved under the status of its run.
CompleteUnderRunStatus(r) ==
  LET n == threads[r].run
  IN /\ At(r, "complete")
     /\ Coherent(n) /\ runs[n].status = "running"
     /\ \A d \in runs[n].docs : docs[d] = "approved"
     /\ MarkExported(runs[n].docs, n)
     /\ runs' = [runs EXCEPT ![n].status = "succeeded"]
     /\ batches' = [batches EXCEPT ![runs[n].batch].status = "succeeded"]
     /\ Finish(r)
     /\ lock' = [lock EXCEPT ![Host[r]] = Nobody]
     /\ UNCHANGED <<edits, crashes>>

\* Ownership and the documents are checked again in the completing
\* transaction; when either fails everything rolls back and the run fails.
Complete(r) ==
  LET n == threads[r].run
  IN /\ At(r, "complete")
     /\ IF /\ Coherent(n) /\ runs[n].status = "running"
           /\ \A d \in runs[n].docs : docs[d] = "approved"
        THEN /\ MarkExported(runs[n].docs, n)
             /\ runs' = [runs EXCEPT ![n].status = "succeeded"]
             /\ batches' = [batches EXCEPT ![runs[n].batch].status = "completed"]
             /\ Finish(r)
             /\ lock' = [lock EXCEPT ![Host[r]] = Nobody]
        ELSE /\ threads' = [threads EXCEPT ![r].pc = "fail"]
             /\ UNCHANGED <<docs, exported, runs, batches, lock>>
     /\ UNCHANGED <<edits, crashes>>

\* Mutant: a failed run leaves its batch running.
FailRunOnly(r) ==
  LET n == threads[r].run
  IN /\ At(r, "fail")
     /\ runs' = [runs EXCEPT ![n].status = "failed"]
     /\ lock' = [lock EXCEPT ![Host[r]] = Nobody]
     /\ Finish(r)
     /\ UNCHANGED <<docs, batches, exported, edits, crashes>>

Fail(r) ==
  LET n == threads[r].run
  IN /\ At(r, "fail")
     /\ IF runs[n].status = "running" THEN FailRun(n) ELSE UNCHANGED <<runs, batches>>
     /\ lock' = [lock EXCEPT ![Host[r]] = Nobody]
     /\ Finish(r)
     /\ UNCHANGED <<docs, exported, edits, crashes>>

-----------------------------------------------------------------------------
(* The direct download, approvals, time and crashes.                         *)

BeginDownload(r) ==
  /\ At(r, "idle")
  /\ LET approved == {d \in Doc : docs[d] = "approved"}
     IN /\ approved # {}
        /\ threads' = [threads EXCEPT ![r].pc = "download", ![r].docs = approved]
  /\ UNCHANGED <<docs, batches, runs, lock, exported, edits, crashes>>

\* Mutant: the selected documents are marked exported unread.
CommitDownloadUnread(r) ==
  /\ At(r, "download")
  /\ MarkExported(threads[r].docs, Download)
  /\ Finish(r)
  /\ UNCHANGED <<batches, runs, lock, edits, crashes>>

\* transition_many_by_id reads every document again.
CommitDownload(r) ==
  /\ At(r, "download")
  /\ IF \A d \in threads[r].docs : docs[d] = "approved"
     THEN MarkExported(threads[r].docs, Download)
     ELSE UNCHANGED <<docs, exported>>
  /\ Finish(r)
  /\ UNCHANGED <<batches, runs, lock, edits, crashes>>

\* A reviewer approves: see Review.
Approve(d) ==
  /\ docs[d] = "needs_review"
  /\ docs' = [docs EXCEPT ![d] = "approved"]
  /\ UNCHANGED <<batches, runs, lock, threads, exported, edits, crashes>>

RunAges(n) ==
  /\ runs[n].status = "running" /\ ~runs[n].old
  /\ runs' = [runs EXCEPT ![n].old = TRUE]
  /\ UNCHANGED <<docs, batches, lock, threads, exported, edits, crashes>>

\* A replica dies with its lock and its threads; its rows stay.
Crash(p) ==
  /\ crashes < MaxCrashes
  /\ crashes' = crashes + 1
  /\ \E r \in Request : Host[r] = p /\ ~At(r, "idle")
  /\ threads' = [r \in Request |-> IF Host[r] = p THEN IdleThread ELSE threads[r]]
  /\ lock' = [lock EXCEPT ![p] = Nobody]
  /\ UNCHANGED <<docs, batches, runs, exported, edits>>

-----------------------------------------------------------------------------
RequestStep(r) ==
  \/ BeginCreate(r) \/ SaveBatch(r) \/ Render(r) \/ Complete(r) \/ Fail(r)
  \/ \E b \in BatchId : BeginUpdate(r, b)
  \/ \E b \in BatchId, key \in Key : Reserve(r, b, key) \/ Replay(r, b, key)
  \/ BeginDownload(r) \/ CommitDownload(r)

Next ==
  \/ \E r \in Request : RequestStep(r)
  \/ \E d \in Doc : Approve(d)
  \/ \E n \in RunId : RunAges(n)
  \/ \E p \in Replica : Crash(p)

Spec == Init /\ [][Next]_vars

-----------------------------------------------------------------------------
TypeOK ==
  /\ docs \in [Doc -> {"needs_review", "approved", "exported"}]
  /\ batches \in [BatchId -> BatchRow]
  /\ runs \in [RunId -> RunRow]
  /\ lock \in [Replica -> Request \union {Nobody}]
  /\ threads \in [Request -> ThreadRow]
  /\ exported \in [Doc -> SUBSET (RunId \union {Download})]
  /\ edits \in 0..(MaxEdits + Cardinality(Request))
  /\ crashes \in 0..MaxCrashes

\* Duplicate export effects: 0.  A document is exported once, by one run or one
\* download, whatever batches share it and whatever requests race.
ExportedOnce ==
  \A d \in Doc : /\ Cardinality(exported[d]) <= 1
                 /\ exported[d] # {} <=> docs[d] = "exported"

\* A run succeeds for all of its documents, or exports none of them.
RunsExportAllOrNothing ==
  \A n \in RunId : \A d \in runs[n].docs :
    n \in exported[d] <=> runs[n].status = "succeeded"

\* A completed batch is the batch its last run exported, although it may be
\* edited, replayed or superseded while the run is in progress.
CompletedBatchMatchesRun ==
  \A b \in BatchId : batches[b].status = "completed" =>
    LET last == batches[b].last
    IN /\ last # None
       /\ runs[last].batch = b
       /\ runs[last].status = "succeeded"
       /\ runs[last].docs = batches[b].docs

\* A running batch always has a running run, so that a replay of its key can
\* release it: no failure, crash or replay strands the batch alone.
RunningBatchesCanBeReleased ==
  \A b \in BatchId : batches[b].status = "running" =>
    /\ batches[b].last # None
    /\ runs[batches[b].last].batch = b
    /\ runs[batches[b].last].status = "running"

\* A replayed key returns the outcome that was recorded first: a run that
\* succeeded or failed never changes again.
RunsSettleOnce ==
  [][\A n \in RunId : runs[n].status \in {"succeeded", "failed"} => runs'[n] = runs[n]]_runs

-----------------------------------------------------------------------------
(* What the code does not guarantee when threads interleave: the README      *)
(* says how each of these fails.                                             *)

\* Documents in conflicting active batches: 0.
OneActiveBatchPerInvoice ==
  \A b \in BatchId :
    batches[b].status \in {"ready", "running", "failed"} =>
      batches[b].docs \intersect ReservedOutside(b) = {}

\* A running or completed batch can no longer be edited.
CompletedBatchesAreFinal ==
  [][\A b \in BatchId : batches[b].status = "completed" => batches'[b] = batches[b]]_batches
=============================================================================
