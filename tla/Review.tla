------------------------------- MODULE Review -------------------------------
(***************************************************************************)
(* The review of extracted invoices: workers that store extractions, API   *)
(* threads that approve, reject, correct, reprocess and download invoices. *)
(* Every step is one transaction or one read outside a transaction, so a   *)
(* thread may act on a copy that another thread has made stale.  Claims,   *)
(* leases and wake-ups are those of Processing; here a job is a token that *)
(* one worker takes.                                                       *)
(***************************************************************************)
EXTENDS Naturals, Sequences, FiniteSets, DocumentStatus

CONSTANTS
  Doc,            \* documents
  Worker,         \* worker processes
  Request,        \* threads of the API process, each serving one request at a time
  Number,         \* vendor and invoice number pairs, normalised
  NoNumber,       \* the pair of an invoice whose vendor or number is blank
  NoDoc,          \* the document of an idle thread
  Commands,       \* the API commands requests may issue
  MaxJobs,        \* bound: jobs of one document
  MaxCorrections  \* bound: correction events of one document

Thread == Worker \union Request

\* What the properties tell apart in invoice data: its identity, and whether
\* validate_invoice finds no error in it.
Invoice == [number: Number \union {NoNumber}, sound: BOOLEAN]

ASSUME ConstantsAssumption ==
  /\ Worker \intersect Request = {} /\ IsFiniteSet(Worker)
  /\ NoDoc \notin Doc
  /\ NoNumber \notin Number
  /\ MaxJobs \in Nat \ {0} /\ MaxCorrections \in Nat
  /\ Commands \subseteq {"approve", "reject", "save", "draft", "reprocess", "export"}

VARIABLES
  docs,         \* the status column of each document row
  jobs,         \* jobs of each document: how many were made, how many wait
  stored,       \* the stored extraction of each document, a set of at most one
  tasks,        \* the review task of each document
  corrections,  \* the correction events of each document, oldest first
  threads,      \* where each thread is, and the copies it holds
  outputs,      \* history: the invoices extraction stored for each document
  exports       \* history: the rows downloaded for each document

vars == <<docs, jobs, stored, tasks, corrections, threads, outputs, exports>>
database == <<docs, jobs, stored, tasks, corrections, outputs, exports>>

-----------------------------------------------------------------------------
Finalized == {"approved", "rejected", "exported"}

Extraction == [invoice: Invoice, errors: BOOLEAN]

Correction == [original: Invoice, before: Invoice, after: Invoice]

\* seen: the status read; copy: the extraction read, if any; rows: the
\* documents and invoices of a download.
ThreadRow == [pc: {"idle", "approve_read", "approve", "reject", "save", "draft_read",
                   "draft", "reprocess", "export_read", "export",
                   "leased", "extracting", "extracted"},
              doc: Doc \union {NoDoc}, seen: Status \union {Absent},
              copy: SUBSET Extraction, rows: SUBSET [doc: Doc, copy: SUBSET Extraction]]
IdleThread == [pc |-> "idle", doc |-> NoDoc, seen |-> Absent, copy |-> {}, rows |-> {}]

\* Every document has just been uploaded.
Init ==
  /\ docs = [d \in Doc |-> "queued"]
  /\ jobs = [d \in Doc |-> [made |-> 1, waiting |-> 1]]
  /\ stored = [d \in Doc |-> {}]
  /\ tasks = [d \in Doc |-> "none"]
  /\ corrections = [d \in Doc |-> <<>>]
  /\ threads = [t \in Thread |-> IdleThread]
  /\ outputs = [d \in Doc |-> {}]
  /\ exports = [d \in Doc |-> <<>>]

At(t, pc) == threads[t].pc = pc

Finish(t) == threads' = [threads EXCEPT ![t] = IdleThread]

\* A handler reads the document, outside its transaction.
Read(t, d, pc) ==
  threads' = [threads EXCEPT ![t] = [IdleThread EXCEPT !.pc = pc, !.doc = d,
                                                       !.seen = docs[d]]]

\* transition: the target is checked against the copy, the row is overwritten.
Transition(t, target) ==
  /\ CanTransition(threads[t].seen, target)
  /\ docs' = [docs EXCEPT ![threads[t].doc] = target]

\* validate_document_invoice: an invoice already stored under the same vendor
\* and number is an error, in whatever status the other document is.
Duplicate(d, invoice) ==
  /\ invoice.number # NoNumber
  /\ \E e \in Doc \ {d} : \E other \in stored[e] : other.invoice.number = invoice.number

Validated(d, invoice) ==
  [invoice |-> invoice, errors |-> ~invoice.sound \/ Duplicate(d, invoice)]

Store(d, extraction) == stored' = [stored EXCEPT ![d] = {extraction}]

\* Mutant: every event takes the value it replaces for the AI's.
CaptureWithoutOriginal(d, before, after) ==
  IF before = after THEN UNCHANGED corrections
  ELSE /\ Len(corrections[d]) < MaxCorrections
       /\ corrections' = [corrections EXCEPT ![d] =
            Append(@, [original |-> before, before |-> before, after |-> after])]

\* capture: an edit that changes a field is recorded against the original of
\* the first event, or against the value it replaces when it is the first.
Capture(d, before, after) ==
  LET events   == corrections[d]
      original == IF events = <<>> THEN before ELSE events[1].original
  IN IF before = after THEN UNCHANGED corrections
     ELSE /\ Len(events) < MaxCorrections
          /\ corrections' = [corrections EXCEPT ![d] =
               Append(@, [original |-> original, before |-> before, after |-> after])]

-----------------------------------------------------------------------------
(* Processing, as far as a reviewer sees it.                                 *)

\* A job whose document is in no processable status is refused, and stays
\* with its lease until it is reclaimed and refused again: no step here.
StartRun(w, d) ==
  /\ At(w, "idle")
  /\ jobs[d].waiting > 0
  /\ docs[d] \in {"queued", "processing"}
  /\ jobs' = [jobs EXCEPT ![d].waiting = @ - 1]
  /\ Read(w, d, IF docs[d] = "processing" THEN "extracting" ELSE "leased")
  /\ UNCHANGED <<docs, stored, tasks, corrections, outputs, exports>>

MarkProcessing(w) ==
  /\ At(w, "leased")
  /\ Transition(w, "processing")
  /\ threads' = [threads EXCEPT ![w].pc = "extracting", ![w].seen = "processing"]
  /\ UNCHANGED <<jobs, stored, tasks, corrections, outputs, exports>>

\* The extractor reads some invoice, which is validated against what is stored
\* now.  Untrusted content is an error too.
Extract(w) ==
  /\ At(w, "extracting")
  /\ \E invoice \in Invoice, untrusted \in BOOLEAN :
       LET report == Validated(threads[w].doc, invoice)
       IN threads' = [threads EXCEPT ![w].pc = "extracted",
                        ![w].copy = {[report EXCEPT !.errors = @ \/ untrusted]}]
  /\ UNCHANGED database

RecordSuccess(w) ==
  /\ At(w, "extracted")
  /\ LET d == threads[w].doc
     IN /\ CanTransition(threads[w].seen, "extracted")
        /\ docs' = [docs EXCEPT ![d] = "needs_review"]
        /\ stored' = [stored EXCEPT ![d] = threads[w].copy]
        /\ outputs' = [outputs EXCEPT ![d] = @ \union {e.invoice : e \in threads[w].copy}]
  /\ Finish(w)
  /\ UNCHANGED <<jobs, tasks, corrections, exports>>

\* Mutant: the retry of a failed run is a new job.
RecordFailureAsNewJob(w) ==
  /\ At(w, "extracting")
  /\ Transition(w, "queued")
  /\ jobs' = [jobs EXCEPT ![threads[w].doc] = [made |-> @.made + 1, waiting |-> @.waiting + 1]]
  /\ Finish(w)
  /\ UNCHANGED <<stored, tasks, corrections, outputs, exports>>

\* The provider failed: the job waits for its retry, or fails for good.
RecordFailure(w) ==
  /\ At(w, "extracting")
  /\ \/ /\ Transition(w, "queued")
        /\ jobs' = [jobs EXCEPT ![threads[w].doc].waiting = @ + 1]
     \/ Transition(w, "failed") /\ UNCHANGED jobs
  /\ Finish(w)
  /\ UNCHANGED <<stored, tasks, corrections, outputs, exports>>

-----------------------------------------------------------------------------
(* The reviewer: approve, reject, save.                                      *)

Reviewable(d) == docs[d] = "needs_review"

BeginApprove(r, d) ==
  /\ "approve" \in Commands
  /\ At(r, "idle")
  /\ Reviewable(d)
  /\ Read(r, d, "approve_read")
  /\ UNCHANGED database

\* Mutant: approval does not look at the validation report.
CheckReportIgnored(r) ==
  /\ At(r, "approve_read")
  /\ threads' = [threads EXCEPT ![r].pc = "approve"]
  /\ UNCHANGED database

\* The report is read outside the transaction as well; errors, or no
\* extraction at all, refuse the approval.
CheckReport(r) ==
  /\ At(r, "approve_read")
  /\ IF \E e \in stored[threads[r].doc] : ~e.errors
     THEN threads' = [threads EXCEPT ![r].pc = "approve"]
     ELSE Finish(r)
  /\ UNCHANGED database

CommitApprove(r) ==
  /\ At(r, "approve")
  /\ Transition(r, "approved")
  /\ tasks' = [tasks EXCEPT ![threads[r].doc] = "approved"]
  /\ Finish(r)
  /\ UNCHANGED <<jobs, stored, corrections, outputs, exports>>

BeginReject(r, d) ==
  /\ "reject" \in Commands
  /\ At(r, "idle")
  /\ Reviewable(d)
  /\ Read(r, d, "reject")
  /\ UNCHANGED database

CommitReject(r) ==
  /\ At(r, "reject")
  /\ Transition(r, "rejected")
  /\ tasks' = [tasks EXCEPT ![threads[r].doc] = "rejected"]
  /\ Finish(r)
  /\ UNCHANGED <<jobs, stored, corrections, outputs, exports>>

BeginSave(r, d) ==
  /\ "save" \in Commands
  /\ At(r, "idle")
  /\ Reviewable(d)
  /\ Read(r, d, "save")
  /\ UNCHANGED database

\* Mutant: saving notes reopens the review task.
CommitSaveReopening(r) ==
  /\ At(r, "save")
  /\ tasks' = [tasks EXCEPT ![threads[r].doc] = "open"]
  /\ Finish(r)
  /\ UNCHANGED <<docs, jobs, stored, corrections, outputs, exports>>

\* Notes alone, or notes with corrected data.  The extraction that is
\* corrected and the task are read in the transaction; the status is not.
CommitSave(r) ==
  /\ At(r, "save")
  /\ LET d == threads[r].doc
     IN /\ \/ UNCHANGED <<stored, corrections>>
           \/ \E old \in stored[d], after \in Invoice :
                Capture(d, old.invoice, after) /\ Store(d, Validated(d, after))
        /\ tasks' = [tasks EXCEPT ![d] = IF @ = "none" THEN "open" ELSE @]
  /\ Finish(r)
  /\ UNCHANGED <<docs, jobs, outputs, exports>>

-----------------------------------------------------------------------------
(* The uploader's draft, reprocessing and the CSV download.                  *)

\* Mutant: an exported invoice can still be edited.
BeginDraftOnExported(r, d) ==
  /\ "draft" \in Commands
  /\ At(r, "idle")
  /\ docs[d] \notin {"approved", "rejected"}
  /\ Read(r, d, "draft_read")
  /\ UNCHANGED database

BeginDraft(r, d) ==
  /\ "draft" \in Commands
  /\ At(r, "idle")
  /\ docs[d] \notin Finalized
  /\ Read(r, d, "draft_read")
  /\ UNCHANGED database

\* The extraction the draft replaces is read before the transaction.
ReadDraft(r) ==
  /\ At(r, "draft_read")
  /\ IF stored[threads[r].doc] = {} THEN Finish(r)
     ELSE threads' = [threads EXCEPT ![r].pc = "draft", ![r].copy = stored[threads[r].doc]]
  /\ UNCHANGED database

CommitDraft(r) ==
  /\ At(r, "draft")
  /\ LET d == threads[r].doc
     IN \E old \in threads[r].copy, after \in Invoice :
          Capture(d, old.invoice, after) /\ Store(d, Validated(d, after))
  /\ Finish(r)
  /\ UNCHANGED <<docs, jobs, tasks, outputs, exports>>

BeginReprocess(r, d) ==
  /\ "reprocess" \in Commands
  /\ At(r, "idle")
  /\ docs[d] \in {"extracted", "needs_review", "failed", "cancelled"}
  /\ Read(r, d, "reprocess")
  /\ UNCHANGED database

CommitReprocess(r) ==
  /\ At(r, "reprocess")
  /\ jobs[threads[r].doc].made < MaxJobs
  /\ Transition(r, "queued")
  /\ jobs' = [jobs EXCEPT ![threads[r].doc] = [made |-> @.made + 1, waiting |-> @.waiting + 1]]
  /\ Finish(r)
  /\ UNCHANGED <<stored, tasks, corrections, outputs, exports>>

\* The download selects the approved documents, then reads their invoices,
\* then marks them exported: three steps.  Nothing is selected when nothing
\* is approved.
BeginExport(r) ==
  /\ "export" \in Commands
  /\ At(r, "idle")
  /\ LET approved == {d \in Doc : docs[d] = "approved"}
     IN /\ approved # {}
        /\ threads' = [threads EXCEPT ![r].pc = "export_read",
                         ![r].rows = {[doc |-> d, copy |-> {}] : d \in approved}]
  /\ UNCHANGED database

ReadRows(r) ==
  /\ At(r, "export_read")
  /\ threads' = [threads EXCEPT ![r].pc = "export",
                   ![r].rows = {[row EXCEPT !.copy = stored[row.doc]] : row \in @}]
  /\ UNCHANGED database

\* Mutant: the download leaves the documents approved.
CommitExportUnrecorded(r) ==
  /\ At(r, "export")
  /\ exports' = [d \in Doc |-> IF \E row \in threads[r].rows : row.doc = d
                               THEN Append(exports[d], stored[d]) ELSE exports[d]]
  /\ Finish(r)
  /\ UNCHANGED <<docs, jobs, stored, tasks, corrections, outputs>>

\* transition_many_by_id reads every document again: all of them are exported,
\* or none and the download fails.
CommitExport(r) ==
  /\ At(r, "export")
  /\ LET rows     == threads[r].rows
         selected == {row.doc : row \in rows}
     IN IF \A d \in selected : CanTransition(docs[d], "exported")
        THEN /\ docs' = [d \in Doc |-> IF d \in selected THEN "exported" ELSE docs[d]]
             /\ exports' = [d \in Doc |->
                  IF d \in selected
                  THEN Append(exports[d], (CHOOSE row \in rows : row.doc = d).copy)
                  ELSE exports[d]]
        ELSE UNCHANGED <<docs, exports>>
  /\ Finish(r)
  /\ UNCHANGED <<jobs, stored, tasks, corrections, outputs>>

-----------------------------------------------------------------------------
WorkerStep(w) ==
  \/ \E d \in Doc : StartRun(w, d)
  \/ MarkProcessing(w) \/ Extract(w) \/ RecordSuccess(w) \/ RecordFailure(w)

Decide(r) ==
  \/ \E d \in Doc : BeginApprove(r, d) \/ BeginReject(r, d) \/ BeginSave(r, d)
  \/ CheckReport(r) \/ CommitApprove(r) \/ CommitReject(r) \/ CommitSave(r)

Edit(r) ==
  \/ \E d \in Doc : BeginDraft(r, d) \/ BeginReprocess(r, d)
  \/ ReadDraft(r) \/ CommitDraft(r) \/ CommitReprocess(r)

Export(r) == BeginExport(r) \/ ReadRows(r) \/ CommitExport(r)

Next ==
  \/ \E w \in Worker : WorkerStep(w)
  \/ \E r \in Request : Decide(r) \/ Edit(r) \/ Export(r)

Spec == Init /\ [][Next]_vars

-----------------------------------------------------------------------------
TypeOK ==
  /\ docs \in [Doc -> Status]
  /\ jobs \in [Doc -> [made: 1..MaxJobs, waiting: 0..MaxJobs]]
  /\ stored \in [Doc -> SUBSET Extraction]
  /\ tasks \in [Doc -> {"none", "open", "approved", "rejected"}]
  /\ corrections \in [Doc -> Seq(Correction)]
  /\ threads \in [Thread -> ThreadRow]
  /\ outputs \in [Doc -> SUBSET Invoice]
  /\ exports \in [Doc -> Seq(SUBSET Extraction)]

\* The recorded decision and the status agree, although they are in different
\* tables, were written from copies, and a second decision, a reprocess or a
\* saved note may have raced the first.
DecisionMatchesTask ==
  \A d \in Doc : /\ docs[d] \in {"approved", "exported"} => tasks[d] = "approved"
                 /\ docs[d] = "rejected" => tasks[d] = "rejected"

\* "the original AI extraction, retained across later corrections": all events
\* of a document share one original, which is something extraction stored.
LineageStartsAtExtraction ==
  \A d \in Doc : \A i \in DOMAIN corrections[d] :
    /\ corrections[d][i].original = corrections[d][1].original
    /\ corrections[d][i].original \in outputs[d]

\* Validation errors block approval.
ApprovedInvoicesAreClean ==
  \A d \in Doc : docs[d] \in {"approved", "exported"} =>
    stored[d] # {} /\ \A e \in stored[d] : ~e.errors

\* Approved, rejected and exported records cannot be changed.
FinalizedInvoicesAreImmutable ==
  [][\A d \in Doc : docs[d] \in Finalized => stored'[d] = stored[d]]_vars

\* An invoice is downloaded at most once, with the data that was approved.
ExportedOnceAsApproved ==
  \A d \in Doc : /\ Len(exports[d]) <= 1
                 /\ exports[d] # <<>> => /\ docs[d] = "exported"
                                         /\ exports[d][1] = stored[d]

-----------------------------------------------------------------------------
(* What the code does not guarantee when threads interleave: the README      *)
(* says how each of these fails.                                             *)

\* Two invoices of one vendor and number are never both free of errors: the
\* copy is blocked.
CleanInvoicesAreUnique ==
  \A d, e \in Doc : \A x \in stored[d], y \in stored[e] :
    /\ d # e /\ ~x.errors /\ ~y.errors
    /\ x.invoice.number # NoNumber
    => x.invoice.number # y.invoice.number

\* Every edit a person makes is recorded, with the values immediately before
\* and after the change: stored data changes in a step of a worker, or with its
\* event.
CorrectionsRecordTheChange ==
  [][\A d \in Doc : \A old \in stored[d], new \in stored'[d] :
       (old.invoice # new.invoice /\ \A w \in Worker : threads'[w] = threads[w])
         => /\ Len(corrections'[d]) = Len(corrections[d]) + 1
            /\ corrections'[d][Len(corrections'[d])].before = old.invoice
            /\ corrections'[d][Len(corrections'[d])].after = new.invoice]_vars
=============================================================================
