---------------------------- MODULE ReviewProofs ----------------------------
(***************************************************************************)
(* Proofs about Review, for any documents, API threads and invoices and    *)
(* any finite set of workers: its types, with the bound on waiting jobs;   *)
(* that status and review task agree on every decision; and that every     *)
(* correction leads back to what was extracted.  Then, for one API thread, *)
(* that approved invoices are clean, finalized ones do not change, and     *)
(* each is downloaded once, as approved.                                   *)
(***************************************************************************)
EXTENDS Review, FiniteSetTheorems, TLAPS

Busy == {"leased", "extracting", "extracted"}

Running(d) == {w \in Worker : threads[w].pc \in Busy /\ threads[w].doc = d}

\* A job waits or is in the hands of one worker.
CountInv == \A d \in Doc : jobs[d].waiting + Cardinality(Running(d)) <= jobs[d].made

\* A thread works for a document, unless it is a download.  What a draft is
\* about to replace was extracted, as long as nothing was corrected.
RowOK(th) ==
  /\ th.pc \notin {"idle", "export_read", "export"} => th.doc \in Doc
  /\ th.pc = "draft" /\ corrections[th.doc] = <<>> =>
       \A e \in th.copy : e.invoice \in outputs[th.doc]

RowsInv == \A t \in Thread : RowOK(threads[t])

\* What is stored and was never corrected was extracted.
OriginInv ==
  \A d \in Doc : corrections[d] = <<>> => \A e \in stored[d] : e.invoice \in outputs[d]

IInv == TypeOK /\ CountInv /\ RowsInv /\ OriginInv /\ LineageStartsAtExtraction /\ DecisionMatchesTask

-----------------------------------------------------------------------------
(* Threads and the jobs in their hands.                                      *)

\* What a thread row is made of.
LEMMA ThreadFacts ==
  ASSUME TypeOK, NEW t \in Thread
  PROVE  /\ threads \in [Thread -> ThreadRow] /\ threads[t] \in ThreadRow
         /\ threads[t].doc \in Doc \union {NoDoc} /\ threads[t].seen \in Status \union {Absent}
         /\ threads[t].copy \in SUBSET Extraction
         /\ threads[t].rows \in SUBSET [doc: Doc, copy: SUBSET Extraction]
BY DEF TypeOK, ThreadRow

LEMMA IdleRow == IdleThread \in ThreadRow /\ IdleThread.pc = "idle"
BY DEF IdleThread, ThreadRow

\* Corrections are only appended and outputs only added.
LineageGrows ==
  \A d \in Doc : /\ corrections'[d] = <<>> => corrections[d] = <<>>
                 /\ outputs[d] \subseteq outputs'[d]

\* One thread moves, and what it now holds is right.
LEMMA RowsStay ==
  ASSUME TypeOK, RowsInv, LineageGrows, NEW t \in Thread, NEW th \in ThreadRow,
         threads' = [threads EXCEPT ![t] = th], RowOK(th)'
  PROVE  RowsInv' /\ threads' \in [Thread -> ThreadRow]
<1>1. threads \in [Thread -> ThreadRow]
  BY DEF TypeOK
<1>2. ASSUME NEW u \in Thread PROVE RowOK(threads[u])'
  <2>1. CASE u = t
    <3>1. threads'[u] = th
      BY <1>1, <2>1
    <3>2. QED
      BY <3>1 DEF RowOK
  <2>2. CASE u # t
    <3>1. threads'[u] = threads[u]
      BY <1>1, <2>2
    <3>2. RowOK(threads[u])
      BY DEF RowsInv
    <3>3. QED
      BY <3>1, <3>2 DEF RowOK, LineageGrows
  <2>3. QED
    BY <2>1, <2>2
<1>3. threads' \in [Thread -> ThreadRow]
  BY <1>1
<1>4. QED
  BY <1>2, <1>3 DEF RowsInv

\* A set of workers has a size.
LEMMA RunningFinite ==
  ASSUME NEW d
  PROVE  IsFiniteSet(Running(d)) /\ Cardinality(Running(d)) \in Nat
<1>1. Running(d) \in SUBSET Worker /\ IsFiniteSet(Worker)
  BY ConstantsAssumption DEF Running
<1>2. QED
  BY <1>1, FS_Subset, FS_CardinalityType

\* A request, or a worker that goes on with its job, leaves the jobs where they are.
LEMMA RunningStays ==
  ASSUME TypeOK, NEW t \in Thread, NEW th \in ThreadRow,
         threads' = [threads EXCEPT ![t] = th],
         t \in Worker => /\ th.pc \in Busy <=> threads[t].pc \in Busy
                         /\ th.pc \in Busy => th.doc = threads[t].doc
  PROVE  \A d \in Doc : Running(d)' = Running(d)
<1>1. threads'[t] = th /\ \A u \in Thread : u # t => threads'[u] = threads[u]
  BY ThreadFacts
<1>2. Worker \subseteq Thread
  BY DEF Thread
<1>3. QED
  BY <1>1, <1>2 DEF Running

\* A worker takes a job.
LEMMA RunningStarts ==
  ASSUME TypeOK, NEW w \in Worker, NEW d \in Doc, NEW th \in ThreadRow,
         threads' = [threads EXCEPT ![w] = th], threads[w].pc \notin Busy,
         th.pc \in Busy, th.doc = d
  PROVE  /\ Cardinality(Running(d)') = Cardinality(Running(d)) + 1
         /\ \A e \in Doc : e # d => Running(e)' = Running(e)
<1>1. w \in Thread /\ Worker \subseteq Thread
  BY DEF Thread
<1>2. threads'[w] = th /\ \A u \in Thread : u # w => threads'[u] = threads[u]
  BY <1>1, ThreadFacts
<1>3. w \notin Running(d) /\ Running(d)' = Running(d) \union {w}
  BY <1>1, <1>2 DEF Running
<1>4. \A e \in Doc : e # d => Running(e)' = Running(e)
  BY <1>1, <1>2 DEF Running
<1>5. QED
  BY <1>3, <1>4, RunningFinite, FS_AddElement

\* A worker is done with its job.
LEMMA RunningEnds ==
  ASSUME TypeOK, NEW w \in Worker, NEW d \in Doc,
         threads' = [threads EXCEPT ![w] = IdleThread], threads[w].pc \in Busy,
         threads[w].doc = d
  PROVE  /\ Cardinality(Running(d)') + 1 = Cardinality(Running(d))
         /\ \A e \in Doc : e # d => Running(e)' = Running(e)
<1>1. w \in Thread /\ Worker \subseteq Thread
  BY DEF Thread
<1>2. threads'[w] = IdleThread /\ \A u \in Thread : u # w => threads'[u] = threads[u]
  BY <1>1, ThreadFacts
<1>3. w \in Running(d) /\ Running(d)' = Running(d) \ {w}
  BY <1>1, <1>2, IdleRow DEF Running, Busy
<1>4. \A e \in Doc : e # d => Running(e)' = Running(e)
  BY <1>1, <1>2, IdleRow DEF Running, Busy
<1>5. Cardinality(Running(d)') = Cardinality(Running(d)) - 1
  BY <1>3, RunningFinite, FS_RemoveElement, ZenonT(60)
<1>6. QED
  BY <1>4, <1>5, RunningFinite

-----------------------------------------------------------------------------
(* Steps that only read.                                                     *)

\* Thread t goes on as th and nothing else happens.
Looks(t, th) == threads' = [threads EXCEPT ![t] = th] /\ UNCHANGED database

LEMMA LookingKeeps ==
  ASSUME IInv, NEW t \in Thread, NEW th \in ThreadRow, Looks(t, th), RowOK(th),
         t \in Worker => /\ th.pc \in Busy <=> threads[t].pc \in Busy
                         /\ th.pc \in Busy => th.doc = threads[t].doc
  PROVE  IInv'
<1>1. /\ threads' = [threads EXCEPT ![t] = th] /\ docs' = docs /\ jobs' = jobs
      /\ stored' = stored /\ tasks' = tasks /\ corrections' = corrections
      /\ outputs' = outputs /\ exports' = exports
  BY DEF Looks, database
<1>2. TypeOK /\ RowsInv /\ LineageGrows /\ RowOK(th)'
  BY <1>1 DEF IInv, LineageGrows, RowOK
<1>3. RowsInv' /\ threads' \in [Thread -> ThreadRow]
  BY <1>1, <1>2, RowsStay
<1>4. TypeOK'
  BY <1>1, <1>2, <1>3 DEF TypeOK
<1>5. CountInv'
  BY <1>1, <1>2, RunningStays DEF IInv, CountInv
<1>6. OriginInv' /\ LineageStartsAtExtraction' /\ DecisionMatchesTask'
  BY <1>1 DEF IInv, OriginInv, LineageStartsAtExtraction, DecisionMatchesTask
<1>7. QED
  BY <1>3, <1>4, <1>5, <1>6 DEF IInv

\* A request that ends without having done anything.
LEMMA FinishKeeps ==
  ASSUME IInv, NEW r \in Request, Finish(r), UNCHANGED database
  PROVE  IInv'
<1>1. r \in Thread /\ r \notin Worker
  BY ConstantsAssumption DEF Thread
<1>2. Looks(r, IdleThread) /\ RowOK(IdleThread)
  BY IdleRow DEF Finish, Looks, RowOK
<1>3. QED
  BY <1>1, <1>2, IdleRow, LookingKeeps

\* A request that begins by reading the status.
LEMMA ReadKeeps ==
  ASSUME IInv, NEW r \in Request, NEW d \in Doc, UNCHANGED database,
         NEW pc \in {"approve_read", "reject", "save", "draft_read", "reprocess"}, Read(r, d, pc)
  PROVE  IInv'
<1>1. r \in Thread /\ r \notin Worker
  BY ConstantsAssumption DEF Thread
<1>2. docs[d] \in Status
  BY DEF IInv, TypeOK
<1>3. PICK th \in ThreadRow : th = [IdleThread EXCEPT !.pc = pc, !.doc = d, !.seen = docs[d]]
  BY <1>2, IdleRow DEF ThreadRow
<1>4. Looks(r, th) /\ th.pc = pc /\ th.doc = d
  BY <1>3, IdleRow DEF Read, Looks, ThreadRow, IdleThread
<1>5. RowOK(th)
  BY <1>4 DEF RowOK
<1>6. QED
  BY <1>1, <1>4, <1>5, LookingKeeps

LEMMA BeginKeeps ==
  ASSUME IInv, NEW r \in Request, NEW d \in Doc,
         BeginApprove(r, d) \/ BeginReject(r, d) \/ BeginSave(r, d)
           \/ BeginDraft(r, d) \/ BeginReprocess(r, d)
  PROVE  IInv'
BY ReadKeeps DEF BeginApprove, BeginReject, BeginSave, BeginDraft, BeginReprocess

LEMMA CheckReportKeeps ==
  ASSUME IInv, NEW r \in Request, CheckReport(r)
  PROVE  IInv'
<1>1. r \in Thread /\ r \notin Worker
  BY ConstantsAssumption DEF Thread
<1>2. TypeOK /\ RowOK(threads[r]) /\ threads[r].pc = "approve_read" /\ threads[r] \in ThreadRow
  BY <1>1, ThreadFacts DEF IInv, RowsInv, CheckReport, At
<1>3. CASE Finish(r)
  BY <1>3, FinishKeeps DEF CheckReport
<1>4. CASE threads' = [threads EXCEPT ![r].pc = "approve"]
  <2>1. PICK th \in ThreadRow : th = [threads[r] EXCEPT !.pc = "approve"]
    BY <1>2 DEF ThreadRow
  <2>2. Looks(r, th) /\ th.pc = "approve" /\ th.doc = threads[r].doc
    BY <1>1, <1>2, <1>4, <2>1 DEF CheckReport, Looks, ThreadRow
  <2>3. RowOK(th)
    BY <1>2, <2>2 DEF RowOK
  <2>4. QED
    BY <1>1, <2>2, <2>3, LookingKeeps
<1>5. QED
  BY <1>3, <1>4 DEF CheckReport

\* What a draft is about to replace is what is stored, which OriginInv is about.
LEMMA ReadDraftKeeps ==
  ASSUME IInv, NEW r \in Request, ReadDraft(r)
  PROVE  IInv'
<1>1. r \in Thread /\ r \notin Worker
  BY ConstantsAssumption DEF Thread
<1>2. TypeOK /\ RowOK(threads[r]) /\ threads[r].pc = "draft_read" /\ threads[r] \in ThreadRow
  BY <1>1, ThreadFacts DEF IInv, RowsInv, ReadDraft, At
<1>3. PICK d \in Doc : d = threads[r].doc
  BY <1>2 DEF RowOK
<1>4. CASE Finish(r)
  BY <1>4, FinishKeeps DEF ReadDraft
<1>5. CASE threads' = [threads EXCEPT ![r].pc = "draft", ![r].copy = stored[d]]
  <2>1. stored[d] \in SUBSET Extraction
    BY <1>2 DEF TypeOK
  <2>2. PICK th \in ThreadRow : th = [threads[r] EXCEPT !.pc = "draft", !.copy = stored[d]]
    BY <1>2, <2>1 DEF ThreadRow
  <2>3. Looks(r, th) /\ th.pc = "draft" /\ th.doc = d /\ th.copy = stored[d]
    BY <1>1, <1>2, <1>3, <1>5, <2>2 DEF ReadDraft, Looks, ThreadRow
  <2>4. RowOK(th)
    BY <2>3 DEF RowOK, IInv, OriginInv
  <2>5. QED
    BY <1>1, <2>3, <2>4, LookingKeeps
<1>6. QED
  BY <1>3, <1>4, <1>5 DEF ReadDraft

LEMMA ExportReadsKeep ==
  ASSUME IInv, NEW r \in Request, BeginExport(r) \/ ReadRows(r)
  PROVE  IInv'
<1>1. r \in Thread /\ r \notin Worker
  BY ConstantsAssumption DEF Thread
<1>2. TypeOK /\ threads[r] \in ThreadRow
  BY <1>1, ThreadFacts DEF IInv
<1>3. PICK pc \in {"export_read", "export"}, rows \in SUBSET [doc: Doc, copy: SUBSET Extraction] :
        threads' = [threads EXCEPT ![r].pc = pc, ![r].rows = rows]
  <2>1. CASE BeginExport(r)
    <3>1. {[doc |-> d, copy |-> {}] : d \in {e \in Doc : docs[e] = "approved"}}
            \in SUBSET [doc: Doc, copy: SUBSET Extraction]
      OBVIOUS
    <3>2. threads' = [threads EXCEPT ![r].pc = "export_read",
                        ![r].rows = {[doc |-> d, copy |-> {}] : d \in {e \in Doc : docs[e] = "approved"}}]
      BY <2>1 DEF BeginExport
    <3>3. QED
      BY <3>1, <3>2
  <2>2. CASE ReadRows(r)
    <3>1. {[row EXCEPT !.copy = stored[row.doc]] : row \in threads[r].rows}
            \in SUBSET [doc: Doc, copy: SUBSET Extraction]
      BY <1>1, <1>2, ThreadFacts DEF TypeOK
    <3>2. threads' = [threads EXCEPT ![r].pc = "export",
                        ![r].rows = {[row EXCEPT !.copy = stored[row.doc]] : row \in threads[r].rows}]
      BY <1>1, <1>2, <2>2 DEF ReadRows, TypeOK
    <3>3. QED
      BY <3>1, <3>2
  <2>3. QED
    BY <2>1, <2>2
<1>4. PICK th \in ThreadRow : th = [threads[r] EXCEPT !.pc = pc, !.rows = rows]
  BY <1>2, <1>3 DEF ThreadRow
<1>5. Looks(r, th) /\ th.pc = pc
  BY <1>1, <1>2, <1>3, <1>4 DEF BeginExport, ReadRows, Looks, ThreadRow, TypeOK
<1>6. RowOK(th)
  BY <1>5 DEF RowOK
<1>7. QED
  BY <1>1, <1>5, <1>6, LookingKeeps

LEMMA ExtractKeeps ==
  ASSUME IInv, NEW w \in Worker, Extract(w)
  PROVE  IInv'
<1>1. w \in Thread
  BY DEF Thread
<1>2. TypeOK /\ RowOK(threads[w]) /\ threads[w].pc = "extracting" /\ threads[w] \in ThreadRow
  BY <1>1, ThreadFacts DEF IInv, RowsInv, Extract, At
<1>3. PICK copy \in SUBSET Extraction :
        threads' = [threads EXCEPT ![w].pc = "extracted", ![w].copy = copy]
  BY DEF Extract, Validated, Extraction
<1>4. PICK th \in ThreadRow : th = [threads[w] EXCEPT !.pc = "extracted", !.copy = copy]
  BY <1>2 DEF ThreadRow
<1>5. Looks(w, th) /\ th.pc = "extracted" /\ th.doc = threads[w].doc
  BY <1>1, <1>2, <1>3, <1>4, ZenonT(60) DEF Extract, Looks, ThreadRow
<1>6. RowOK(th)
  BY <1>2, <1>5 DEF RowOK
<1>7. QED
  BY <1>1, <1>2, <1>5, <1>6, LookingKeeps DEF Busy

-----------------------------------------------------------------------------
(* Steps of the workers that write.                                          *)

LEMMA StartRunKeeps ==
  ASSUME IInv, NEW w \in Worker, NEW d \in Doc, StartRun(w, d)
  PROVE  IInv'
<1>1. w \in Thread /\ TypeOK /\ RowsInv /\ threads[w].pc = "idle"
  BY DEF Thread, IInv, StartRun, At
<1>2. /\ docs' = docs /\ stored' = stored /\ tasks' = tasks /\ corrections' = corrections
      /\ outputs' = outputs /\ exports' = exports
      /\ jobs' = [jobs EXCEPT ![d].waiting = @ - 1] /\ jobs[d].waiting > 0
  BY DEF StartRun
<1>3. PICK th \in ThreadRow :
        th.pc \in Busy /\ th.doc = d /\ threads' = [threads EXCEPT ![w] = th]
  <2>1. PICK pc \in {"leased", "extracting"} : Read(w, d, pc)
    BY DEF StartRun
  <2>2. docs[d] \in Status
    BY <1>1 DEF TypeOK
  <2>3. PICK th \in ThreadRow : th = [IdleThread EXCEPT !.pc = pc, !.doc = d, !.seen = docs[d]]
    BY <2>2, IdleRow DEF ThreadRow
  <2>4. QED
    BY <2>1, <2>3, IdleRow DEF Read, ThreadRow, Busy, IdleThread
<1>4. LineageGrows /\ RowOK(th)'
  BY <1>2, <1>3 DEF LineageGrows, RowOK, Busy
<1>5. RowsInv' /\ threads' \in [Thread -> ThreadRow]
  BY <1>1, <1>3, <1>4, RowsStay
<1>6. /\ jobs \in [Doc -> [made: 1..MaxJobs, waiting: 0..MaxJobs]]
      /\ jobs[d].waiting \in 1..MaxJobs /\ jobs[d].waiting - 1 \in 0..MaxJobs
  BY <1>1, <1>2, ConstantsAssumption DEF TypeOK
<1>7. /\ jobs' \in [Doc -> [made: 1..MaxJobs, waiting: 0..MaxJobs]]
      /\ jobs'[d].waiting = jobs[d].waiting - 1 /\ jobs'[d].made = jobs[d].made
      /\ \A e \in Doc : e # d => jobs'[e] = jobs[e]
  BY <1>2, <1>6
<1>8. TypeOK'
  BY <1>1, <1>2, <1>5, <1>7 DEF TypeOK
<1>9. /\ Cardinality(Running(d)') = Cardinality(Running(d)) + 1
      /\ \A e \in Doc : e # d => Running(e)' = Running(e)
  BY <1>1, <1>3, RunningStarts DEF Busy
<1>10. CountInv'
  <2>1. ASSUME NEW e \in Doc PROVE jobs'[e].waiting + Cardinality(Running(e)') <= jobs'[e].made
    <3>1. jobs[e].waiting + Cardinality(Running(e)) <= jobs[e].made
      BY DEF IInv, CountInv
    <3>2. CASE e # d
      BY <1>7, <1>9, <3>1, <3>2
    <3>3. CASE e = d
      <4>1. jobs'[d].waiting + Cardinality(Running(d)') = jobs[d].waiting + Cardinality(Running(d))
        BY <1>6, <1>7, <1>9, RunningFinite
      <4>2. QED
        BY <1>7, <3>1, <3>3, <4>1
    <3>4. QED
      BY <3>2, <3>3
  <2>2. QED
    BY <2>1 DEF CountInv
<1>11. OriginInv' /\ LineageStartsAtExtraction' /\ DecisionMatchesTask'
  BY <1>2 DEF IInv, OriginInv, LineageStartsAtExtraction, DecisionMatchesTask
<1>12. QED
  BY <1>5, <1>8, <1>10, <1>11 DEF IInv

LEMMA MarkProcessingKeeps ==
  ASSUME IInv, NEW w \in Worker, MarkProcessing(w)
  PROVE  IInv'
<1>1. w \in Thread
  BY DEF Thread
<1>2. TypeOK /\ RowsInv /\ RowOK(threads[w]) /\ threads[w].pc = "leased" /\ threads[w] \in ThreadRow
  BY <1>1, ThreadFacts DEF IInv, RowsInv, MarkProcessing, At
<1>3. PICK d \in Doc : d = threads[w].doc
  BY <1>2 DEF RowOK
<1>4. /\ docs' = [docs EXCEPT ![d] = "processing"]
      /\ jobs' = jobs /\ stored' = stored /\ tasks' = tasks /\ corrections' = corrections
      /\ outputs' = outputs /\ exports' = exports
      /\ threads' = [threads EXCEPT ![w].pc = "extracting", ![w].seen = "processing"]
  BY <1>3 DEF MarkProcessing, Transition
<1>5. PICK th \in ThreadRow : th = [threads[w] EXCEPT !.pc = "extracting", !.seen = "processing"]
  BY <1>2 DEF ThreadRow, Status
<1>6. threads' = [threads EXCEPT ![w] = th] /\ th.pc = "extracting" /\ th.doc = d
  BY <1>1, <1>2, <1>3, <1>4, <1>5 DEF ThreadRow
<1>7. LineageGrows /\ RowOK(th)'
  BY <1>4, <1>6 DEF LineageGrows, RowOK
<1>8. RowsInv' /\ threads' \in [Thread -> ThreadRow]
  BY <1>1, <1>2, <1>6, <1>7, RowsStay
<1>9. TypeOK'
  BY <1>2, <1>4, <1>8 DEF TypeOK, Status
<1>10. CountInv'
  <2>1. th.pc \in Busy /\ threads[w].pc \in Busy /\ th.doc = threads[w].doc
    BY <1>2, <1>3, <1>6 DEF Busy
  <2>2. \A e \in Doc : Running(e)' = Running(e)
    BY <1>1, <1>2, <1>6, <2>1, RunningStays
  <2>3. QED
    BY <1>4, <2>2 DEF IInv, CountInv
<1>11. OriginInv' /\ LineageStartsAtExtraction'
  BY <1>4 DEF IInv, OriginInv, LineageStartsAtExtraction
<1>12. DecisionMatchesTask'
  BY <1>2, <1>4 DEF IInv, DecisionMatchesTask, TypeOK
<1>13. QED
  BY <1>8, <1>9, <1>10, <1>11, <1>12 DEF IInv

\* A worker is done with its job: at most one job of its document is added to
\* those that wait.
LEMMA WorkerEndsKeeps ==
  ASSUME IInv, NEW w \in Worker, NEW d \in Doc, Finish(w),
         threads[w].pc \in Busy, threads[w].doc = d,
         NEW more \in {0, 1}, jobs' = [jobs EXCEPT ![d].waiting = @ + more],
         docs' \in [Doc -> Status], stored' \in [Doc -> SUBSET Extraction],
         outputs' \in [Doc -> SUBSET Invoice], LineageGrows,
         OriginInv', LineageStartsAtExtraction', DecisionMatchesTask',
         UNCHANGED <<tasks, corrections, exports>>
  PROVE  IInv'
<1>1. w \in Thread /\ TypeOK /\ RowsInv
  BY DEF Thread, IInv
<1>2. threads' = [threads EXCEPT ![w] = IdleThread] /\ RowOK(IdleThread)'
  BY IdleRow DEF Finish, RowOK
<1>3. RowsInv' /\ threads' \in [Thread -> ThreadRow]
  BY <1>1, <1>2, IdleRow, RowsStay
<1>4. /\ Cardinality(Running(d)') + 1 = Cardinality(Running(d))
      /\ \A e \in Doc : e # d => Running(e)' = Running(e)
  BY <1>1, <1>2, RunningEnds
<1>5. /\ Cardinality(Running(d)) \in Nat /\ Cardinality(Running(d)') \in Nat
      /\ jobs \in [Doc -> [made: 1..MaxJobs, waiting: 0..MaxJobs]]
  <2>1. Cardinality(Running(d)) \in Nat /\ Cardinality(Running(d)) # 0
    <3>1. Cardinality(Running(d)) \in Nat /\ IsFiniteSet(Running(d))
      BY RunningFinite
    <3>2. w \in Running(d)
      BY <1>1 DEF Running
    <3>3. QED
      BY <3>1, <3>2, FS_EmptySet
  <2>2. Running(d)' \in SUBSET Worker
    BY DEF Running
  <2>3. Cardinality(Running(d)') \in Nat
    BY <2>2, ConstantsAssumption, FS_Subset, FS_CardinalityType
  <2>4. QED
    BY <1>1, <2>1, <2>3 DEF TypeOK
<1>6. jobs[d].waiting + Cardinality(Running(d)) <= jobs[d].made
  BY DEF IInv, CountInv
<1>7. jobs[d].waiting + more \in 0..MaxJobs
        /\ jobs[d].waiting + more + Cardinality(Running(d)') <= jobs[d].made
  <2>1. jobs[d].made \in 1..MaxJobs /\ jobs[d].waiting \in 0..MaxJobs /\ more \in 0..1
    BY <1>5
  <2>2. QED
    BY <1>4, <1>5, <1>6, <2>1, ConstantsAssumption
<1>8. /\ jobs' \in [Doc -> [made: 1..MaxJobs, waiting: 0..MaxJobs]]
      /\ jobs'[d].waiting = jobs[d].waiting + more /\ jobs'[d].made = jobs[d].made
      /\ \A e \in Doc : e # d => jobs'[e] = jobs[e]
  BY <1>5, <1>7
<1>9. TypeOK'
  BY <1>1, <1>3, <1>8 DEF TypeOK
<1>10. CountInv'
  <2>1. ASSUME NEW e \in Doc PROVE jobs'[e].waiting + Cardinality(Running(e)') <= jobs'[e].made
    <3>1. CASE e # d
      BY <1>4, <1>8, <3>1 DEF IInv, CountInv
    <3>2. CASE e = d
      BY <1>7, <1>8, <3>2
    <3>3. QED
      BY <3>1, <3>2
  <2>2. QED
    BY <2>1 DEF CountInv
<1>11. QED
  BY <1>3, <1>9, <1>10 DEF IInv

LEMMA RecordSuccessKeeps ==
  ASSUME IInv, NEW w \in Worker, RecordSuccess(w)
  PROVE  IInv'
<1>1. w \in Thread
  BY DEF Thread
<1>2. TypeOK /\ RowOK(threads[w]) /\ threads[w].pc = "extracted" /\ Finish(w)
  BY <1>1 DEF IInv, RowsInv, RecordSuccess, At
<1>3. PICK d \in Doc, copy \in SUBSET Extraction : d = threads[w].doc /\ copy = threads[w].copy
  BY <1>1, <1>2, ThreadFacts DEF RowOK
<1>4. /\ docs' = [docs EXCEPT ![d] = "needs_review"] /\ stored' = [stored EXCEPT ![d] = copy]
      /\ outputs' = [outputs EXCEPT ![d] = @ \union {e.invoice : e \in copy}]
      /\ jobs' = jobs /\ tasks' = tasks /\ corrections' = corrections /\ exports' = exports
  BY <1>3 DEF RecordSuccess
<1>5. /\ jobs' = [jobs EXCEPT ![d].waiting = @ + 0]
      /\ docs' \in [Doc -> Status] /\ stored' \in [Doc -> SUBSET Extraction]
  BY <1>2, <1>4 DEF TypeOK, Status
<1>6. outputs' \in [Doc -> SUBSET Invoice] /\ outputs'[d] = outputs[d] \union {e.invoice : e \in copy}
        /\ \A e \in Doc : e # d => outputs'[e] = outputs[e]
  <2>1. {e.invoice : e \in copy} \subseteq Invoice /\ outputs \in [Doc -> SUBSET Invoice]
    BY <1>2 DEF Extraction, TypeOK
  <2>2. QED
    BY <1>4, <2>1
<1>7. LineageGrows
  BY <1>4, <1>6 DEF LineageGrows
<1>8. OriginInv'
  BY <1>2, <1>4, <1>6 DEF IInv, OriginInv, TypeOK
<1>9. LineageStartsAtExtraction'
  BY <1>4, <1>6 DEF IInv, LineageStartsAtExtraction
<1>10. DecisionMatchesTask'
  BY <1>2, <1>4 DEF IInv, DecisionMatchesTask, TypeOK
<1>11. threads[w].pc \in Busy
  BY <1>2 DEF Busy
<1>12. QED
  BY <1>2, <1>3, <1>4, <1>5, <1>6, <1>7, <1>8, <1>9, <1>10, <1>11, WorkerEndsKeeps

LEMMA RecordFailureKeeps ==
  ASSUME IInv, NEW w \in Worker, RecordFailure(w)
  PROVE  IInv'
<1>1. w \in Thread
  BY DEF Thread
<1>2. TypeOK /\ RowOK(threads[w]) /\ threads[w].pc = "extracting" /\ Finish(w)
  BY <1>1 DEF IInv, RowsInv, RecordFailure, At
<1>3. PICK d \in Doc : d = threads[w].doc
  BY <1>2 DEF RowOK
<1>4. PICK more \in {0, 1}, target \in {"queued", "failed"} :
        jobs' = [jobs EXCEPT ![d].waiting = @ + more] /\ docs' = [docs EXCEPT ![d] = target]
  <2>1. CASE Transition(w, "queued") /\ jobs' = [jobs EXCEPT ![threads[w].doc].waiting = @ + 1]
    BY <1>3, <2>1 DEF Transition
  <2>2. CASE Transition(w, "failed") /\ UNCHANGED jobs
    <3>1. jobs' = [jobs EXCEPT ![d].waiting = @ + 0]
      BY <1>2, <2>2 DEF TypeOK
    <3>2. QED
      BY <1>3, <2>2, <3>1 DEF Transition
  <2>3. QED
    BY <2>1, <2>2 DEF RecordFailure
<1>5. /\ stored' = stored /\ tasks' = tasks /\ corrections' = corrections
      /\ outputs' = outputs /\ exports' = exports
  BY DEF RecordFailure
<1>6. /\ docs' \in [Doc -> Status] /\ stored' \in [Doc -> SUBSET Extraction]
      /\ outputs' \in [Doc -> SUBSET Invoice] /\ LineageGrows
  BY <1>2, <1>4, <1>5 DEF TypeOK, Status, LineageGrows
<1>7. OriginInv' /\ LineageStartsAtExtraction'
  BY <1>5 DEF IInv, OriginInv, LineageStartsAtExtraction
<1>8. DecisionMatchesTask'
  BY <1>2, <1>4, <1>5 DEF IInv, DecisionMatchesTask, TypeOK
<1>9. threads[w].pc \in Busy
  BY <1>2 DEF Busy
<1>10. QED
  BY <1>2, <1>3, <1>4, <1>5, <1>6, <1>7, <1>8, <1>9, WorkerEndsKeeps

-----------------------------------------------------------------------------
(* Steps of the requests that write.                                         *)

\* A request ends, and what it wrote is right.
LEMMA RequestEndsKeeps ==
  ASSUME IInv, NEW r \in Request, Finish(r),
         docs' \in [Doc -> Status], jobs' \in [Doc -> [made: 1..MaxJobs, waiting: 0..MaxJobs]],
         stored' \in [Doc -> SUBSET Extraction],
         tasks' \in [Doc -> {"none", "open", "approved", "rejected"}],
         corrections' \in [Doc -> Seq(Correction)], exports' \in [Doc -> Seq(SUBSET Extraction)],
         UNCHANGED outputs, LineageGrows,
         \A d \in Doc : \/ jobs'[d] = jobs[d]
                        \/ /\ jobs'[d].made = jobs[d].made + 1
                           /\ jobs'[d].waiting = jobs[d].waiting + 1,
         OriginInv', LineageStartsAtExtraction', DecisionMatchesTask'
  PROVE  IInv'
<1>1. r \in Thread /\ r \notin Worker /\ TypeOK /\ RowsInv
  BY ConstantsAssumption DEF Thread, IInv
<1>2. threads' = [threads EXCEPT ![r] = IdleThread] /\ RowOK(IdleThread)'
  BY IdleRow DEF Finish, RowOK
<1>3. RowsInv' /\ threads' \in [Thread -> ThreadRow]
  BY <1>1, <1>2, IdleRow, RowsStay
<1>4. TypeOK'
  BY <1>1, <1>3 DEF TypeOK
<1>5. \A d \in Doc : Running(d)' = Running(d)
  BY <1>1, <1>2, IdleRow, RunningStays
<1>6. CountInv'
  <2>1. ASSUME NEW d \in Doc PROVE jobs'[d].waiting + Cardinality(Running(d)') <= jobs'[d].made
    <3>1. jobs[d].waiting + Cardinality(Running(d)) <= jobs[d].made
      BY DEF IInv, CountInv
    <3>2. jobs[d].waiting \in Nat /\ jobs[d].made \in Nat /\ Cardinality(Running(d)) \in Nat
      BY <1>1, RunningFinite, ConstantsAssumption DEF TypeOK
    <3>3. CASE jobs'[d] = jobs[d]
      BY <1>5, <3>1, <3>3
    <3>4. CASE jobs'[d].made = jobs[d].made + 1 /\ jobs'[d].waiting = jobs[d].waiting + 1
      BY <1>5, <3>1, <3>2, <3>4, SMTT(30)
    <3>5. QED
      BY <3>3, <3>4
  <2>2. QED
    BY <2>1 DEF CountInv
<1>7. QED
  BY <1>3, <1>4, <1>6 DEF IInv

\* A decision writes the status and the task together.
LEMMA DecideKeeps ==
  ASSUME IInv, NEW r \in Request, CommitApprove(r) \/ CommitReject(r)
  PROVE  IInv'
<1>1. r \in Thread
  BY DEF Thread
<1>2. TypeOK /\ RowOK(threads[r]) /\ threads[r].pc \in {"approve", "reject"} /\ Finish(r)
  BY <1>1 DEF IInv, RowsInv, CommitApprove, CommitReject, At
<1>3. PICK d \in Doc : d = threads[r].doc
  BY <1>2 DEF RowOK
<1>4. PICK decision \in {"approved", "rejected"} :
        docs' = [docs EXCEPT ![d] = decision] /\ tasks' = [tasks EXCEPT ![d] = decision]
  BY <1>3 DEF CommitApprove, CommitReject, Transition
<1>5. /\ jobs' = jobs /\ stored' = stored /\ corrections' = corrections
      /\ outputs' = outputs /\ exports' = exports
  BY DEF CommitApprove, CommitReject
<1>6. /\ docs' \in [Doc -> Status] /\ tasks' \in [Doc -> {"none", "open", "approved", "rejected"}]
      /\ jobs' \in [Doc -> [made: 1..MaxJobs, waiting: 0..MaxJobs]]
      /\ stored' \in [Doc -> SUBSET Extraction] /\ corrections' \in [Doc -> Seq(Correction)]
      /\ exports' \in [Doc -> Seq(SUBSET Extraction)] /\ LineageGrows
  BY <1>2, <1>4, <1>5 DEF TypeOK, Status, LineageGrows
<1>7. OriginInv' /\ LineageStartsAtExtraction'
  BY <1>5 DEF IInv, OriginInv, LineageStartsAtExtraction
<1>8. DecisionMatchesTask'
  BY <1>2, <1>4 DEF IInv, DecisionMatchesTask, TypeOK
<1>9. QED
  BY <1>2, <1>5, <1>6, <1>7, <1>8, RequestEndsKeeps

\* An edit of what was extracted, or of what was corrected, keeps the lineage.
LEMMA CaptureKeeps ==
  ASSUME IInv, NEW d \in Doc, NEW before \in Invoice, NEW after \in Invoice,
         NEW extraction \in Extraction, extraction.invoice = after,
         corrections[d] = <<>> => before \in outputs[d],
         Capture(d, before, after), Store(d, extraction), UNCHANGED outputs
  PROVE  /\ corrections' \in [Doc -> Seq(Correction)] /\ stored' \in [Doc -> SUBSET Extraction]
         /\ LineageGrows /\ OriginInv' /\ LineageStartsAtExtraction'
<1>1. /\ corrections \in [Doc -> Seq(Correction)] /\ stored \in [Doc -> SUBSET Extraction]
      /\ OriginInv /\ LineageStartsAtExtraction
  BY DEF IInv, TypeOK
<1>2. /\ stored' = [stored EXCEPT ![d] = {extraction}] /\ stored' \in [Doc -> SUBSET Extraction]
      /\ outputs' = outputs
  BY <1>1 DEF Store
<1>3. CASE before = after
  <2>1. corrections' = corrections
    BY <1>3 DEF Capture
  <2>2. LineageGrows /\ LineageStartsAtExtraction'
    BY <1>1, <1>2, <2>1 DEF LineageGrows, LineageStartsAtExtraction
  <2>3. OriginInv'
    BY <1>1, <1>2, <1>3, <2>1 DEF OriginInv
  <2>4. QED
    BY <1>1, <1>2, <2>1, <2>2, <2>3
<1>4. CASE before # after
  <2>1. PICK event \in Correction :
          /\ corrections' = [corrections EXCEPT ![d] = Append(@, event)]
          /\ event.original = IF corrections[d] = <<>> THEN before ELSE corrections[d][1].original
    <3>1. corrections[d] # <<>> => corrections[d][1] \in Correction
      BY <1>1
    <3>2. PICK original \in Invoice :
            original = IF corrections[d] = <<>> THEN before ELSE corrections[d][1].original
      BY <3>1 DEF Correction
    <3>3. [original |-> original, before |-> before, after |-> after] \in Correction
      BY DEF Correction
    <3>4. QED
      BY <1>4, <3>2, <3>3 DEF Capture
  <2>2. /\ corrections' \in [Doc -> Seq(Correction)]
        /\ corrections'[d] = Append(corrections[d], event)
        /\ \A e \in Doc : e # d => corrections'[e] = corrections[e]
    BY <1>1, <2>1
  <2>3. corrections'[d] # <<>> /\ corrections[d] \in Seq(Correction)
    BY <1>1, <2>2
  <2>4. LineageGrows
    BY <1>2, <2>2, <2>3 DEF LineageGrows
  <2>5. OriginInv'
    BY <1>1, <1>2, <2>2, <2>3 DEF OriginInv
  <2>6. LineageStartsAtExtraction'
    <3>1. ASSUME NEW e \in Doc, NEW i \in DOMAIN corrections'[e]
          PROVE  /\ corrections'[e][i].original = corrections'[e][1].original
                 /\ corrections'[e][i].original \in outputs'[e]
      <4>1. CASE e # d
        BY <1>1, <1>2, <2>2, <3>1, <4>1 DEF LineageStartsAtExtraction
      <4>2. CASE e = d /\ corrections[d] = <<>>
        BY <1>2, <2>1, <2>2, <3>1, <4>2
      <4>3. CASE e = d /\ corrections[d] # <<>>
        <5>1. /\ corrections'[d][1] = corrections[d][1] /\ 1 \in DOMAIN corrections[d]
              /\ (i \in DOMAIN corrections[d] /\ corrections'[d][i] = corrections[d][i])
                   \/ corrections'[d][i] = event
          BY <2>2, <2>3, <3>1, <4>3
        <5>2. QED
          BY <1>1, <1>2, <2>1, <4>3, <5>1 DEF LineageStartsAtExtraction
      <4>4. QED
        BY <4>1, <4>2, <4>3
    <3>2. QED
      BY <3>1 DEF LineageStartsAtExtraction
  <2>7. QED
    BY <1>2, <2>2, <2>4, <2>5, <2>6
<1>5. QED
  BY <1>3, <1>4

LEMMA CommitDraftKeeps ==
  ASSUME IInv, NEW r \in Request, CommitDraft(r)
  PROVE  IInv'
<1>1. r \in Thread
  BY DEF Thread
<1>2. TypeOK /\ RowOK(threads[r]) /\ threads[r].pc = "draft" /\ Finish(r)
  BY <1>1 DEF IInv, RowsInv, CommitDraft, At
<1>3. PICK d \in Doc : d = threads[r].doc
  BY <1>2 DEF RowOK
<1>4. PICK old \in threads[r].copy, after \in Invoice :
        Capture(d, old.invoice, after) /\ Store(d, Validated(d, after))
  BY <1>3 DEF CommitDraft
<1>5. old.invoice \in Invoice /\ (corrections[d] = <<>> => old.invoice \in outputs[d])
  BY <1>1, <1>2, <1>3, <1>4, ThreadFacts DEF RowOK, Extraction
<1>6. Validated(d, after) \in Extraction /\ Validated(d, after).invoice = after
  BY DEF Validated, Extraction
<1>7. docs' = docs /\ jobs' = jobs /\ tasks' = tasks /\ outputs' = outputs /\ exports' = exports
  BY DEF CommitDraft
<1>8. /\ corrections' \in [Doc -> Seq(Correction)] /\ stored' \in [Doc -> SUBSET Extraction]
      /\ LineageGrows /\ OriginInv' /\ LineageStartsAtExtraction'
  BY <1>4, <1>5, <1>6, <1>7, CaptureKeeps
<1>9. DecisionMatchesTask'
  BY <1>7 DEF IInv, DecisionMatchesTask
<1>10. /\ docs' \in [Doc -> Status] /\ jobs' \in [Doc -> [made: 1..MaxJobs, waiting: 0..MaxJobs]]
       /\ tasks' \in [Doc -> {"none", "open", "approved", "rejected"}]
       /\ exports' \in [Doc -> Seq(SUBSET Extraction)]
  BY <1>2, <1>7 DEF TypeOK
<1>11. QED
  BY <1>2, <1>7, <1>8, <1>9, <1>10, RequestEndsKeeps

\* Saved notes open a task only where there was none, so where no decision was made.
LEMMA CommitSaveKeeps ==
  ASSUME IInv, NEW r \in Request, CommitSave(r)
  PROVE  IInv'
<1>1. r \in Thread
  BY DEF Thread
<1>2. TypeOK /\ RowOK(threads[r]) /\ threads[r].pc = "save" /\ Finish(r)
  BY <1>1 DEF IInv, RowsInv, CommitSave, At
<1>3. PICK d \in Doc : d = threads[r].doc
  BY <1>2 DEF RowOK
<1>4. /\ docs' = docs /\ jobs' = jobs /\ outputs' = outputs /\ exports' = exports
      /\ tasks' = [tasks EXCEPT ![d] = IF @ = "none" THEN "open" ELSE @]
  BY <1>3 DEF CommitSave
<1>5. /\ corrections' \in [Doc -> Seq(Correction)] /\ stored' \in [Doc -> SUBSET Extraction]
      /\ LineageGrows /\ OriginInv' /\ LineageStartsAtExtraction'
  <2>1. CASE UNCHANGED <<stored, corrections>>
    BY <1>2, <1>4, <2>1
    DEF IInv, TypeOK, LineageGrows, OriginInv, LineageStartsAtExtraction
  <2>2. CASE \E old \in stored[d], after \in Invoice :
               Capture(d, old.invoice, after) /\ Store(d, Validated(d, after))
    <3>1. PICK old \in stored[d], after \in Invoice :
            Capture(d, old.invoice, after) /\ Store(d, Validated(d, after))
      BY <2>2
    <3>2. old.invoice \in Invoice /\ (corrections[d] = <<>> => old.invoice \in outputs[d])
      BY <1>2, <3>1 DEF IInv, OriginInv, TypeOK, Extraction
    <3>3. Validated(d, after) \in Extraction /\ Validated(d, after).invoice = after
      BY DEF Validated, Extraction
    <3>4. QED
      BY <1>4, <3>1, <3>2, <3>3, CaptureKeeps
  <2>3. QED
    BY <1>3, <2>1, <2>2 DEF CommitSave
<1>6. DecisionMatchesTask'
  BY <1>2, <1>4 DEF IInv, DecisionMatchesTask, TypeOK
<1>7. /\ docs' \in [Doc -> Status] /\ jobs' \in [Doc -> [made: 1..MaxJobs, waiting: 0..MaxJobs]]
      /\ tasks' \in [Doc -> {"none", "open", "approved", "rejected"}]
      /\ exports' \in [Doc -> Seq(SUBSET Extraction)]
  BY <1>2, <1>4 DEF TypeOK
<1>8. QED
  BY <1>2, <1>4, <1>5, <1>6, <1>7, RequestEndsKeeps

LEMMA CommitReprocessKeeps ==
  ASSUME IInv, NEW r \in Request, CommitReprocess(r)
  PROVE  IInv'
<1>1. r \in Thread
  BY DEF Thread
<1>2. TypeOK /\ CountInv /\ RowOK(threads[r]) /\ threads[r].pc = "reprocess" /\ Finish(r)
  BY <1>1 DEF IInv, RowsInv, CommitReprocess, At
<1>3. PICK d \in Doc : d = threads[r].doc
  BY <1>2 DEF RowOK
<1>4. /\ docs' = [docs EXCEPT ![d] = "queued"] /\ jobs[d].made < MaxJobs
      /\ jobs' = [jobs EXCEPT ![d] = [made |-> @.made + 1, waiting |-> @.waiting + 1]]
      /\ stored' = stored /\ tasks' = tasks /\ corrections' = corrections
      /\ outputs' = outputs /\ exports' = exports
  BY <1>3 DEF CommitReprocess, Transition
<1>5. jobs[d].made + 1 \in 1..MaxJobs /\ jobs[d].waiting + 1 \in 0..MaxJobs
  <2>1. jobs[d].waiting + Cardinality(Running(d)) <= jobs[d].made /\ Cardinality(Running(d)) \in Nat
    BY <1>2, RunningFinite DEF CountInv
  <2>2. jobs[d].made \in 1..MaxJobs /\ jobs[d].waiting \in 0..MaxJobs
    BY <1>2 DEF TypeOK
  <2>3. QED
    BY <1>4, <2>1, <2>2, ConstantsAssumption
<1>6. jobs' \in [Doc -> [made: 1..MaxJobs, waiting: 0..MaxJobs]]
  BY <1>2, <1>4, <1>5 DEF TypeOK
<1>7. \A e \in Doc : \/ jobs'[e] = jobs[e]
                     \/ jobs'[e].made = jobs[e].made + 1 /\ jobs'[e].waiting = jobs[e].waiting + 1
  BY <1>2, <1>4 DEF TypeOK
<1>8. /\ docs' \in [Doc -> Status] /\ tasks' \in [Doc -> {"none", "open", "approved", "rejected"}]
      /\ stored' \in [Doc -> SUBSET Extraction] /\ corrections' \in [Doc -> Seq(Correction)]
      /\ exports' \in [Doc -> Seq(SUBSET Extraction)] /\ LineageGrows
  BY <1>2, <1>4 DEF TypeOK, Status, LineageGrows
<1>9. OriginInv' /\ LineageStartsAtExtraction'
  BY <1>4 DEF IInv, OriginInv, LineageStartsAtExtraction
<1>10. DecisionMatchesTask'
  BY <1>2, <1>4 DEF IInv, DecisionMatchesTask, TypeOK
<1>11. QED
  BY <1>2, <1>4, <1>6, <1>7, <1>8, <1>9, <1>10, RequestEndsKeeps

\* A download only exports what is approved at that moment.
LEMMA CommitExportKeeps ==
  ASSUME IInv, NEW r \in Request, CommitExport(r)
  PROVE  IInv'
<1>1. r \in Thread
  BY DEF Thread
<1>2. TypeOK /\ Finish(r)
  BY DEF IInv, CommitExport
<1>3. PICK rows \in SUBSET [doc: Doc, copy: SUBSET Extraction] : rows = threads[r].rows
  BY <1>1, <1>2, ThreadFacts
<1>4. PICK selected : selected = {row.doc : row \in rows}
  OBVIOUS
<1>5. /\ jobs' = jobs /\ stored' = stored /\ tasks' = tasks /\ corrections' = corrections
      /\ outputs' = outputs
  BY DEF CommitExport
<1>6. \/ docs' = docs /\ exports' = exports
      \/ /\ \A d \in selected : CanTransition(docs[d], "exported")
         /\ docs' = [d \in Doc |-> IF d \in selected THEN "exported" ELSE docs[d]]
         /\ exports' = [d \in Doc |->
              IF d \in selected
              THEN Append(exports[d], (CHOOSE row \in rows : row.doc = d).copy)
              ELSE exports[d]]
  BY <1>3, <1>4 DEF CommitExport
<1>7. docs' \in [Doc -> Status]
  BY <1>2, <1>6 DEF TypeOK, Status
<1>8. exports' \in [Doc -> Seq(SUBSET Extraction)]
  <2>1. exports \in [Doc -> Seq(SUBSET Extraction)]
    BY <1>2 DEF TypeOK
  <2>2. ASSUME NEW d \in Doc PROVE exports'[d] \in Seq(SUBSET Extraction)
    <3>1. CASE exports' = exports
      BY <2>1, <3>1
    <3>2. CASE d \in selected /\ exports' # exports
      <4>1. PICK row \in rows : row = CHOOSE chosen \in rows : chosen.doc = d
        BY <1>4, <3>2
      <4>2. exports'[d] = Append(exports[d], row.copy) /\ row.copy \in SUBSET Extraction
        BY <1>6, <3>2, <4>1
      <4>3. QED
        BY <2>1, <4>2
    <3>3. CASE d \notin selected
      BY <1>6, <2>1, <3>3
    <3>4. QED
      BY <3>1, <3>2, <3>3
  <2>3. exports' = [d \in Doc |-> exports'[d]]
    BY <1>6, <2>1
  <2>4. QED
    BY <2>2, <2>3
<1>9. DecisionMatchesTask'
  <2>1. ASSUME NEW d \in Doc PROVE docs'[d] = docs[d] \/ (docs[d] = "approved" /\ docs'[d] = "exported")
    <3>1. CanTransition(docs[d], "exported") => docs[d] = "approved"
      BY DEF CanTransition, AllowedTransitions
    <3>2. CASE docs' = docs
      BY <3>2
    <3>3. CASE /\ \A e \in selected : CanTransition(docs[e], "exported")
               /\ docs' = [e \in Doc |-> IF e \in selected THEN "exported" ELSE docs[e]]
      BY <3>1, <3>3
    <3>4. QED
      BY <1>6, <3>2, <3>3
  <2>2. QED
    BY <1>5, <2>1 DEF IInv, DecisionMatchesTask
<1>10. OriginInv' /\ LineageStartsAtExtraction'
  BY <1>5 DEF IInv, OriginInv, LineageStartsAtExtraction
<1>11. /\ jobs' \in [Doc -> [made: 1..MaxJobs, waiting: 0..MaxJobs]]
       /\ stored' \in [Doc -> SUBSET Extraction] /\ corrections' \in [Doc -> Seq(Correction)]
       /\ tasks' \in [Doc -> {"none", "open", "approved", "rejected"}] /\ LineageGrows
  BY <1>2, <1>5 DEF TypeOK, LineageGrows
<1>12. QED
  BY <1>2, <1>5, <1>7, <1>8, <1>9, <1>10, <1>11, RequestEndsKeeps

-----------------------------------------------------------------------------
LEMMA InitIInv == Init => IInv
<1> SUFFICES ASSUME Init PROVE IInv
  OBVIOUS
<1>1. TypeOK
  <2>1. jobs \in [Doc -> [made: 1..MaxJobs, waiting: 0..MaxJobs]]
    BY ConstantsAssumption DEF Init
  <2>2. QED
    BY <2>1, IdleRow DEF Init, TypeOK, Status
<1>2. CountInv
  <2>1. ASSUME NEW d \in Doc PROVE Running(d) = {}
    BY IdleRow DEF Init, Running, Busy, Thread
  <2>2. jobs = [d \in Doc |-> [made |-> 1, waiting |-> 1]] /\ 1 + 0 <= 1
    BY DEF Init
  <2>3. QED
    BY <2>1, <2>2, FS_EmptySet DEF CountInv
<1>3. RowsInv /\ OriginInv /\ LineageStartsAtExtraction /\ DecisionMatchesTask
  BY IdleRow DEF Init, RowsInv, RowOK, OriginInv, LineageStartsAtExtraction, DecisionMatchesTask
<1>4. QED
  BY <1>1, <1>2, <1>3 DEF IInv

LEMMA NextKeeps == IInv /\ [Next]_vars => IInv'
<1> SUFFICES ASSUME IInv, [Next]_vars PROVE IInv'
  OBVIOUS
<1>1. ASSUME NEW w \in Worker, WorkerStep(w) PROVE IInv'
  BY <1>1, StartRunKeeps, MarkProcessingKeeps, ExtractKeeps, RecordSuccessKeeps,
     RecordFailureKeeps DEF WorkerStep
<1>2. ASSUME NEW r \in Request, Decide(r) PROVE IInv'
  BY <1>2, BeginKeeps, CheckReportKeeps, DecideKeeps, CommitSaveKeeps DEF Decide
<1>3. ASSUME NEW r \in Request, Edit(r) PROVE IInv'
  BY <1>3, BeginKeeps, ReadDraftKeeps, CommitDraftKeeps, CommitReprocessKeeps DEF Edit
<1>4. ASSUME NEW r \in Request, Export(r) PROVE IInv'
  BY <1>4, ExportReadsKeep, CommitExportKeeps DEF Export
<1>5. CASE UNCHANGED vars
  BY <1>5 DEF vars, IInv, TypeOK, CountInv, Running, RowsInv, RowOK, OriginInv,
              LineageStartsAtExtraction, DecisionMatchesTask
<1>6. QED
  BY <1>1, <1>2, <1>3, <1>4, <1>5 DEF Next

LEMMA Invariance == Spec => []IInv
BY InitIInv, NextKeeps, PTL DEF Spec

\* Every variable keeps its type; jobs that wait never outnumber those made.
THEOREM TypesHold == Spec => []TypeOK
<1>1. IInv => TypeOK
  BY DEF IInv
<1>2. QED
  BY <1>1, Invariance, PTL

\* Status and review task agree on every decision, however reviewers, edits,
\* workers and downloads race.
THEOREM DecisionsMatch == Spec => []DecisionMatchesTask
<1>1. IInv => DecisionMatchesTask
  BY DEF IInv
<1>2. QED
  BY <1>1, Invariance, PTL

\* All corrections of a document name one original, and it was extracted.
THEOREM LineagesStart == Spec => []LineageStartsAtExtraction
<1>1. IInv => LineageStartsAtExtraction
  BY DEF IInv
<1>2. QED
  BY <1>1, Invariance, PTL

-----------------------------------------------------------------------------
(* One API thread: no request acts between the steps of another.             *)

OneThread == \A q, r \in Request : q = r

InProcess == {"queued", "processing"}

Works(w, d) == threads[w].pc \in Busy /\ threads[w].doc = d

\* A job waits only for a queued document, alone, and while nobody works on it.
WorkInv ==
  \A d \in Doc :
    /\ jobs[d].waiting > 0 => docs[d] = "queued" /\ jobs[d].waiting = 1
    /\ \A w \in Worker : Works(w, d) => ~(jobs[d].waiting > 0)
    /\ \A v, w \in Worker : Works(v, d) /\ Works(w, d) => v = w

\* The status of a document says where its worker is.
WorkerOK(th) ==
  /\ th.pc \in Busy \union {"idle"}
  /\ th.pc = "leased" => docs[th.doc] = "queued"
  /\ th.pc \in {"extracting", "extracted"} => docs[th.doc] = "processing"
  /\ th.pc = "extracted" => \A x, y \in th.copy : x = y

\* What a request has read still is so when it commits.
RequestOK(th) ==
  /\ th.pc \notin Busy
  /\ th.pc \in {"approve_read", "approve", "reject", "save"} => docs[th.doc] = "needs_review"
  /\ th.pc = "approve" => \E e \in stored[th.doc] : ~e.errors
  /\ th.pc = "reprocess" => docs[th.doc] \notin Finalized \union InProcess
  /\ th.pc \in {"draft_read", "draft"} => docs[th.doc] \notin Finalized
  /\ th.pc \in {"export_read", "export"} => \A row \in th.rows : docs[row.doc] = "approved"
  /\ th.pc = "export" => \A row \in th.rows : row.copy = stored[row.doc]

OneStored == \A d \in Doc : \A x, y \in stored[d] : x = y

SerialInv ==
  /\ WorkInv
  /\ \A w \in Worker : WorkerOK(threads[w])
  /\ \A r \in Request : RequestOK(threads[r])
  /\ OneStored /\ ApprovedInvoicesAreClean /\ ExportedOnceAsApproved

\* A document with a job that waits or runs is in process.
LEMMA WorkedOn ==
  ASSUME SerialInv, NEW d \in Doc
  PROVE  /\ \A w \in Worker : Works(w, d) => docs[d] \in InProcess
         /\ jobs[d].waiting > 0 => docs[d] \in InProcess
BY DEF SerialInv, WorkInv, WorkerOK, Works, InProcess, Busy

\* A worker moves on with the one document it works for, or takes one that waits.
LEMMA WorkerMoves ==
  ASSUME IInv, SerialInv, NEW w \in Worker, NEW d \in Doc, NEW th \in ThreadRow,
         threads' = [threads EXCEPT ![w] = th], WorkerOK(th)',
         Works(w, d) \/ (threads[w].pc \notin Busy /\ jobs[d].waiting > 0),
         th.pc \in Busy => th.doc = d,
         \A e \in Doc : e # d => /\ docs'[e] = docs[e] /\ stored'[e] = stored[e]
                                 /\ jobs'[e].waiting = jobs[e].waiting,
         docs'[d] \notin Finalized, \A x, y \in stored'[d] : x = y,
         jobs'[d].waiting > 0 => /\ docs'[d] = "queued" /\ jobs'[d].waiting = 1
                                 /\ th.pc \notin Busy,
         UNCHANGED exports
  PROVE  SerialInv'
<1>1. /\ w \in Thread /\ w \notin Request /\ Worker \subseteq Thread /\ Request \subseteq Thread
      /\ TypeOK /\ RowsInv
  BY ConstantsAssumption DEF Thread, IInv
<1>2. threads'[w] = th /\ \A u \in Thread : u # w => threads'[u] = threads[u]
  BY <1>1, ThreadFacts
<1>3. docs[d] \in InProcess /\ \A v \in Worker : v # w => ~Works(v, d)
  BY WorkedOn DEF SerialInv, WorkInv
<1>4. \A e \in Doc, v \in Worker : e # d => (Works(v, e)' <=> v # w /\ Works(v, e))
  BY <1>1, <1>2 DEF Works
<1>5. \A v \in Worker : Works(v, d)' => v = w /\ th.pc \in Busy
  BY <1>1, <1>2, <1>3 DEF Works
<1>6. WorkInv'
  <2>1. ASSUME NEW e \in Doc
        PROVE  /\ jobs'[e].waiting > 0 => docs'[e] = "queued" /\ jobs'[e].waiting = 1
               /\ \A v \in Worker : Works(v, e)' => ~(jobs'[e].waiting > 0)
               /\ \A u, v \in Worker : Works(u, e)' /\ Works(v, e)' => u = v
    <3>1. CASE e # d
      BY <1>4, <3>1 DEF SerialInv, WorkInv
    <3>2. CASE e = d
      BY <1>5, <3>2
    <3>3. QED
      BY <3>1, <3>2
  <2>2. QED
    BY <2>1 DEF WorkInv
<1>7. ASSUME NEW v \in Worker PROVE WorkerOK(threads[v])'
  <2>1. CASE v = w
    BY <1>2, <2>1 DEF WorkerOK
  <2>2. CASE v # w
    <3>1. threads'[v] = threads[v] /\ WorkerOK(threads[v]) /\ RowOK(threads[v])
      BY <1>1, <1>2, <2>2 DEF SerialInv, RowsInv
    <3>2. threads[v].pc \in Busy => threads[v].doc \in Doc /\ threads[v].doc # d
      BY <1>3, <2>2, <3>1 DEF RowOK, Works, Busy
    <3>3. QED
      BY <3>1, <3>2 DEF WorkerOK, Busy
  <2>3. QED
    BY <2>1, <2>2
<1>8. ASSUME NEW r \in Request PROVE RequestOK(threads[r])'
  <2>1. threads'[r] = threads[r] /\ RequestOK(threads[r]) /\ RowOK(threads[r])
    BY <1>1, <1>2 DEF SerialInv, RowsInv
  <2>2. threads[r].pc \in {"approve_read", "approve", "reject", "save", "reprocess"} =>
          /\ docs'[threads[r].doc] = docs[threads[r].doc]
          /\ stored'[threads[r].doc] = stored[threads[r].doc]
    <3>1. threads[r].pc \in {"approve_read", "approve", "reject", "save", "reprocess"} =>
            threads[r].doc \in Doc /\ docs[threads[r].doc] \notin InProcess
      BY <2>1 DEF RowOK, RequestOK, InProcess
    <3>2. QED
      BY <1>3, <3>1
  <2>3. threads[r].pc \in {"draft_read", "draft"} => docs'[threads[r].doc] \notin Finalized
    <3>1. threads[r].pc \in {"draft_read", "draft"} => threads[r].doc \in Doc
      BY <2>1 DEF RowOK
    <3>2. QED
      BY <2>1, <3>1 DEF RequestOK
  <2>4. threads[r].pc \in {"export_read", "export"} =>
          \A row \in threads[r].rows : /\ docs'[row.doc] = docs[row.doc]
                                       /\ stored'[row.doc] = stored[row.doc]
    <3>1. \A row \in threads[r].rows : row.doc \in Doc
      BY <1>1, ThreadFacts
    <3>2. QED
      BY <1>3, <2>1, <3>1 DEF RequestOK, InProcess
  <2>5. QED
    BY <2>1, <2>2, <2>3, <2>4 DEF RequestOK
<1>9. OneStored' /\ ApprovedInvoicesAreClean'
  BY DEF SerialInv, OneStored, ApprovedInvoicesAreClean, Finalized
<1>10. ExportedOnceAsApproved'
  BY <1>3 DEF SerialInv, ExportedOnceAsApproved, InProcess
<1>11. QED
  BY <1>6, <1>7, <1>8, <1>9, <1>10 DEF SerialInv

\* A worker alone leaves its documents where they are.
LEMMA WorkerSteps ==
  ASSUME IInv, SerialInv, NEW w \in Worker, WorkerStep(w)
  PROVE  SerialInv'
<1>1. /\ w \in Thread /\ TypeOK /\ WorkerOK(threads[w]) /\ RowOK(threads[w])
      /\ threads[w] \in ThreadRow /\ threads \in [Thread -> ThreadRow]
  BY ThreadFacts DEF Thread, IInv, SerialInv, RowsInv
<1>2. /\ docs \in [Doc -> Status] /\ stored \in [Doc -> SUBSET Extraction]
      /\ jobs \in [Doc -> [made: 1..MaxJobs, waiting: 0..MaxJobs]]
      /\ \A d \in Doc : jobs[d].waiting \in Nat
  BY <1>1, ConstantsAssumption DEF TypeOK
<1>3. ASSUME NEW d \in Doc, StartRun(w, d) PROVE SerialInv'
  <2>1. docs[d] = "queued" /\ jobs[d].waiting = 1 /\ threads[w].pc \notin Busy
    BY <1>3 DEF SerialInv, WorkInv, StartRun, At, Busy
  <2>2. /\ docs' = docs /\ stored' = stored /\ exports' = exports
        /\ jobs' = [jobs EXCEPT ![d].waiting = @ - 1]
    BY <1>3 DEF StartRun
  <2>3. PICK th \in ThreadRow :
          th.pc = "leased" /\ th.doc = d /\ threads' = [threads EXCEPT ![w] = th]
    <3>1. Read(w, d, "leased")
      BY <1>3, <2>1 DEF StartRun
    <3>2. PICK th \in ThreadRow : th = [IdleThread EXCEPT !.pc = "leased", !.doc = d, !.seen = docs[d]]
      BY <1>2, IdleRow DEF ThreadRow
    <3>3. QED
      BY <3>1, <3>2, IdleRow DEF Read, ThreadRow, IdleThread
  <2>4. ~(jobs'[d].waiting > 0) /\ \A e \in Doc : e # d => jobs'[e] = jobs[e]
    BY <1>2, <2>1, <2>2
  <2>5. WorkerOK(th)' /\ \A x, y \in stored'[d] : x = y
    BY <2>1, <2>2, <2>3 DEF WorkerOK, Busy, SerialInv, OneStored
  <2>6. jobs[d].waiting > 0 /\ docs'[d] \notin Finalized
    BY <2>1, <2>2 DEF Finalized
  <2>7. QED
    BY <2>1, <2>2, <2>3, <2>4, <2>5, <2>6, WorkerMoves, ZenonT(60)
<1>4. ASSUME MarkProcessing(w) PROVE SerialInv'
  <2>1. PICK d \in Doc : d = threads[w].doc /\ threads[w].pc = "leased"
    BY <1>1, <1>4 DEF MarkProcessing, At, RowOK
  <2>2. /\ docs' = [docs EXCEPT ![d] = "processing"]
        /\ stored' = stored /\ jobs' = jobs /\ exports' = exports
    BY <1>4, <2>1 DEF MarkProcessing, Transition
  <2>3. PICK th \in ThreadRow : th = [threads[w] EXCEPT !.pc = "extracting", !.seen = "processing"]
    BY <1>1 DEF ThreadRow, Status
  <2>4. threads' = [threads EXCEPT ![w] = th] /\ th.pc = "extracting" /\ th.doc = d
    BY <1>1, <1>4, <2>1, <2>3 DEF MarkProcessing, ThreadRow
  <2>5. docs'[d] = "processing" /\ \A e \in Doc : e # d => docs'[e] = docs[e]
    BY <1>2, <2>2
  <2>6. Works(w, d) /\ ~(jobs'[d].waiting > 0)
    BY <2>1, <2>2 DEF Works, Busy, SerialInv, WorkInv
  <2>7. WorkerOK(th)' /\ docs'[d] \notin Finalized /\ \A x, y \in stored'[d] : x = y
    BY <2>2, <2>4, <2>5 DEF WorkerOK, Busy, Finalized, SerialInv, OneStored
  <2>8. QED
    BY <2>2, <2>4, <2>5, <2>6, <2>7, WorkerMoves
<1>5. ASSUME Extract(w) PROVE SerialInv'
  <2>1. PICK d \in Doc : d = threads[w].doc /\ threads[w].pc = "extracting"
    BY <1>1, <1>5 DEF Extract, At, RowOK
  <2>2. docs' = docs /\ stored' = stored /\ jobs' = jobs /\ exports' = exports
    BY <1>5 DEF Extract, database
  <2>3. PICK report \in Extraction :
          threads' = [threads EXCEPT ![w].pc = "extracted", ![w].copy = {report}]
    <3>1. PICK invoice \in Invoice, untrusted \in BOOLEAN :
            threads' = [threads EXCEPT ![w].pc = "extracted",
              ![w].copy = {[Validated(d, invoice) EXCEPT !.errors = @ \/ untrusted]}]
      BY <1>5, <2>1 DEF Extract
    <3>2. [Validated(d, invoice) EXCEPT !.errors = @ \/ untrusted] \in Extraction
      BY DEF Validated, Extraction
    <3>3. QED
      BY <3>1, <3>2
  <2>4. PICK th \in ThreadRow : th = [threads[w] EXCEPT !.pc = "extracted", !.copy = {report}]
    BY <1>1 DEF ThreadRow
  <2>5. threads' = [threads EXCEPT ![w] = th] /\ th.pc = "extracted" /\ th.doc = d /\ th.copy = {report}
    BY <1>1, <2>1, <2>3, <2>4 DEF ThreadRow
  <2>6. docs[d] = "processing" /\ Works(w, d) /\ ~(jobs'[d].waiting > 0)
    BY <1>1, <2>1, <2>2 DEF WorkerOK, Works, Busy, SerialInv, WorkInv
  <2>7. WorkerOK(th)' /\ docs'[d] \notin Finalized /\ \A x, y \in stored'[d] : x = y
    BY <2>2, <2>5, <2>6 DEF WorkerOK, Busy, Finalized, SerialInv, OneStored
  <2>8. QED
    BY <2>2, <2>5, <2>6, <2>7, WorkerMoves
<1>6. ASSUME RecordSuccess(w) PROVE SerialInv'
  <2>1. PICK d \in Doc : d = threads[w].doc /\ threads[w].pc = "extracted"
    BY <1>1, <1>6 DEF RecordSuccess, At, RowOK
  <2>2. /\ docs' = [docs EXCEPT ![d] = "needs_review"] /\ jobs' = jobs /\ exports' = exports
        /\ stored' = [stored EXCEPT ![d] = threads[w].copy]
        /\ threads' = [threads EXCEPT ![w] = IdleThread]
    BY <1>6, <2>1 DEF RecordSuccess, Finish
  <2>3. /\ docs'[d] = "needs_review" /\ stored'[d] = threads[w].copy
        /\ \A e \in Doc : e # d => docs'[e] = docs[e] /\ stored'[e] = stored[e]
    BY <1>2, <2>2
  <2>4. Works(w, d) /\ ~(jobs'[d].waiting > 0) /\ \A x, y \in stored'[d] : x = y
    BY <1>1, <2>1, <2>2, <2>3 DEF Works, Busy, SerialInv, WorkInv, WorkerOK
  <2>5. WorkerOK(IdleThread)' /\ docs'[d] \notin Finalized /\ IdleThread.pc \notin Busy
    BY <2>3, IdleRow DEF WorkerOK, Finalized, Busy
  <2>6. QED
    BY <2>2, <2>3, <2>4, <2>5, IdleRow, WorkerMoves
<1>7. ASSUME RecordFailure(w) PROVE SerialInv'
  <2>1. PICK d \in Doc : d = threads[w].doc /\ threads[w].pc = "extracting"
    BY <1>1, <1>7 DEF RecordFailure, At, RowOK
  <2>2. /\ stored' = stored /\ exports' = exports
        /\ threads' = [threads EXCEPT ![w] = IdleThread]
    BY <1>7 DEF RecordFailure, Finish
  <2>3. Works(w, d) /\ jobs[d].waiting = 0
    BY <1>2, <2>1 DEF Works, Busy, SerialInv, WorkInv
  <2>4. \/ docs' = [docs EXCEPT ![d] = "queued"] /\ jobs' = [jobs EXCEPT ![d].waiting = @ + 1]
        \/ docs' = [docs EXCEPT ![d] = "failed"] /\ jobs' = jobs
    BY <1>7, <2>1 DEF RecordFailure, Transition
  <2>5. /\ \/ docs'[d] = "queued" /\ jobs'[d].waiting = 1
           \/ docs'[d] = "failed" /\ jobs'[d].waiting = 0
        /\ \A e \in Doc : e # d => docs'[e] = docs[e] /\ jobs'[e] = jobs[e]
    BY <1>2, <2>3, <2>4
  <2>6. WorkerOK(IdleThread)' /\ docs'[d] \notin Finalized /\ IdleThread.pc \notin Busy
        /\ \A x, y \in stored'[d] : x = y
    BY <2>2, <2>5, IdleRow DEF WorkerOK, Finalized, Busy, SerialInv, OneStored
  <2>7. jobs'[d].waiting > 0 => docs'[d] = "queued" /\ jobs'[d].waiting = 1
    BY <2>5
  <2>8. \A e \in Doc : e # d => /\ docs'[e] = docs[e] /\ stored'[e] = stored[e]
                                /\ jobs'[e].waiting = jobs[e].waiting
    BY <2>2, <2>5
  <2>9. QED
    BY <2>2, <2>3, <2>6, <2>7, <2>8, IdleRow, WorkerMoves
<1>8. QED
  BY <1>3, <1>4, <1>5, <1>6, <1>7 DEF WorkerStep

-----------------------------------------------------------------------------
\* The request moves on: documents in process stay so, and a new job waits only
\* for a document that was not.
LEMMA RequestMoves ==
  ASSUME OneThread, IInv, SerialInv, NEW r \in Request, NEW th \in ThreadRow,
         threads' = [threads EXCEPT ![r] = th], RequestOK(th)',
         \A d \in Doc : \/ docs'[d] = docs[d] /\ jobs'[d].waiting = jobs[d].waiting
                        \/ /\ docs[d] \notin InProcess
                           /\ \/ jobs'[d].waiting = jobs[d].waiting
                              \/ docs'[d] = "queued" /\ jobs'[d].waiting = 1,
         OneStored', ApprovedInvoicesAreClean', ExportedOnceAsApproved'
  PROVE  SerialInv'
<1>1. /\ r \in Thread /\ r \notin Worker /\ Worker \subseteq Thread /\ TypeOK /\ RowsInv
  BY ConstantsAssumption DEF Thread, IInv
<1>2. threads'[r] = th /\ \A u \in Worker : threads'[u] = threads[u]
  BY <1>1, ThreadFacts
<1>3. \A q \in Request : RequestOK(threads[q])'
  BY <1>2 DEF OneThread, RequestOK
<1>4. WorkInv'
  <2>1. ASSUME NEW d \in Doc
        PROVE  /\ jobs'[d].waiting > 0 => docs'[d] = "queued" /\ jobs'[d].waiting = 1
               /\ \A v \in Worker : Works(v, d)' => ~(jobs'[d].waiting > 0)
               /\ \A u, v \in Worker : Works(u, d)' /\ Works(v, d)' => u = v
    <3>1. \A v \in Worker : Works(v, d)' <=> Works(v, d)
      BY <1>2 DEF Works
    <3>2. /\ jobs[d].waiting > 0 => docs[d] = "queued" /\ jobs[d].waiting = 1
          /\ \A v \in Worker : Works(v, d) => ~(jobs[d].waiting > 0)
          /\ \A u, v \in Worker : Works(u, d) /\ Works(v, d) => u = v
      BY DEF SerialInv, WorkInv
    <3>3. CASE docs'[d] = docs[d] /\ jobs'[d].waiting = jobs[d].waiting
      BY <3>1, <3>2, <3>3
    <3>4. CASE docs[d] \notin InProcess
      BY <3>1, <3>2, <3>4, WorkedOn
    <3>5. QED
      BY <3>3, <3>4
  <2>2. QED
    BY <2>1 DEF WorkInv
<1>5. ASSUME NEW w \in Worker PROVE WorkerOK(threads[w])'
  <2>1. threads'[w] = threads[w] /\ WorkerOK(threads[w]) /\ RowOK(threads[w])
    BY <1>1, <1>2 DEF SerialInv, RowsInv
  <2>2. threads[w].pc \in Busy => docs'[threads[w].doc] = docs[threads[w].doc]
    BY <2>1 DEF RowOK, WorkerOK, Busy, InProcess
  <2>3. QED
    BY <2>1, <2>2 DEF WorkerOK, Busy
<1>6. QED
  BY <1>3, <1>4, <1>5 DEF SerialInv

\* A step that only reads.
LEMMA LookingSerial ==
  ASSUME OneThread, IInv, SerialInv, NEW r \in Request, NEW th \in ThreadRow,
         Looks(r, th), RequestOK(th)
  PROVE  SerialInv'
<1>1. /\ threads' = [threads EXCEPT ![r] = th] /\ docs' = docs /\ jobs' = jobs
      /\ stored' = stored /\ exports' = exports
  BY DEF Looks, database
<1>2. RequestOK(th)' /\ OneStored' /\ ApprovedInvoicesAreClean' /\ ExportedOnceAsApproved'
  BY <1>1 DEF RequestOK, SerialInv, OneStored, ApprovedInvoicesAreClean, ExportedOnceAsApproved
<1>3. QED
  BY <1>1, <1>2, RequestMoves

LEMMA IdleRequest == RequestOK(IdleThread) /\ RequestOK(IdleThread)'
BY IdleRow DEF RequestOK, Busy

\* A request that begins by reading the status.
LEMMA ReadSerial ==
  ASSUME OneThread, IInv, SerialInv, NEW r \in Request, NEW d \in Doc, UNCHANGED database,
         NEW pc \in {"approve_read", "reject", "save", "draft_read", "reprocess"},
         Read(r, d, pc),
         pc \in {"approve_read", "reject", "save"} => docs[d] = "needs_review",
         pc = "draft_read" => docs[d] \notin Finalized,
         pc = "reprocess" => docs[d] \notin Finalized \union InProcess
  PROVE  SerialInv'
<1>1. docs[d] \in Status
  BY DEF IInv, TypeOK
<1>2. PICK th \in ThreadRow : th = [IdleThread EXCEPT !.pc = pc, !.doc = d, !.seen = docs[d]]
  BY <1>1, IdleRow DEF ThreadRow
<1>3. Looks(r, th) /\ th.pc = pc /\ th.doc = d
  BY <1>2, IdleRow DEF Read, Looks, ThreadRow, IdleThread
<1>4. RequestOK(th)
  BY <1>3 DEF RequestOK, Busy
<1>5. QED
  BY <1>3, <1>4, LookingSerial

LEMMA BeginSerial ==
  ASSUME OneThread, IInv, SerialInv, NEW r \in Request, NEW d \in Doc,
         BeginApprove(r, d) \/ BeginReject(r, d) \/ BeginSave(r, d)
           \/ BeginDraft(r, d) \/ BeginReprocess(r, d)
  PROVE  SerialInv'
<1>1. CASE BeginApprove(r, d) \/ BeginReject(r, d) \/ BeginSave(r, d)
  BY <1>1, ReadSerial DEF BeginApprove, BeginReject, BeginSave, Reviewable
<1>2. CASE BeginDraft(r, d)
  BY <1>2, ReadSerial DEF BeginDraft
<1>3. CASE BeginReprocess(r, d)
  <2>1. docs[d] \notin Finalized \union InProcess
    BY <1>3 DEF BeginReprocess, Finalized, InProcess
  <2>2. QED
    BY <1>3, <2>1, ReadSerial DEF BeginReprocess
<1>4. QED
  BY <1>1, <1>2, <1>3

\* A request that ends without having done anything.
LEMMA FinishSerial ==
  ASSUME OneThread, IInv, SerialInv, NEW r \in Request, Finish(r), UNCHANGED database
  PROVE  SerialInv'
BY IdleRow, IdleRequest, LookingSerial DEF Finish, Looks

LEMMA ReadsSerial ==
  ASSUME OneThread, IInv, SerialInv, NEW r \in Request,
         CheckReport(r) \/ ReadDraft(r) \/ BeginExport(r) \/ ReadRows(r)
  PROVE  SerialInv'
<1>1. /\ r \in Thread /\ TypeOK /\ RowOK(threads[r]) /\ RequestOK(threads[r])
      /\ threads[r] \in ThreadRow /\ threads \in [Thread -> ThreadRow]
      /\ docs \in [Doc -> Status] /\ stored \in [Doc -> SUBSET Extraction]
  BY ThreadFacts DEF Thread, IInv, RowsInv, SerialInv, TypeOK
<1>2. CASE Finish(r) /\ UNCHANGED database
  BY <1>2, FinishSerial
<1>3. CASE CheckReport(r) /\ ~Finish(r)
  <2>1. /\ threads[r].pc = "approve_read" /\ \E e \in stored[threads[r].doc] : ~e.errors
        /\ threads' = [threads EXCEPT ![r].pc = "approve"] /\ UNCHANGED database
    BY <1>3 DEF CheckReport, At
  <2>2. PICK th \in ThreadRow : th = [threads[r] EXCEPT !.pc = "approve"]
    BY <1>1 DEF ThreadRow
  <2>3. Looks(r, th) /\ th.pc = "approve" /\ th.doc = threads[r].doc
    BY <1>1, <2>1, <2>2 DEF Looks, ThreadRow
  <2>4. RequestOK(th)
    BY <1>1, <2>1, <2>3 DEF RequestOK, Busy
  <2>5. QED
    BY <2>3, <2>4, LookingSerial
<1>4. CASE ReadDraft(r) /\ ~Finish(r)
  <2>1. /\ threads[r].pc = "draft_read" /\ threads[r].doc \in Doc /\ UNCHANGED database
        /\ threads' = [threads EXCEPT ![r].pc = "draft", ![r].copy = stored[threads[r].doc]]
    BY <1>1, <1>4 DEF ReadDraft, At, RowOK
  <2>2. PICK th \in ThreadRow :
          th = [threads[r] EXCEPT !.pc = "draft", !.copy = stored[threads[r].doc]]
    BY <1>1, <2>1 DEF ThreadRow
  <2>3. Looks(r, th) /\ th.pc = "draft" /\ th.doc = threads[r].doc
    BY <1>1, <2>1, <2>2 DEF Looks, ThreadRow
  <2>4. RequestOK(th)
    BY <1>1, <2>1, <2>3 DEF RequestOK, Busy
  <2>5. QED
    BY <2>3, <2>4, LookingSerial
<1>5. CASE BeginExport(r)
  <2>1. PICK rows \in SUBSET [doc: Doc, copy: SUBSET Extraction] :
          /\ rows = {[doc |-> d, copy |-> {}] : d \in {e \in Doc : docs[e] = "approved"}}
          /\ threads' = [threads EXCEPT ![r].pc = "export_read", ![r].rows = rows]
    <3>1. {[doc |-> d, copy |-> {}] : d \in {e \in Doc : docs[e] = "approved"}}
            \in SUBSET [doc: Doc, copy: SUBSET Extraction]
      OBVIOUS
    <3>2. QED
      BY <1>5, <3>1 DEF BeginExport
  <2>2. PICK th \in ThreadRow : th = [threads[r] EXCEPT !.pc = "export_read", !.rows = rows]
    BY <1>1 DEF ThreadRow
  <2>3. Looks(r, th) /\ th.pc = "export_read" /\ th.rows = rows
    BY <1>1, <1>5, <2>1, <2>2 DEF BeginExport, Looks, ThreadRow
  <2>4. \A row \in rows : docs[row.doc] = "approved"
    BY <2>1
  <2>5. RequestOK(th)
    BY <2>3, <2>4 DEF RequestOK, Busy
  <2>6. QED
    BY <2>3, <2>5, LookingSerial
<1>6. CASE ReadRows(r)
  <2>1. threads[r].pc = "export_read" /\ threads[r].rows \in SUBSET [doc: Doc, copy: SUBSET Extraction]
    BY <1>1, <1>6, ThreadFacts DEF ReadRows, At
  <2>2. PICK rows \in SUBSET [doc: Doc, copy: SUBSET Extraction] :
          /\ rows = {[row EXCEPT !.copy = stored[row.doc]] : row \in threads[r].rows}
          /\ threads' = [threads EXCEPT ![r].pc = "export", ![r].rows = rows]
    <3>1. {[row EXCEPT !.copy = stored[row.doc]] : row \in threads[r].rows}
            \in SUBSET [doc: Doc, copy: SUBSET Extraction]
      BY <1>1, <2>1
    <3>2. QED
      BY <1>1, <1>6, <3>1 DEF ReadRows
  <2>3. PICK th \in ThreadRow : th = [threads[r] EXCEPT !.pc = "export", !.rows = rows]
    BY <1>1 DEF ThreadRow
  <2>4. Looks(r, th) /\ th.pc = "export" /\ th.rows = rows
    BY <1>1, <1>6, <2>2, <2>3 DEF ReadRows, Looks, ThreadRow
  <2>5. \A row \in rows : docs[row.doc] = "approved" /\ row.copy = stored[row.doc]
    BY <1>1, <2>1, <2>2 DEF RequestOK
  <2>6. RequestOK(th)
    BY <2>4, <2>5 DEF RequestOK, Busy
  <2>7. QED
    BY <2>4, <2>6, LookingSerial
<1>7. QED
  BY <1>2, <1>3, <1>4, <1>5, <1>6 DEF CheckReport, ReadDraft

\* The request commits and is done.
LEMMA EndsSerial ==
  ASSUME OneThread, IInv, SerialInv, NEW r \in Request, Finish(r),
         \A d \in Doc : \/ docs'[d] = docs[d] /\ jobs'[d].waiting = jobs[d].waiting
                        \/ /\ docs[d] \notin InProcess
                           /\ \/ jobs'[d].waiting = jobs[d].waiting
                              \/ docs'[d] = "queued" /\ jobs'[d].waiting = 1,
         OneStored', ApprovedInvoicesAreClean', ExportedOnceAsApproved'
  PROVE  SerialInv'
BY IdleRow, IdleRequest, RequestMoves DEF Finish

\* What a request does to documents it does not finalize.
LEMMA CommitsSerial ==
  ASSUME OneThread, IInv, SerialInv, NEW r \in Request,
         CommitApprove(r) \/ CommitReject(r) \/ CommitSave(r) \/ CommitDraft(r) \/ CommitReprocess(r)
  PROVE  SerialInv'
<1>1. /\ r \in Thread /\ TypeOK /\ RowOK(threads[r]) /\ RequestOK(threads[r]) /\ Finish(r)
      /\ docs \in [Doc -> Status] /\ stored \in [Doc -> SUBSET Extraction]
      /\ jobs \in [Doc -> [made: 1..MaxJobs, waiting: 0..MaxJobs]]
      /\ OneStored /\ ApprovedInvoicesAreClean /\ ExportedOnceAsApproved
  BY DEF Thread, IInv, RowsInv, SerialInv, TypeOK,
         CommitApprove, CommitReject, CommitSave, CommitDraft, CommitReprocess
<1>2. PICK d \in Doc : d = threads[r].doc
  BY <1>1 DEF RowOK, At, CommitApprove, CommitReject, CommitSave, CommitDraft, CommitReprocess
<1>3. CASE CommitApprove(r) \/ CommitReject(r)
  <2>1. /\ docs[d] = "needs_review" /\ jobs' = jobs /\ stored' = stored /\ exports' = exports
        /\ CommitApprove(r) => \E e \in stored[d] : ~e.errors
    BY <1>1, <1>2, <1>3 DEF CommitApprove, CommitReject, At, RequestOK
  <2>2. PICK decision \in {"approved", "rejected"} :
          docs' = [docs EXCEPT ![d] = decision] /\ (decision = "approved" => CommitApprove(r))
    BY <1>2, <1>3 DEF CommitApprove, CommitReject, Transition
  <2>3. docs'[d] = decision /\ \A e \in Doc : e # d => docs'[e] = docs[e]
    BY <1>1, <2>2
  <2>4. ApprovedInvoicesAreClean'
    BY <1>1, <2>1, <2>2, <2>3 DEF ApprovedInvoicesAreClean, OneStored
  <2>5. OneStored' /\ ExportedOnceAsApproved'
    BY <1>1, <2>1, <2>3 DEF OneStored, ExportedOnceAsApproved
  <2>6. QED
    BY <1>1, <2>1, <2>3, <2>4, <2>5, EndsSerial DEF InProcess
<1>4. CASE CommitSave(r) \/ CommitDraft(r)
  <2>1. docs[d] \notin Finalized /\ docs' = docs /\ jobs' = jobs /\ exports' = exports
    BY <1>1, <1>2, <1>4 DEF CommitSave, CommitDraft, At, RequestOK, Finalized
  <2>2. stored' = stored \/ \E extraction : stored' = [stored EXCEPT ![d] = {extraction}]
    BY <1>2, <1>4 DEF CommitSave, CommitDraft, Store
  <2>3. /\ \A x, y \in stored'[d] : x = y
        /\ \A e \in Doc : e # d => stored'[e] = stored[e]
    BY <1>1, <2>2 DEF OneStored
  <2>4. OneStored' /\ ApprovedInvoicesAreClean' /\ ExportedOnceAsApproved'
    BY <1>1, <2>1, <2>3 DEF OneStored, ApprovedInvoicesAreClean, ExportedOnceAsApproved, Finalized
  <2>5. QED
    BY <1>1, <2>1, <2>4, EndsSerial
<1>5. CASE CommitReprocess(r)
  <2>1. /\ docs[d] \notin Finalized \union InProcess /\ stored' = stored /\ exports' = exports
        /\ docs' = [docs EXCEPT ![d] = "queued"]
        /\ jobs' = [jobs EXCEPT ![d] = [made |-> @.made + 1, waiting |-> @.waiting + 1]]
    BY <1>1, <1>2, <1>5 DEF CommitReprocess, At, RequestOK, Transition
  <2>2. jobs[d].waiting = 0
    <3>1. jobs[d].waiting \in Nat
      BY <1>1, ConstantsAssumption
    <3>2. QED
      BY <2>1, <3>1, WorkedOn
  <2>3. /\ docs'[d] = "queued" /\ jobs'[d].waiting = 1
        /\ \A e \in Doc : e # d => docs'[e] = docs[e] /\ jobs'[e] = jobs[e]
    BY <1>1, <2>1, <2>2
  <2>4. OneStored' /\ ApprovedInvoicesAreClean' /\ ExportedOnceAsApproved'
    BY <1>1, <2>1, <2>3 DEF OneStored, ApprovedInvoicesAreClean, ExportedOnceAsApproved, Finalized
  <2>5. QED
    BY <1>1, <2>1, <2>3, <2>4, EndsSerial
<1>6. QED
  BY <1>3, <1>4, <1>5

\* The download takes what was approved, and takes it once.
LEMMA CommitExportSerial ==
  ASSUME OneThread, IInv, SerialInv, NEW r \in Request, CommitExport(r)
  PROVE  SerialInv'
<1>1. /\ r \in Thread /\ RequestOK(threads[r]) /\ Finish(r)
      /\ docs \in [Doc -> Status] /\ exports \in [Doc -> Seq(SUBSET Extraction)]
      /\ OneStored /\ ApprovedInvoicesAreClean /\ ExportedOnceAsApproved
  BY DEF Thread, IInv, SerialInv, TypeOK, CommitExport
<1>2. PICK rows \in SUBSET [doc: Doc, copy: SUBSET Extraction] : rows = threads[r].rows
  BY <1>1, ThreadFacts DEF IInv
<1>3. PICK selected : selected = {row.doc : row \in rows}
  OBVIOUS
<1>4. jobs' = jobs /\ stored' = stored
  BY DEF CommitExport
<1>5. \A row \in rows : docs[row.doc] = "approved" /\ row.copy = stored[row.doc]
  BY <1>1, <1>2 DEF CommitExport, At, RequestOK
<1>6. \/ docs' = docs /\ exports' = exports
      \/ /\ docs' = [d \in Doc |-> IF d \in selected THEN "exported" ELSE docs[d]]
         /\ exports' = [d \in Doc |->
              IF d \in selected
              THEN Append(exports[d], (CHOOSE row \in rows : row.doc = d).copy)
              ELSE exports[d]]
  BY <1>2, <1>3 DEF CommitExport
<1>7. ASSUME NEW d \in Doc
      PROVE  \/ docs'[d] = docs[d] /\ exports'[d] = exports[d]
             \/ /\ docs[d] = "approved" /\ docs'[d] = "exported"
                /\ exports'[d] = Append(<<>>, stored[d])
  <2>1. CASE docs' = docs /\ exports' = exports
    BY <2>1
  <2>2. CASE d \notin selected
    BY <1>6, <2>2
  <2>3. CASE d \in selected /\ ~(docs' = docs /\ exports' = exports)
    <3>1. PICK row \in rows : row = CHOOSE chosen \in rows : chosen.doc = d
      BY <1>3, <2>3
    <3>2. row.doc = d
      BY <1>3, <2>3, <3>1
    <3>3. docs[d] = "approved" /\ row.copy = stored[d] /\ exports[d] = <<>>
      BY <1>1, <1>5, <3>2 DEF ExportedOnceAsApproved
    <3>4. docs'[d] = "exported" /\ exports'[d] = Append(<<>>, stored[d])
      BY <1>6, <2>3, <3>1, <3>3
    <3>5. QED
      BY <3>3, <3>4
  <2>4. QED
    BY <2>1, <2>2, <2>3
<1>8. OneStored' /\ ApprovedInvoicesAreClean'
  BY <1>1, <1>4, <1>7 DEF OneStored, ApprovedInvoicesAreClean
<1>9. ExportedOnceAsApproved'
  <2>1. ASSUME NEW d \in Doc
        PROVE  /\ Len(exports'[d]) <= 1
               /\ exports'[d] # <<>> => docs'[d] = "exported" /\ exports'[d][1] = stored'[d]
    <3>1. CASE docs'[d] = docs[d] /\ exports'[d] = exports[d]
      BY <1>1, <1>4, <3>1 DEF ExportedOnceAsApproved
    <3>2. CASE docs'[d] = "exported" /\ exports'[d] = Append(<<>>, stored[d])
      <4>1. exports'[d] = <<stored[d]>> /\ Len(<<stored[d]>>) = 1
        BY <3>2
      <4>2. QED
        BY <1>4, <3>2, <4>1
    <3>3. QED
      BY <1>7, <3>1, <3>2
  <2>2. QED
    BY <2>1 DEF ExportedOnceAsApproved
<1>10. QED
  BY <1>1, <1>4, <1>7, <1>8, <1>9, EndsSerial DEF InProcess

-----------------------------------------------------------------------------
LEMMA InitSerial == Init => SerialInv
<1> SUFFICES ASSUME Init PROVE SerialInv
  OBVIOUS
<1>1. /\ \A t \in Thread : threads[t] = IdleThread
      /\ \A d \in Doc : /\ docs[d] = "queued" /\ jobs[d].waiting = 1
                        /\ stored[d] = {} /\ exports[d] = <<>>
  BY DEF Init
<1>2. WorkInv
  BY <1>1, IdleRow DEF WorkInv, Works, Busy, Thread
<1>3. \A w \in Worker : WorkerOK(threads[w])
  BY <1>1, IdleRow DEF WorkerOK, Busy, Thread
<1>4. \A r \in Request : RequestOK(threads[r])
  BY <1>1, IdleRequest DEF Thread
<1>5. OneStored /\ ApprovedInvoicesAreClean /\ ExportedOnceAsApproved
  BY <1>1 DEF OneStored, ApprovedInvoicesAreClean, ExportedOnceAsApproved
<1>6. QED
  BY <1>2, <1>3, <1>4, <1>5 DEF SerialInv

LEMMA NextSerial == ASSUME OneThread PROVE IInv /\ SerialInv /\ [Next]_vars => SerialInv'
<1> SUFFICES ASSUME IInv, SerialInv, [Next]_vars PROVE SerialInv'
  OBVIOUS
<1>1. ASSUME NEW w \in Worker, WorkerStep(w) PROVE SerialInv'
  BY <1>1, WorkerSteps
<1>2. ASSUME NEW r \in Request, Decide(r) PROVE SerialInv'
  BY <1>2, BeginSerial, ReadsSerial, CommitsSerial DEF Decide
<1>3. ASSUME NEW r \in Request, Edit(r) PROVE SerialInv'
  BY <1>3, BeginSerial, ReadsSerial, CommitsSerial DEF Edit
<1>4. ASSUME NEW r \in Request, Export(r) PROVE SerialInv'
  BY <1>4, ReadsSerial, CommitExportSerial DEF Export
<1>5. CASE UNCHANGED vars
  BY <1>5 DEF vars, SerialInv, WorkInv, Works, WorkerOK, RequestOK, OneStored,
              ApprovedInvoicesAreClean, ExportedOnceAsApproved
<1>6. QED
  BY <1>1, <1>2, <1>3, <1>4, <1>5 DEF Next

LEMMA Serially == ASSUME OneThread PROVE Spec => []SerialInv
BY InitSerial, NextSerial, Invariance, PTL DEF Spec

\* With one API thread, what is approved or exported has no validation errors.
THEOREM ApprovedAreClean == ASSUME OneThread PROVE Spec => []ApprovedInvoicesAreClean
<1>1. SerialInv => ApprovedInvoicesAreClean
  BY DEF SerialInv
<1>2. QED
  BY <1>1, Serially, PTL

\* With one API thread, an invoice is downloaded once, with the approved data.
THEOREM ExportedOnce == ASSUME OneThread PROVE Spec => []ExportedOnceAsApproved
<1>1. SerialInv => ExportedOnceAsApproved
  BY DEF SerialInv
<1>2. QED
  BY <1>1, Serially, PTL

\* With one API thread, no step changes the data of a finalized document.
THEOREM FinalizedStay == ASSUME OneThread PROVE Spec => FinalizedInvoicesAreImmutable
<1>1. IInv /\ SerialInv /\ [Next]_vars =>
        [\A d \in Doc : docs[d] \in Finalized => stored'[d] = stored[d]]_vars
  <2> SUFFICES ASSUME IInv, SerialInv, Next, NEW d \in Doc, docs[d] \in Finalized
               PROVE  stored'[d] = stored[d]
    BY DEF vars
  <2>1. CASE UNCHANGED stored
    BY <2>1
  <2>2. ASSUME NEW t \in Thread, threads[t].doc = d,
               threads[t].pc \in {"extracted", "save", "draft"}
        PROVE  FALSE
    <3>1. t \in Worker => WorkerOK(threads[t])
      BY DEF SerialInv
    <3>2. t \in Request => RequestOK(threads[t])
      BY DEF SerialInv
    <3>3. QED
      BY <2>2, <3>1, <3>2 DEF Thread, WorkerOK, RequestOK, Finalized, Busy
  <2>3. stored \in [Doc -> SUBSET Extraction]
    BY DEF IInv, TypeOK
  <2>4. ASSUME NEW w \in Worker, RecordSuccess(w) PROVE stored'[d] = stored[d]
    BY <2>2, <2>3, <2>4 DEF RecordSuccess, At, Thread
  <2>5. ASSUME NEW r \in Request, CommitSave(r) PROVE stored'[d] = stored[d]
    BY <2>2, <2>3, <2>5 DEF CommitSave, Store, At, Thread
  <2>6. ASSUME NEW r \in Request, CommitDraft(r) PROVE stored'[d] = stored[d]
    BY <2>2, <2>3, <2>6 DEF CommitDraft, Store, At, Thread
  <2>7. QED
    BY <2>1, <2>4, <2>5, <2>6
       DEF Next, WorkerStep, Decide, Edit, Export, StartRun, MarkProcessing, Extract,
           RecordFailure, BeginApprove, BeginReject, BeginSave, CheckReport, CommitApprove,
           CommitReject, BeginDraft, BeginReprocess, ReadDraft, CommitReprocess, BeginExport,
           ReadRows, CommitExport, database
<1>2. QED
  BY <1>1, Invariance, Serially, PTL DEF Spec, FinalizedInvoicesAreImmutable
=============================================================================
