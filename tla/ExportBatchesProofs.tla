------------------------ MODULE ExportBatchesProofs ------------------------
(***************************************************************************)
(* Proofs about ExportBatches, for any documents, replicas, keys and       *)
(* bounds and any finite set of requests: its types, and that documents    *)
(* are exported once, runs export all or nothing, and batches agree with   *)
(* their runs, whoever edits, replays or crashes in between.               *)
(***************************************************************************)
EXTENDS ExportBatches, FiniteSetTheorems, TLAPS

\* An edit that was begun is counted once it is saved.
Editing == {r \in Request : threads[r].pc = "save_batch" /\ threads[r].batch # None}
EditsInv == edits + Cardinality(Editing) <= MaxEdits + Cardinality(Request)

\* Runs are made in order, each for a batch.
RunsInv ==
  /\ \E k \in 0..MaxRuns : Made(runs) = 1..k
  /\ \A n \in Made(runs) : runs[n].batch \in BatchId

\* An idle thread holds nothing; the copy of a batch is neither running nor
\* completed; a run that is rendered was made.
RowOK(th) ==
  /\ th.pc = "idle" => th = IdleThread
  /\ th.pc = "save_batch" => th.copy.status \in {"draft", "ready"}
  /\ th.pc \in {"render", "complete", "fail"} => th.run \in Made(runs)

ThreadsInv == \A r \in Request : RowOK(threads[r])

\* A running batch is that of its last run, and so is a completed one.
Matches(b, status) ==
  LET last == batches[b].last
  IN /\ last \in RunId /\ runs[last].batch = b /\ runs[last].status = status
     /\ runs[last].docs = batches[b].docs

BatchesInv ==
  \A b \in BatchId : /\ batches[b].status = "running" => Matches(b, "running")
                     /\ batches[b].status = "completed" => Matches(b, "succeeded")

\* Every effect is on record, with the run that had it.
ExportInv ==
  \A d \in Doc : /\ exported[d] = {} \/ \E by : exported[d] = {by}
                 /\ exported[d] # {} <=> docs[d] = "exported"
                 /\ \A n \in RunId :
                      n \in exported[d] <=> (runs[n].status = "succeeded" /\ d \in runs[n].docs)

IInv == TypeOK /\ EditsInv /\ RunsInv /\ ThreadsInv /\ BatchesInv /\ ExportInv

-----------------------------------------------------------------------------
(* Threads, rows and counters.                                               *)

LEMMA IdleRow ==
  IdleThread \in ThreadRow /\ IdleThread.pc = "idle" /\ NoBatch \in BatchRow /\ NoRun \in RunRow
BY ConstantsAssumption DEF IdleThread, ThreadRow, NoBatch, BatchRow, NoRun, RunRow

LEMMA ThreadFacts ==
  ASSUME TypeOK, NEW r \in Request
  PROVE  /\ threads \in [Request -> ThreadRow] /\ threads[r] \in ThreadRow
         /\ threads[r].batch \in BatchId \union {None} /\ threads[r].copy \in BatchRow
         /\ threads[r].run \in RunId \union {None} /\ threads[r].docs \in SUBSET Doc
BY DEF TypeOK, ThreadRow

LEMMA RowFacts ==
  ASSUME TypeOK
  PROVE  /\ \A n \in RunId : /\ runs[n] \in RunRow /\ runs[n].docs \in SUBSET Doc
                             /\ runs[n].batch \in BatchId \union {None}
         /\ \A b \in BatchId : /\ batches[b] \in BatchRow /\ batches[b].docs \in SUBSET Doc
                               /\ batches[b].last \in RunId \union {None}
         /\ DOMAIN runs = RunId /\ DOMAIN batches = BatchId
BY DEF TypeOK, RunRow, BatchRow

LEMMA EditsFacts ==
  ASSUME NEW S \in SUBSET Request
  PROVE  /\ IsFiniteSet(S) /\ Cardinality(S) \in Nat /\ Cardinality(S) <= Cardinality(Request)
         /\ Cardinality(Request) \in Nat
BY ConstantsAssumption, FS_Subset, FS_CardinalityType

\* One thread moves, and what it now holds is right.
LEMMA ThreadsStay ==
  ASSUME TypeOK, ThreadsInv, NEW r \in Request, NEW th \in ThreadRow,
         threads' = [threads EXCEPT ![r] = th], RowOK(th)', Made(runs) \subseteq Made(runs')
  PROVE  ThreadsInv' /\ threads' \in [Request -> ThreadRow]
<1>1. threads \in [Request -> ThreadRow]
  BY DEF TypeOK
<1>2. ASSUME NEW u \in Request PROVE RowOK(threads[u])'
  <2>1. CASE u = r
    <3>1. threads'[u] = th
      BY <1>1, <2>1
    <3>2. QED
      BY <3>1 DEF RowOK
  <2>2. CASE u # r
    <3>1. threads'[u] = threads[u] /\ RowOK(threads[u])
      BY <1>1, <2>2 DEF ThreadsInv
    <3>2. QED
      BY <3>1 DEF RowOK
  <2>3. QED
    BY <2>1, <2>2
<1>3. threads' \in [Request -> ThreadRow]
  BY <1>1
<1>4. QED
  BY <1>2, <1>3 DEF ThreadsInv

\* Edits in progress end, or go on.
LEMMA EditsStay ==
  ASSUME TypeOK, EditsInv, Editing' \subseteq Editing, edits' = edits
  PROVE  EditsInv' /\ edits' \in 0..(MaxEdits + Cardinality(Request))
<1>1. Editing \in SUBSET Request /\ Editing' \in SUBSET Request
  BY DEF Editing
<1>2. Cardinality(Editing') <= Cardinality(Editing)
  BY <1>1, EditsFacts, FS_Subset
<1>3. edits \in Nat /\ Cardinality(Editing) \in Nat /\ Cardinality(Editing') \in Nat
        /\ Cardinality(Request) \in Nat /\ MaxEdits \in Nat
  BY <1>1, EditsFacts, ConstantsAssumption DEF TypeOK
<1>4. edits' + Cardinality(Editing') <= MaxEdits + Cardinality(Request)
  BY <1>2, <1>3 DEF EditsInv
<1>5. QED
  BY <1>4, <1>3 DEF EditsInv, TypeOK

\* A thread that moves without beginning an edit adds none.
LEMMA EditingStays ==
  ASSUME TypeOK, NEW r \in Request, NEW th \in ThreadRow, threads' = [threads EXCEPT ![r] = th],
         th.pc # "save_batch" \/ th.batch = None
  PROVE  Editing' \subseteq Editing
<1>1. threads'[r] = th /\ \A u \in Request : u # r => threads'[u] = threads[u]
  BY ThreadFacts
<1>2. QED
  BY <1>1 DEF Editing

-----------------------------------------------------------------------------
(* Steps that only read.                                                     *)

Rows == <<docs, batches, runs, exported>>

LEMMA RowsStay ==
  ASSUME IInv, UNCHANGED Rows
  PROVE  RunsInv' /\ BatchesInv' /\ ExportInv'
BY DEF IInv, Rows, RunsInv, BatchesInv, Matches, ExportInv, Made

\* Thread r goes on as th and nothing else happens.
LEMMA LookingKeeps ==
  ASSUME IInv, NEW r \in Request, NEW th \in ThreadRow, threads' = [threads EXCEPT ![r] = th],
         RowOK(th), th.pc # "save_batch" \/ th.batch = None \/ edits < MaxEdits,
         UNCHANGED Rows, UNCHANGED <<lock, edits, crashes>>
  PROVE  IInv'
<1>1. TypeOK /\ EditsInv /\ ThreadsInv /\ runs' = runs
  BY DEF IInv, Rows
<1>2. RowOK(th)' /\ Made(runs) \subseteq Made(runs')
  BY <1>1 DEF RowOK, Made
<1>3. ThreadsInv' /\ threads' \in [Request -> ThreadRow]
  BY <1>1, <1>2, ThreadsStay
<1>4. EditsInv'
  <2>1. CASE th.pc # "save_batch" \/ th.batch = None
    BY <1>1, <2>1, EditingStays, EditsStay
  <2>2. CASE edits < MaxEdits
    <3>1. Editing' \in SUBSET Request
      BY DEF Editing
    <3>2. Cardinality(Editing') \in Nat /\ Cardinality(Editing') <= Cardinality(Request)
            /\ Cardinality(Request) \in Nat
      BY <3>1, EditsFacts
    <3>3. edits \in Nat /\ MaxEdits \in Nat
      BY <1>1, <3>2, ConstantsAssumption DEF TypeOK
    <3>4. QED
      BY <2>2, <3>2, <3>3 DEF EditsInv
  <2>3. QED
    BY <2>1, <2>2
<1>5. TypeOK'
  BY <1>1, <1>3 DEF TypeOK, Rows
<1>6. QED
  BY <1>3, <1>4, <1>5, RowsStay DEF IInv

LEMMA BeginCreateKeeps ==
  ASSUME IInv, NEW r \in Request, BeginCreate(r)
  PROVE  IInv'
<1>1. TypeOK /\ threads[r] \in ThreadRow /\ threads \in [Request -> ThreadRow]
  BY ThreadFacts DEF IInv
<1>2. PICK copy \in BatchRow :
        /\ copy.status \in {"draft", "ready"}
        /\ threads' = [threads EXCEPT ![r].pc = "save_batch", ![r].copy = copy]
  <2>1. PICK selection \in SUBSET Doc, status \in {"draft", "ready"} :
          threads' = [threads EXCEPT ![r].pc = "save_batch",
                        ![r].copy = [status |-> status, docs |-> Accepted(selection, status, None),
                                     last |-> None]]
    BY DEF BeginCreate
  <2>2. [status |-> status, docs |-> Accepted(selection, status, None), last |-> None] \in BatchRow
    BY DEF Accepted, BatchRow
  <2>3. QED
    BY <2>1, <2>2
<1>3. PICK th \in ThreadRow : th = [threads[r] EXCEPT !.pc = "save_batch", !.copy = copy]
  BY <1>1 DEF ThreadRow
<1>4. threads[r] = IdleThread
  BY DEF IInv, ThreadsInv, RowOK, BeginCreate, At
<1>5. threads' = [threads EXCEPT ![r] = th] /\ th.pc = "save_batch" /\ th.copy = copy /\ th.batch = None
  <2>1. threads' = [threads EXCEPT ![r] = th] /\ th.pc = "save_batch" /\ th.copy = copy
    BY <1>1, <1>2, <1>3 DEF ThreadRow
  <2>2. th.batch = threads[r].batch
    BY <1>1, <1>3 DEF ThreadRow
  <2>3. threads[r].batch = None
    BY <1>4 DEF IdleThread
  <2>4. QED
    BY <2>1, <2>2, <2>3
<1>6. RowOK(th)
  BY <1>2, <1>5 DEF RowOK
<1>7. UNCHANGED Rows /\ UNCHANGED <<lock, edits, crashes>>
  BY DEF BeginCreate, Rows
<1>8. QED
  BY <1>5, <1>6, <1>7, LookingKeeps

LEMMA BeginUpdateKeeps ==
  ASSUME IInv, NEW r \in Request, NEW b \in BatchId, BeginUpdate(r, b)
  PROVE  IInv'
<1>1. TypeOK /\ threads[r] \in ThreadRow /\ threads \in [Request -> ThreadRow]
        /\ batches[b] \in BatchRow
  BY ThreadFacts, RowFacts DEF IInv
<1>2. PICK copy \in BatchRow :
        /\ copy.status \in {"draft", "ready"}
        /\ threads' = [threads EXCEPT ![r].pc = "save_batch", ![r].batch = b, ![r].copy = copy]
  <2>1. PICK selection \in SUBSET Doc, status \in {"draft", "ready"} :
          threads' = [threads EXCEPT ![r].pc = "save_batch", ![r].batch = b,
                        ![r].copy = [batches[b] EXCEPT !.status = status,
                                       !.docs = Accepted(selection, status, b)]]
    BY DEF BeginUpdate
  <2>2. Accepted(selection, status, b) \in SUBSET Doc
    BY DEF Accepted
  <2>3. [batches[b] EXCEPT !.status = status, !.docs = Accepted(selection, status, b)] \in BatchRow
    BY <1>1, <2>2 DEF BatchRow
  <2>4. [batches[b] EXCEPT !.status = status, !.docs = Accepted(selection, status, b)].status = status
    BY <1>1 DEF BatchRow
  <2>5. QED
    BY <2>1, <2>3, <2>4
<1>3. PICK th \in ThreadRow : th = [threads[r] EXCEPT !.pc = "save_batch", !.batch = b, !.copy = copy]
  BY <1>1 DEF ThreadRow
<1>4. threads' = [threads EXCEPT ![r] = th] /\ th.pc = "save_batch" /\ th.copy = copy
  BY <1>1, <1>2, <1>3 DEF ThreadRow
<1>5. RowOK(th)
  BY <1>2, <1>4 DEF RowOK
<1>6. UNCHANGED Rows /\ UNCHANGED <<lock, edits, crashes>> /\ edits < MaxEdits
  BY DEF BeginUpdate, Rows
<1>7. QED
  BY <1>4, <1>5, <1>6, LookingKeeps

LEMMA RenderKeeps ==
  ASSUME IInv, NEW r \in Request, Render(r)
  PROVE  IInv'
<1>1. TypeOK /\ threads[r] \in ThreadRow /\ threads \in [Request -> ThreadRow]
        /\ RowOK(threads[r]) /\ threads[r].pc = "render"
  BY ThreadFacts DEF IInv, ThreadsInv, Render, At
<1>2. PICK next \in {"complete", "fail"} : threads' = [threads EXCEPT ![r].pc = next]
  BY DEF Render
<1>3. PICK th \in ThreadRow : th = [threads[r] EXCEPT !.pc = next]
  BY <1>1 DEF ThreadRow
<1>4. threads' = [threads EXCEPT ![r] = th] /\ th.pc = next /\ th.run = threads[r].run
  BY <1>1, <1>2, <1>3 DEF ThreadRow
<1>5. RowOK(th)
  BY <1>1, <1>4 DEF RowOK
<1>6. UNCHANGED Rows /\ UNCHANGED <<lock, edits, crashes>> /\ th.pc # "save_batch"
  BY <1>4 DEF Render, Rows
<1>7. QED
  BY <1>4, <1>5, <1>6, LookingKeeps

LEMMA BeginDownloadKeeps ==
  ASSUME IInv, NEW r \in Request, BeginDownload(r)
  PROVE  IInv'
<1>1. TypeOK /\ threads[r] \in ThreadRow /\ threads \in [Request -> ThreadRow]
  BY ThreadFacts DEF IInv
<1>2. PICK approved \in SUBSET Doc :
        threads' = [threads EXCEPT ![r].pc = "download", ![r].docs = approved]
  BY DEF BeginDownload
<1>3. PICK th \in ThreadRow : th = [threads[r] EXCEPT !.pc = "download", !.docs = approved]
  BY <1>1 DEF ThreadRow
<1>4. threads' = [threads EXCEPT ![r] = th] /\ th.pc = "download"
  BY <1>1, <1>2, <1>3 DEF ThreadRow
<1>5. RowOK(th) /\ th.pc # "save_batch"
  BY <1>4 DEF RowOK
<1>6. UNCHANGED Rows /\ UNCHANGED <<lock, edits, crashes>>
  BY DEF BeginDownload, Rows
<1>7. QED
  BY <1>4, <1>5, <1>6, LookingKeeps

-----------------------------------------------------------------------------
(* Batches that are saved, runs that are reserved.                           *)

\* A saved copy is neither running nor completed, so no run is concerned.
LEMMA SaveBatchKeeps ==
  ASSUME IInv, NEW r \in Request, SaveBatch(r)
  PROVE  IInv'
<1>1. /\ TypeOK /\ threads[r] \in ThreadRow /\ threads \in [Request -> ThreadRow]
      /\ RowOK(threads[r]) /\ threads[r].pc = "save_batch" /\ threads[r].copy \in BatchRow
      /\ EditsInv /\ ThreadsInv
  BY ThreadFacts DEF IInv, ThreadsInv, SaveBatch, At
<1>2. PICK copy \in BatchRow : copy = threads[r].copy /\ copy.status \in {"draft", "ready"}
  BY <1>1 DEF RowOK
<1>3. /\ docs' = docs /\ runs' = runs /\ lock' = lock /\ exported' = exported
      /\ crashes' = crashes /\ threads' = [threads EXCEPT ![r] = IdleThread]
  BY DEF SaveBatch, Finish
<1>4. PICK b \in BatchId : batches' = [batches EXCEPT ![b] = copy]
  <2>1. threads[r].batch # None => threads[r].batch \in BatchId
    BY <1>1, ThreadFacts
  <2>2. QED
    BY <1>2, <2>1 DEF SaveBatch
<1>5. RowOK(IdleThread)' /\ Made(runs) \subseteq Made(runs')
  BY <1>3, IdleRow DEF RowOK, Made
<1>6. ThreadsInv' /\ threads' \in [Request -> ThreadRow]
  BY <1>1, <1>3, <1>5, IdleRow, ThreadsStay
<1>7. EditsInv' /\ edits' \in 0..(MaxEdits + Cardinality(Request))
  <2>1. Editing' \subseteq Editing
    BY <1>1, <1>3, IdleRow, EditingStays
  <2>2. CASE edits' = edits
    BY <1>1, <2>1, <2>2, EditsStay
  <2>3. CASE threads[r].batch # None /\ edits' = edits + 1
    <3>1. r \in Editing /\ Editing' = Editing \ {r} /\ Editing \in SUBSET Request
      BY <1>1, <1>3, <2>3, IdleRow DEF Editing
    <3>2. /\ Cardinality(Editing') = Cardinality(Editing) - 1
          /\ Cardinality(Editing) \in Nat /\ Cardinality(Request) \in Nat
      BY <3>1, EditsFacts, FS_RemoveElement
    <3>3. Editing' \in SUBSET Request
      BY <3>1
    <3>4. Cardinality(Editing') \in Nat
      BY <3>3, ConstantsAssumption, FS_Subset, FS_CardinalityType
    <3>5. edits \in Nat /\ MaxEdits \in Nat
      BY <1>1, <3>2, ConstantsAssumption DEF TypeOK
    <3>6. edits' + Cardinality(Editing') <= MaxEdits + Cardinality(Request)
      BY <1>1, <2>3, <3>2, <3>4, <3>5 DEF EditsInv
    <3>7. QED
      BY <2>3, <3>2, <3>4, <3>5, <3>6 DEF EditsInv
  <2>4. QED
    BY <2>2, <2>3 DEF SaveBatch
<1>8. batches' \in [BatchId -> BatchRow] /\ batches'[b] = copy
        /\ \A c \in BatchId : c # b => batches'[c] = batches[c]
  BY <1>1, <1>4 DEF TypeOK
<1>9. TypeOK'
  BY <1>1, <1>3, <1>6, <1>7, <1>8 DEF TypeOK
<1>10. RunsInv' /\ ExportInv'
  BY <1>3 DEF IInv, RunsInv, ExportInv, Made
<1>11. BatchesInv'
  <2>1. ASSUME NEW c \in BatchId
        PROVE  /\ batches'[c].status = "running" => Matches(c, "running")'
               /\ batches'[c].status = "completed" => Matches(c, "succeeded")'
    <3>1. CASE c = b
      BY <1>2, <1>8, <3>1
    <3>2. CASE c # b
      BY <1>3, <1>8, <3>2 DEF IInv, BatchesInv, Matches
    <3>3. QED
      BY <3>1, <3>2
  <2>2. QED
    BY <2>1 DEF BatchesInv
<1>12. QED
  BY <1>6, <1>7, <1>9, <1>10, <1>11 DEF IInv

\* The next run is one that was not made.
LEMMA NextRun ==
  ASSUME RunsInv, NEW n \in RunId, n = Cardinality(Made(runs)) + 1
  PROVE  n \notin Made(runs) /\ Made(runs) \union {n} = 1..n /\ n \in 0..MaxRuns
<1>1. PICK k \in 0..MaxRuns : Made(runs) = 1..k
  BY DEF RunsInv
<1>2. k \in Nat /\ 1 \in Int /\ k \in Int
  BY ConstantsAssumption
<1>3. Cardinality(1..k) = k
  BY <1>2, FS_Interval
<1>4. n = k + 1
  BY <1>1, <1>3
<1>5. QED
  BY <1>1, <1>2, <1>4, ConstantsAssumption DEF RunId

LEMMA ReserveKeeps ==
  ASSUME IInv, NEW r \in Request, NEW b \in BatchId, NEW key \in Key, Reserve(r, b, key)
  PROVE  IInv'
<1>1. /\ TypeOK /\ EditsInv /\ ThreadsInv /\ RunsInv /\ BatchesInv /\ ExportInv
      /\ threads[r] \in ThreadRow /\ threads \in [Request -> ThreadRow]
      /\ batches[b] \in BatchRow /\ batches[b].docs \in SUBSET Doc
      /\ runs \in [RunId -> RunRow] /\ batches \in [BatchId -> BatchRow]
  BY ThreadFacts, RowFacts DEF IInv, TypeOK
<1>2. PICK n \in RunId :
        /\ n = Cardinality(Made(runs)) + 1
        /\ runs' = [runs EXCEPT ![n] = [status |-> "running", batch |-> b, docs |-> batches[b].docs,
                                        key |-> key, old |-> FALSE]]
        /\ batches' = [batches EXCEPT ![b].status = "running", ![b].last = n]
        /\ threads' = [threads EXCEPT ![r].pc = "render", ![r].run = n]
  BY DEF Reserve
<1>3. n \notin Made(runs) /\ Made(runs) \union {n} = 1..n /\ n \in 0..MaxRuns
  BY <1>1, <1>2, NextRun
<1>4. PICK row \in RunRow : row = [status |-> "running", batch |-> b, docs |-> batches[b].docs,
                                   key |-> key, old |-> FALSE]
  BY <1>1 DEF RunRow
<1>5. /\ row.status = "running" /\ row.batch = b /\ row.docs = batches[b].docs
      /\ runs' = [runs EXCEPT ![n] = row]
  BY <1>2, <1>4
<1>6. /\ runs' \in [RunId -> RunRow] /\ runs'[n] = row
      /\ \A m \in RunId : m # n => runs'[m] = runs[m]
  BY <1>1, <1>5
<1>7. /\ batches' \in [BatchId -> BatchRow] /\ batches'[b].status = "running"
      /\ batches'[b].last = n /\ batches'[b].docs = batches[b].docs
      /\ \A c \in BatchId : c # b => batches'[c] = batches[c]
  <2>1. [batches[b] EXCEPT !.status = "running", !.last = n] \in BatchRow
    BY <1>1 DEF BatchRow
  <2>2. batches' = [batches EXCEPT ![b] = [batches[b] EXCEPT !.status = "running", !.last = n]]
    BY <1>1, <1>2
  <2>3. QED
    BY <1>1, <2>1, <2>2 DEF BatchRow
<1>8. docs' = docs /\ exported' = exported /\ edits' = edits /\ crashes' = crashes
        /\ lock' = [lock EXCEPT ![Host[r]] = r]
  BY DEF Reserve
<1>9. runs[n].status = "none" /\ Made(runs') = 1..n /\ Made(runs) \subseteq Made(runs')
  BY <1>1, <1>3, <1>5, <1>6 DEF Made
<1>10. PICK th \in ThreadRow : th = [threads[r] EXCEPT !.pc = "render", !.run = n]
  BY <1>1 DEF ThreadRow
<1>11. threads' = [threads EXCEPT ![r] = th] /\ th.pc = "render" /\ th.run = n
  BY <1>1, <1>2, <1>10 DEF ThreadRow
<1>12. RowOK(th)'
  BY <1>3, <1>9, <1>11 DEF RowOK, RunId
<1>13. ThreadsInv' /\ threads' \in [Request -> ThreadRow]
  BY <1>1, <1>9, <1>11, <1>12, ThreadsStay
<1>14. EditsInv' /\ edits' \in 0..(MaxEdits + Cardinality(Request))
  BY <1>1, <1>8, <1>11, EditingStays, EditsStay
<1>15. lock' \in [Replica -> Request \union {Nobody}]
  BY <1>1, <1>8 DEF TypeOK
<1>16. TypeOK'
  BY <1>1, <1>6, <1>7, <1>8, <1>13, <1>14, <1>15 DEF TypeOK
<1>17. RunsInv'
  BY <1>1, <1>3, <1>5, <1>6, <1>9 DEF RunsInv, Made
<1>18. BatchesInv'
  <2>1. ASSUME NEW c \in BatchId
        PROVE  /\ batches'[c].status = "running" => Matches(c, "running")'
               /\ batches'[c].status = "completed" => Matches(c, "succeeded")'
    <3>1. CASE c = b
      BY <1>5, <1>6, <1>7, <3>1 DEF Matches
    <3>2. CASE c # b
      BY <1>1, <1>6, <1>7, <1>9, <3>2 DEF BatchesInv, Matches
    <3>3. QED
      BY <3>1, <3>2
  <2>2. QED
    BY <2>1 DEF BatchesInv
<1>19. ExportInv'
  <2>1. ASSUME NEW d \in Doc, NEW m \in RunId
        PROVE  m \in exported[d] <=> (runs'[m].status = "succeeded" /\ d \in runs'[m].docs)
    <3>1. CASE m = n
      BY <1>1, <1>5, <1>6, <1>9, <3>1 DEF ExportInv
    <3>2. CASE m # n
      BY <1>1, <1>6, <3>2 DEF ExportInv
    <3>3. QED
      BY <3>1, <3>2
  <2>2. QED
    BY <1>1, <1>8, <2>1 DEF ExportInv
<1>20. QED
  BY <1>13, <1>14, <1>16, <1>17, <1>18, <1>19 DEF IInv

-----------------------------------------------------------------------------
(* Runs that succeed or fail.                                                *)

\* Thread r answers its request.
LEMMA FinishKeeps ==
  ASSUME TypeOK, ThreadsInv, EditsInv, NEW r \in Request, Finish(r), edits' = edits,
         Made(runs) \subseteq Made(runs')
  PROVE  /\ ThreadsInv' /\ threads' \in [Request -> ThreadRow]
         /\ EditsInv' /\ edits' \in 0..(MaxEdits + Cardinality(Request))
<1>1. threads' = [threads EXCEPT ![r] = IdleThread] /\ IdleThread.pc # "save_batch"
  BY IdleRow DEF Finish
<1>2. RowOK(IdleThread)'
  BY IdleRow DEF RowOK
<1>3. Editing' \subseteq Editing
  BY <1>1, IdleRow, EditingStays
<1>4. QED
  BY <1>1, <1>2, <1>3, IdleRow, ThreadsStay, EditsStay

\* A run fails, and its batch with it when the batch is still the run's.
LEMMA RunFails ==
  ASSUME IInv, NEW n \in Made(runs), runs[n].status = "running", FailRun(n),
         docs' = docs, exported' = exported
  PROVE  /\ runs' \in [RunId -> RunRow] /\ batches' \in [BatchId -> BatchRow]
         /\ Made(runs') = Made(runs) /\ RunsInv' /\ BatchesInv' /\ ExportInv'
<1>1. /\ n \in RunId /\ runs \in [RunId -> RunRow] /\ batches \in [BatchId -> BatchRow]
      /\ RunsInv /\ BatchesInv /\ ExportInv /\ runs[n].batch \in BatchId
  BY DEF IInv, TypeOK, Made, RunsInv
<1>2. PICK row \in RunRow : row = [runs[n] EXCEPT !.status = "failed"]
  BY <1>1 DEF RunRow
<1>3. /\ runs' = [runs EXCEPT ![n] = row] /\ row.status = "failed"
      /\ row.batch = runs[n].batch /\ row.docs = runs[n].docs
  BY <1>1, <1>2 DEF FailRun, RunRow
<1>4. /\ runs' \in [RunId -> RunRow] /\ runs'[n] = row
      /\ \A m \in RunId : m # n => runs'[m] = runs[m]
  BY <1>1, <1>3
<1>5. Made(runs') = Made(runs)
  BY <1>1, <1>3, <1>4 DEF Made
<1>6. RunsInv'
  BY <1>1, <1>3, <1>4, <1>5 DEF RunsInv, Made
<1>7. /\ batches' \in [BatchId -> BatchRow]
      /\ \A c \in BatchId : batches'[c].status \in {"running", "completed"} =>
           batches'[c] = batches[c] /\ ~(batches[c].status = "running" /\ batches[c].last = n
                                         /\ c = runs[n].batch)
  <2>1. CASE Coherent(n)
    <3>1. PICK b \in BatchId : b = runs[n].batch
      BY <1>1
    <3>2. PICK failed \in BatchRow : failed = [batches[b] EXCEPT !.status = "failed"]
      BY <1>1 DEF BatchRow
    <3>3. batches' = [batches EXCEPT ![b] = failed] /\ failed.status = "failed"
      BY <1>1, <2>1, <3>1, <3>2 DEF FailRun, BatchRow
    <3>4. QED
      BY <1>1, <3>1, <3>3
  <2>2. CASE ~Coherent(n)
    BY <1>1, <2>2 DEF FailRun, Coherent
  <2>3. QED
    BY <2>1, <2>2
<1>8. BatchesInv'
  <2>1. ASSUME NEW c \in BatchId, batches'[c].status = "running"
        PROVE  Matches(c, "running")'
    <3>1. batches'[c] = batches[c] /\ Matches(c, "running")
      BY <1>1, <1>7, <2>1 DEF BatchesInv
    <3>2. batches[c].last # n
      BY <1>7, <2>1, <3>1 DEF Matches
    <3>3. QED
      BY <1>4, <3>1, <3>2 DEF Matches
  <2>2. ASSUME NEW c \in BatchId, batches'[c].status = "completed"
        PROVE  Matches(c, "succeeded")'
    <3>1. batches'[c] = batches[c] /\ Matches(c, "succeeded")
      BY <1>1, <1>7, <2>2 DEF BatchesInv
    <3>2. QED
      BY <1>4, <3>1 DEF Matches
  <2>3. QED
    BY <2>1, <2>2 DEF BatchesInv
<1>9. ExportInv'
  <2>1. ASSUME NEW d \in Doc, NEW m \in RunId
        PROVE  m \in exported[d] <=> (runs'[m].status = "succeeded" /\ d \in runs'[m].docs)
    <3>1. CASE m = n
      BY <1>1, <1>3, <1>4, <3>1 DEF ExportInv
    <3>2. CASE m # n
      BY <1>1, <1>4, <3>2 DEF ExportInv
    <3>3. QED
      BY <3>1, <3>2
  <2>2. QED
    BY <1>1, <2>1 DEF ExportInv
<1>10. QED
  BY <1>4, <1>5, <1>6, <1>7, <1>8, <1>9

LEMMA ReplayKeeps ==
  ASSUME IInv, NEW r \in Request, NEW b \in BatchId, NEW key \in Key, Replay(r, b, key)
  PROVE  IInv'
<1>1. PICK n \in Made(runs) : runs[n].status = "running" /\ FailRun(n)
  BY DEF Replay, RunsOfKey
<1>2. UNCHANGED <<docs, lock, threads, exported, edits, crashes>>
  BY DEF Replay
<1>3. /\ runs' \in [RunId -> RunRow] /\ batches' \in [BatchId -> BatchRow]
      /\ Made(runs') = Made(runs) /\ RunsInv' /\ BatchesInv' /\ ExportInv'
  BY <1>1, <1>2, RunFails
<1>4. TypeOK'
  BY <1>2, <1>3 DEF IInv, TypeOK
<1>5. ThreadsInv' /\ EditsInv'
  BY <1>2, <1>3 DEF IInv, ThreadsInv, RowOK, EditsInv, Editing
<1>6. QED
  BY <1>3, <1>4, <1>5 DEF IInv

LEMMA FailKeeps ==
  ASSUME IInv, NEW r \in Request, Fail(r)
  PROVE  IInv'
<1>1. TypeOK /\ ThreadsInv /\ EditsInv /\ threads[r].run \in Made(runs)
  BY DEF IInv, ThreadsInv, RowOK, Fail, At
<1>2. PICK n \in Made(runs) : n = threads[r].run
  BY <1>1
<1>3. /\ docs' = docs /\ exported' = exported /\ edits' = edits /\ crashes' = crashes
      /\ lock' = [lock EXCEPT ![Host[r]] = Nobody] /\ Finish(r)
      /\ IF runs[n].status = "running" THEN FailRun(n) ELSE UNCHANGED <<runs, batches>>
  BY <1>2 DEF Fail
<1>4. /\ runs' \in [RunId -> RunRow] /\ batches' \in [BatchId -> BatchRow]
      /\ Made(runs') = Made(runs) /\ RunsInv' /\ BatchesInv' /\ ExportInv'
  <2>1. CASE runs[n].status = "running"
    BY <1>3, <2>1, RunFails
  <2>2. CASE runs[n].status # "running"
    <3>1. UNCHANGED Rows
      BY <1>3, <2>2 DEF Rows
    <3>2. runs' = runs /\ batches' = batches
      BY <3>1 DEF Rows
    <3>3. QED
      BY <1>1, <3>1, <3>2, RowsStay DEF TypeOK, Made
  <2>3. QED
    BY <2>1, <2>2
<1>5. /\ ThreadsInv' /\ threads' \in [Request -> ThreadRow]
      /\ EditsInv' /\ edits' \in 0..(MaxEdits + Cardinality(Request))
  BY <1>1, <1>3, <1>4, FinishKeeps
<1>6. lock' \in [Replica -> Request \union {Nobody}]
  BY <1>1, <1>3 DEF TypeOK
<1>7. TypeOK'
  BY <1>1, <1>3, <1>4, <1>5, <1>6 DEF TypeOK
<1>8. QED
  BY <1>4, <1>5, <1>7 DEF IInv

\* The documents of the run were approved, hence exported by nobody; the
\* batch is the run's, so no other batch is its.
LEMMA RunSucceeds ==
  ASSUME IInv, NEW n \in Made(runs), runs[n].status = "running", Coherent(n),
         \A d \in runs[n].docs : docs[d] = "approved", MarkExported(runs[n].docs, n),
         runs' = [runs EXCEPT ![n].status = "succeeded"],
         batches' = [batches EXCEPT ![runs[n].batch].status = "completed"]
  PROVE  /\ runs' \in [RunId -> RunRow] /\ batches' \in [BatchId -> BatchRow]
         /\ docs' \in [Doc -> {"needs_review", "approved", "exported"}]
         /\ exported' \in [Doc -> SUBSET (RunId \union {Download})]
         /\ Made(runs') = Made(runs) /\ RunsInv' /\ BatchesInv' /\ ExportInv'
<1>1. /\ n \in RunId /\ runs \in [RunId -> RunRow] /\ batches \in [BatchId -> BatchRow]
      /\ docs \in [Doc -> {"needs_review", "approved", "exported"}]
      /\ exported \in [Doc -> SUBSET (RunId \union {Download})]
      /\ RunsInv /\ BatchesInv /\ ExportInv /\ runs[n].batch \in BatchId
  BY DEF IInv, TypeOK, Made, RunsInv
<1>2. PICK row \in RunRow : row = [runs[n] EXCEPT !.status = "succeeded"]
  BY <1>1 DEF RunRow
<1>3. /\ runs' = [runs EXCEPT ![n] = row] /\ row.status = "succeeded"
      /\ row.batch = runs[n].batch /\ row.docs = runs[n].docs
  BY <1>1, <1>2 DEF RunRow
<1>4. /\ runs' \in [RunId -> RunRow] /\ runs'[n] = row
      /\ \A m \in RunId : m # n => runs'[m] = runs[m]
  BY <1>1, <1>3
<1>5. Made(runs') = Made(runs)
  BY <1>1, <1>3, <1>4 DEF Made
<1>6. RunsInv'
  BY <1>1, <1>3, <1>4, <1>5 DEF RunsInv, Made
<1>7. PICK b \in BatchId : b = runs[n].batch
  BY <1>1
<1>8. PICK done \in BatchRow : done = [batches[b] EXCEPT !.status = "completed"]
  BY <1>1 DEF BatchRow
<1>9. /\ batches' = [batches EXCEPT ![b] = done] /\ done.status = "completed"
      /\ done.last = batches[b].last /\ done.docs = batches[b].docs
  BY <1>1, <1>7, <1>8 DEF BatchRow
<1>10. /\ batches' \in [BatchId -> BatchRow] /\ batches'[b] = done
       /\ \A c \in BatchId : c # b => batches'[c] = batches[c]
  BY <1>1, <1>9
<1>11. batches[b].last = n /\ Matches(b, "running")
  BY <1>1, <1>7 DEF Coherent, BatchesInv
<1>12. BatchesInv'
  <2>1. ASSUME NEW c \in BatchId
        PROVE  /\ batches'[c].status = "running" => Matches(c, "running")'
               /\ batches'[c].status = "completed" => Matches(c, "succeeded")'
    <3>1. CASE c = b
      BY <1>1, <1>3, <1>4, <1>9, <1>10, <1>11, <3>1 DEF Matches
    <3>2. CASE c # b
      <4>1. ASSUME NEW status \in {"running", "succeeded"}, Matches(c, status)
            PROVE  Matches(c, status)'
        <5>1. batches[c].last # n
          BY <1>7, <3>2, <4>1 DEF Matches
        <5>2. QED
          BY <1>4, <1>10, <3>2, <4>1, <5>1 DEF Matches
      <4>2. QED
        BY <1>1, <1>10, <3>2, <4>1 DEF BatchesInv
    <3>3. QED
      BY <3>1, <3>2
  <2>2. QED
    BY <2>1 DEF BatchesInv
<1>13. \A d \in Doc :
         /\ d \in runs[n].docs => docs'[d] = "exported" /\ exported[d] = {} /\ exported'[d] = {n}
         /\ d \notin runs[n].docs => docs'[d] = docs[d] /\ exported'[d] = exported[d]
  <2>1. ASSUME NEW d \in Doc, d \in runs[n].docs
        PROVE  docs'[d] = "exported" /\ exported[d] = {} /\ exported'[d] = {n}
    <3>1. exported[d] = {}
      BY <1>1, <2>1 DEF ExportInv
    <3>2. QED
      BY <1>1, <2>1, <3>1 DEF MarkExported
  <2>2. ASSUME NEW d \in Doc, d \notin runs[n].docs
        PROVE  docs'[d] = docs[d] /\ exported'[d] = exported[d]
    BY <1>1, <2>2 DEF MarkExported
  <2>3. QED
    BY <2>1, <2>2
<1>14. /\ docs' \in [Doc -> {"needs_review", "approved", "exported"}]
       /\ exported' \in [Doc -> SUBSET (RunId \union {Download})]
  BY <1>1 DEF MarkExported
<1>15. ExportInv'
  <2>1. ASSUME NEW d \in Doc
        PROVE  /\ (exported'[d] = {} \/ \E by : exported'[d] = {by})
               /\ (exported'[d] # {} <=> docs'[d] = "exported")
    <3>1. CASE d \in runs[n].docs
      <4>1. exported'[d] = {n} /\ docs'[d] = "exported" /\ {n} # {}
        BY <1>13, <3>1
      <4>2. QED
        BY <4>1
    <3>2. CASE d \notin runs[n].docs
      <4>1. exported'[d] = exported[d] /\ docs'[d] = docs[d]
        BY <1>13, <3>2
      <4>2. QED
        BY <1>1, <4>1, ZenonT(60) DEF ExportInv
    <3>3. QED
      BY <3>1, <3>2
  <2>2. ASSUME NEW d \in Doc, NEW m \in RunId
        PROVE  m \in exported'[d] <=> (runs'[m].status = "succeeded" /\ d \in runs'[m].docs)
    <3>1. CASE m = n
      BY <1>1, <1>3, <1>4, <1>13, <3>1 DEF ExportInv
    <3>2. CASE m # n
      BY <1>1, <1>4, <1>13, <3>2 DEF ExportInv
    <3>3. QED
      BY <3>1, <3>2
  <2>3. QED
    BY <2>1, <2>2 DEF ExportInv
<1>16. QED
  BY <1>4, <1>5, <1>6, <1>10, <1>12, <1>14, <1>15

LEMMA CompleteKeeps ==
  ASSUME IInv, NEW r \in Request, Complete(r)
  PROVE  IInv'
<1>1. /\ TypeOK /\ ThreadsInv /\ EditsInv /\ threads[r] \in ThreadRow
      /\ threads \in [Request -> ThreadRow]
      /\ threads[r].pc = "complete" /\ threads[r].run \in Made(runs)
  BY ThreadFacts DEF IInv, ThreadsInv, RowOK, Complete, At
<1>2. PICK n \in Made(runs) : n = threads[r].run
  BY <1>1
<1>3. CASE /\ Coherent(n) /\ runs[n].status = "running"
           /\ \A d \in runs[n].docs : docs[d] = "approved"
  <2>1. /\ MarkExported(runs[n].docs, n) /\ Finish(r)
        /\ runs' = [runs EXCEPT ![n].status = "succeeded"]
        /\ batches' = [batches EXCEPT ![runs[n].batch].status = "completed"]
        /\ lock' = [lock EXCEPT ![Host[r]] = Nobody] /\ edits' = edits /\ crashes' = crashes
    BY <1>2, <1>3 DEF Complete
  <2>2. /\ runs' \in [RunId -> RunRow] /\ batches' \in [BatchId -> BatchRow]
        /\ docs' \in [Doc -> {"needs_review", "approved", "exported"}]
        /\ exported' \in [Doc -> SUBSET (RunId \union {Download})]
        /\ Made(runs') = Made(runs) /\ RunsInv' /\ BatchesInv' /\ ExportInv'
    BY <1>3, <2>1, RunSucceeds
  <2>3. /\ ThreadsInv' /\ threads' \in [Request -> ThreadRow]
        /\ EditsInv' /\ edits' \in 0..(MaxEdits + Cardinality(Request))
    BY <1>1, <2>1, <2>2, FinishKeeps
  <2>4. lock' \in [Replica -> Request \union {Nobody}]
    BY <1>1, <2>1 DEF TypeOK
  <2>5. TypeOK'
    BY <1>1, <2>1, <2>2, <2>3, <2>4 DEF TypeOK
  <2>6. QED
    BY <2>2, <2>3, <2>5 DEF IInv
<1>4. CASE ~(/\ Coherent(n) /\ runs[n].status = "running"
             /\ \A d \in runs[n].docs : docs[d] = "approved")
  <2>1. threads' = [threads EXCEPT ![r].pc = "fail"] /\ UNCHANGED Rows
          /\ UNCHANGED <<lock, edits, crashes>>
    BY <1>2, <1>4 DEF Complete, Rows
  <2>2. PICK th \in ThreadRow : th = [threads[r] EXCEPT !.pc = "fail"]
    BY <1>1 DEF ThreadRow
  <2>3. threads' = [threads EXCEPT ![r] = th] /\ th.pc = "fail" /\ th.run = threads[r].run
    BY <1>1, <2>1, <2>2 DEF ThreadRow
  <2>4. RowOK(th)
    BY <1>1, <2>3 DEF RowOK
  <2>5. QED
    BY <2>1, <2>3, <2>4, LookingKeeps
<1>5. QED
  BY <1>3, <1>4

-----------------------------------------------------------------------------
(* The direct download, approvals, time and crashes.                         *)

\* No run is Download, and what was approved was exported by nobody.
LEMMA CommitDownloadKeeps ==
  ASSUME IInv, NEW r \in Request, CommitDownload(r)
  PROVE  IInv'
<1>1. /\ TypeOK /\ ThreadsInv /\ EditsInv /\ RunsInv /\ BatchesInv /\ ExportInv
      /\ threads[r].docs \in SUBSET Doc
      /\ docs \in [Doc -> {"needs_review", "approved", "exported"}]
      /\ exported \in [Doc -> SUBSET (RunId \union {Download})]
  BY ThreadFacts DEF IInv, TypeOK
<1>2. PICK selected \in SUBSET Doc : selected = threads[r].docs
  BY <1>1
<1>3. /\ batches' = batches /\ runs' = runs /\ lock' = lock /\ edits' = edits
      /\ crashes' = crashes /\ Finish(r)
  BY DEF CommitDownload
<1>4. Made(runs') = Made(runs)
  BY <1>3 DEF Made
<1>5. /\ ThreadsInv' /\ threads' \in [Request -> ThreadRow]
      /\ EditsInv' /\ edits' \in 0..(MaxEdits + Cardinality(Request))
  BY <1>1, <1>3, <1>4, FinishKeeps
<1>6. RunsInv' /\ BatchesInv'
  BY <1>1, <1>3 DEF RunsInv, BatchesInv, Matches, Made
<1>7. /\ docs' \in [Doc -> {"needs_review", "approved", "exported"}]
      /\ exported' \in [Doc -> SUBSET (RunId \union {Download})]
      /\ ExportInv'
  <2>1. CASE \A d \in selected : docs[d] = "approved"
    <3>1. MarkExported(selected, Download)
      BY <1>2, <2>1 DEF CommitDownload
    <3>2. /\ docs' \in [Doc -> {"needs_review", "approved", "exported"}]
          /\ exported' \in [Doc -> SUBSET (RunId \union {Download})]
      BY <1>1, <3>1 DEF MarkExported
    <3>3. ASSUME NEW d \in Doc
          PROVE  /\ (exported'[d] = {} \/ \E by : exported'[d] = {by})
                 /\ (exported'[d] # {} <=> docs'[d] = "exported")
                 /\ \A m \in RunId : m \in exported'[d] <=> m \in exported[d]
      <4>1. CASE d \in selected
        <5>1. exported[d] = {} /\ exported'[d] = {Download} /\ docs'[d] = "exported"
          <6>1. exported[d] = {}
            BY <1>1, <2>1, <4>1 DEF ExportInv
          <6>2. QED
            BY <3>1, <4>1, <6>1 DEF MarkExported
        <5>2. Download \notin RunId
          BY ConstantsAssumption DEF Download, RunId
        <5>3. QED
          BY <5>1, <5>2
      <4>2. CASE d \notin selected
        <5>1. exported'[d] = exported[d] /\ docs'[d] = docs[d]
          BY <1>1, <3>1, <4>2 DEF MarkExported
        <5>2. QED
          BY <1>1, <5>1 DEF ExportInv
      <4>3. QED
        BY <4>1, <4>2
    <3>4. ExportInv'
      BY <1>1, <1>3, <3>3 DEF ExportInv
    <3>5. QED
      BY <3>2, <3>4
  <2>2. CASE ~(\A d \in selected : docs[d] = "approved")
    <3>1. docs' = docs /\ exported' = exported
      BY <1>2, <2>2 DEF CommitDownload
    <3>2. QED
      BY <1>1, <1>3, <3>1 DEF ExportInv
  <2>3. QED
    BY <2>1, <2>2
<1>8. TypeOK'
  BY <1>1, <1>3, <1>5, <1>7 DEF TypeOK
<1>9. QED
  BY <1>5, <1>6, <1>7, <1>8 DEF IInv

LEMMA ApproveKeeps ==
  ASSUME IInv, NEW d \in Doc, Approve(d)
  PROVE  IInv'
<1>1. /\ docs \in [Doc -> {"needs_review", "approved", "exported"}]
      /\ docs[d] = "needs_review" /\ docs' = [docs EXCEPT ![d] = "approved"]
      /\ UNCHANGED <<batches, runs, lock, threads, exported, edits, crashes>>
  BY DEF IInv, TypeOK, Approve
<1>2. docs' \in [Doc -> {"needs_review", "approved", "exported"}]
        /\ \A e \in Doc : docs'[e] = "exported" <=> docs[e] = "exported"
  BY <1>1
<1>3. TypeOK'
  BY <1>1, <1>2 DEF IInv, TypeOK
<1>4. EditsInv' /\ RunsInv' /\ ThreadsInv' /\ BatchesInv'
  BY <1>1 DEF IInv, EditsInv, Editing, RunsInv, ThreadsInv, RowOK, BatchesInv, Matches, Made
<1>5. ExportInv'
  BY <1>1, <1>2 DEF IInv, ExportInv
<1>6. QED
  BY <1>3, <1>4, <1>5 DEF IInv

LEMMA RunAgesKeeps ==
  ASSUME IInv, NEW n \in RunId, RunAges(n)
  PROVE  IInv'
<1>1. /\ runs \in [RunId -> RunRow] /\ runs[n] \in RunRow
      /\ UNCHANGED <<docs, batches, lock, threads, exported, edits, crashes>>
  BY DEF IInv, TypeOK, RunAges
<1>2. PICK row \in RunRow : row = [runs[n] EXCEPT !.old = TRUE]
  BY <1>1 DEF RunRow
<1>3. /\ runs' = [runs EXCEPT ![n] = row] /\ row.status = runs[n].status
      /\ row.batch = runs[n].batch /\ row.docs = runs[n].docs
  BY <1>1, <1>2 DEF RunAges, RunRow
<1>4. /\ runs' \in [RunId -> RunRow]
      /\ \A m \in RunId : /\ runs'[m].status = runs[m].status
                          /\ runs'[m].batch = runs[m].batch /\ runs'[m].docs = runs[m].docs
  BY <1>1, <1>3
<1>5. Made(runs') = Made(runs)
  BY <1>1, <1>4 DEF Made
<1>6. TypeOK'
  BY <1>1, <1>4 DEF IInv, TypeOK
<1>7. EditsInv' /\ ThreadsInv'
  BY <1>1, <1>5 DEF IInv, EditsInv, Editing, ThreadsInv, RowOK
<1>8. RunsInv'
  <2>1. \A m \in Made(runs) : m \in RunId
    BY <1>1 DEF Made
  <2>2. QED
    BY <1>4, <1>5, <2>1 DEF IInv, RunsInv
<1>9. BatchesInv' /\ ExportInv'
  BY <1>1, <1>4 DEF IInv, BatchesInv, Matches, ExportInv
<1>10. QED
  BY <1>6, <1>7, <1>8, <1>9 DEF IInv

LEMMA CrashKeeps ==
  ASSUME IInv, NEW p \in Replica, Crash(p)
  PROVE  IInv'
<1>1. /\ TypeOK /\ EditsInv /\ ThreadsInv /\ threads \in [Request -> ThreadRow]
      /\ docs' = docs /\ batches' = batches /\ runs' = runs /\ exported' = exported
      /\ edits' = edits /\ crashes < MaxCrashes /\ crashes' = crashes + 1
      /\ threads' = [r \in Request |-> IF Host[r] = p THEN IdleThread ELSE threads[r]]
      /\ lock' = [lock EXCEPT ![p] = Nobody]
  BY DEF IInv, TypeOK, Crash
<1>2. RunsInv' /\ BatchesInv' /\ ExportInv'
  BY <1>1, RowsStay DEF Rows
<1>3. threads' \in [Request -> ThreadRow]
  BY <1>1, IdleRow
<1>4. ThreadsInv'
  <2>1. ASSUME NEW r \in Request PROVE RowOK(threads'[r])
    <3>1. RowOK(IdleThread)
      BY IdleRow DEF RowOK
    <3>2. RowOK(threads[r])
      BY <1>1 DEF ThreadsInv
    <3>3. QED
      BY <1>1, <3>1, <3>2
  <2>2. QED
    BY <1>1, <2>1 DEF ThreadsInv, RowOK, Made
<1>5. Editing' \subseteq Editing
  BY <1>1, IdleRow DEF Editing
<1>6. EditsInv' /\ edits' \in 0..(MaxEdits + Cardinality(Request))
  BY <1>1, <1>5, EditsStay
<1>7. crashes' \in 0..MaxCrashes
  BY <1>1, ConstantsAssumption DEF TypeOK
<1>8. TypeOK'
  BY <1>1, <1>3, <1>6, <1>7 DEF TypeOK
<1>9. QED
  BY <1>2, <1>4, <1>6, <1>8 DEF IInv

-----------------------------------------------------------------------------
(* The invariant holds, and what follows from it.                            *)

LEMMA InitIInv == Init => IInv
<1> SUFFICES ASSUME Init PROVE IInv
  OBVIOUS
<1> USE DEF Init
<1>1. Editing = {}
  BY IdleRow DEF Editing
<1>2. Cardinality(Editing) = 0 /\ Cardinality(Request) \in Nat /\ MaxEdits \in Nat
  BY <1>1, FS_EmptySet, EditsFacts, ConstantsAssumption
<1>3. TypeOK
  BY <1>2, IdleRow, ConstantsAssumption DEF TypeOK
<1>4. EditsInv
  BY <1>2 DEF EditsInv
<1>5. Made(runs) = {}
  BY DEF Made, NoRun
<1>6. RunsInv
  <2>1. 1..0 = {} /\ 0 \in 0..MaxRuns
    BY ConstantsAssumption
  <2>2. QED
    BY <1>5, <2>1 DEF RunsInv
<1>7. ThreadsInv
  BY IdleRow DEF ThreadsInv, RowOK
<1>8. BatchesInv
  BY DEF BatchesInv, NoBatch
<1>9. ExportInv
  BY DEF ExportInv, NoRun
<1>10. QED
  BY <1>3, <1>4, <1>6, <1>7, <1>8, <1>9 DEF IInv

LEMMA NextKeeps == IInv /\ [Next]_vars => IInv'
<1> SUFFICES ASSUME IInv, [Next]_vars PROVE IInv'
  OBVIOUS
<1>1. ASSUME NEW r \in Request, RequestStep(r) PROVE IInv'
  <2>1. CASE BeginCreate(r)
    BY <2>1, BeginCreateKeeps
  <2>2. CASE SaveBatch(r)
    BY <2>2, SaveBatchKeeps
  <2>3. CASE Render(r)
    BY <2>3, RenderKeeps
  <2>4. CASE Complete(r)
    BY <2>4, CompleteKeeps
  <2>5. CASE Fail(r)
    BY <2>5, FailKeeps
  <2>6. CASE \E b \in BatchId : BeginUpdate(r, b)
    BY <2>6, BeginUpdateKeeps
  <2>7. CASE \E b \in BatchId, key \in Key : Reserve(r, b, key)
    BY <2>7, ReserveKeeps
  <2>8. CASE \E b \in BatchId, key \in Key : Replay(r, b, key)
    BY <2>8, ReplayKeeps
  <2>9. CASE BeginDownload(r)
    BY <2>9, BeginDownloadKeeps
  <2>10. CASE CommitDownload(r)
    BY <2>10, CommitDownloadKeeps
  <2>11. QED
    BY <1>1, <2>1, <2>2, <2>3, <2>4, <2>5, <2>6, <2>7, <2>8, <2>9, <2>10 DEF RequestStep
<1>2. CASE \E d \in Doc : Approve(d)
  BY <1>2, ApproveKeeps
<1>3. CASE \E n \in RunId : RunAges(n)
  BY <1>3, RunAgesKeeps
<1>4. CASE \E p \in Replica : Crash(p)
  BY <1>4, CrashKeeps
<1>5. CASE UNCHANGED vars
  <2>1. UNCHANGED <<docs, batches, runs, lock, threads, exported, edits, crashes>>
    BY <1>5 DEF vars
  <2>2. TypeOK' /\ EditsInv' /\ ThreadsInv'
    BY <2>1 DEF IInv, TypeOK, EditsInv, Editing, ThreadsInv, RowOK, Made
  <2>3. RunsInv' /\ BatchesInv' /\ ExportInv'
    BY <2>1, RowsStay DEF Rows
  <2>4. QED
    BY <2>2, <2>3 DEF IInv
<1>6. QED
  BY <1>1, <1>2, <1>3, <1>4, <1>5 DEF Next

LEMMA InvariantHolds == Spec => []IInv
BY InitIInv, NextKeeps, PTL DEF Spec

\* Types hold for every set of documents, replicas and keys and every finite
\* set of requests; edits are bounded although they are counted when saved.
THEOREM TypesHold == Spec => []TypeOK
<1>1. IInv => TypeOK
  BY DEF IInv
<1>2. QED
  BY <1>1, InvariantHolds, PTL

\* A document is exported once, by one run or one download, and exactly when
\* its status says so: whatever batches share it, whatever replicas die.
THEOREM ExportsAreSingle == Spec => []ExportedOnce
<1>1. ASSUME IInv PROVE ExportedOnce
  <2>1. ASSUME NEW d \in Doc
        PROVE  Cardinality(exported[d]) <= 1 /\ (exported[d] # {} <=> docs[d] = "exported")
    <3>1. exported[d] = {} \/ \E by : exported[d] = {by}
      BY <1>1 DEF IInv, ExportInv
    <3>2. CASE exported[d] = {}
      <4>1. Cardinality(exported[d]) = 0
        BY <3>2, FS_EmptySet
      <4>2. QED
        BY <1>1, <4>1 DEF IInv, ExportInv
    <3>3. CASE \E by : exported[d] = {by}
      <4>1. Cardinality(exported[d]) = 1
        BY <3>3, FS_Singleton
      <4>2. QED
        BY <1>1, <4>1 DEF IInv, ExportInv
    <3>4. QED
      BY <3>1, <3>2, <3>3
  <2>2. QED
    BY <2>1 DEF ExportedOnce
<1>2. QED
  BY <1>1, InvariantHolds, PTL

\* A run is on record as exporting a document exactly when it succeeded with
\* the document among its own: it exports all of them or none.
THEOREM RunsAreAtomic == Spec => []RunsExportAllOrNothing
<1>1. ASSUME IInv PROVE RunsExportAllOrNothing
  <2>1. ASSUME NEW n \in RunId, NEW d \in runs[n].docs
        PROVE  n \in exported[d] <=> runs[n].status = "succeeded"
    <3>1. d \in Doc
      BY <1>1, RowFacts DEF IInv
    <3>2. QED
      BY <1>1, <3>1 DEF IInv, ExportInv
  <2>2. QED
    BY <2>1 DEF RunsExportAllOrNothing
<1>2. QED
  BY <1>1, InvariantHolds, PTL

\* A completed batch is the one its last run exported.
THEOREM CompletedBatchesMatch == Spec => []CompletedBatchMatchesRun
<1>1. ASSUME IInv PROVE CompletedBatchMatchesRun
  <2>1. ASSUME NEW b \in BatchId, batches[b].status = "completed"
        PROVE  /\ batches[b].last # None /\ runs[batches[b].last].batch = b
               /\ runs[batches[b].last].status = "succeeded"
               /\ runs[batches[b].last].docs = batches[b].docs
    <3>1. Matches(b, "succeeded")
      BY <1>1, <2>1 DEF IInv, BatchesInv
    <3>2. None \notin RunId
      BY ConstantsAssumption DEF None, RunId
    <3>3. QED
      BY <3>1, <3>2 DEF Matches
  <2>2. QED
    BY <2>1 DEF CompletedBatchMatchesRun
<1>2. QED
  BY <1>1, InvariantHolds, PTL

\* A running batch has a running run, so a replay of its key releases it.
THEOREM RunningBatchesRelease == Spec => []RunningBatchesCanBeReleased
<1>1. ASSUME IInv PROVE RunningBatchesCanBeReleased
  <2>1. ASSUME NEW b \in BatchId, batches[b].status = "running"
        PROVE  /\ batches[b].last # None /\ runs[batches[b].last].batch = b
               /\ runs[batches[b].last].status = "running"
    <3>1. Matches(b, "running")
      BY <1>1, <2>1 DEF IInv, BatchesInv
    <3>2. None \notin RunId
      BY ConstantsAssumption DEF None, RunId
    <3>3. QED
      BY <3>1, <3>2 DEF Matches
  <2>2. QED
    BY <2>1 DEF RunningBatchesCanBeReleased
<1>2. QED
  BY <1>1, InvariantHolds, PTL

-----------------------------------------------------------------------------
(* Settled runs.                                                             *)

\* Every write to a run row changes a run that was not made, or is running.
LEMMA RunsSettle ==
  ASSUME IInv, [Next]_vars, NEW m \in RunId, runs[m].status \in {"succeeded", "failed"}
  PROVE  runs'[m] = runs[m]
<1>1. ASSUME NEW n \in RunId, runs[n].status \in {"none", "running"},
             \/ \E row : runs' = [runs EXCEPT ![n] = row]
             \/ \E status : runs' = [runs EXCEPT ![n].status = status]
             \/ \E old : runs' = [runs EXCEPT ![n].old = old]
      PROVE  runs'[m] = runs[m]
  <2>1. n # m /\ runs \in [RunId -> RunRow]
    BY <1>1 DEF IInv, TypeOK
  <2>2. QED
    BY <1>1, <2>1
<1>2. Made(runs) \subseteq RunId
  BY DEF IInv, TypeOK, Made
<1>3. ASSUME NEW r \in Request, RequestStep(r) PROVE runs'[m] = runs[m]
  <2>1. CASE BeginCreate(r) \/ SaveBatch(r) \/ Render(r) \/ BeginDownload(r) \/ CommitDownload(r)
             \/ \E b \in BatchId : BeginUpdate(r, b)
    <3>1. runs' = runs
      BY <2>1 DEF BeginCreate, SaveBatch, Render, BeginDownload, CommitDownload, BeginUpdate
    <3>2. QED
      BY <3>1
  <2>2. CASE Complete(r)
    <3>1. threads[r].run \in Made(runs)
      BY <2>2 DEF IInv, ThreadsInv, RowOK, Complete, At
    <3>2. PICK n \in RunId : n = threads[r].run
      BY <1>2, <3>1
    <3>3. \/ runs[n].status = "running" /\ runs' = [runs EXCEPT ![n].status = "succeeded"]
          \/ runs' = runs
      BY <2>2, <3>2 DEF Complete
    <3>4. QED
      BY <1>1, <3>3
  <2>3. CASE Fail(r)
    <3>1. threads[r].run \in Made(runs)
      BY <2>3 DEF IInv, ThreadsInv, RowOK, Fail, At
    <3>2. PICK n \in RunId : n = threads[r].run
      BY <1>2, <3>1
    <3>3. \/ runs[n].status = "running" /\ runs' = [runs EXCEPT ![n].status = "failed"]
          \/ runs' = runs
      BY <2>3, <3>2 DEF Fail, FailRun
    <3>4. QED
      BY <1>1, <3>3
  <2>4. CASE \E b \in BatchId, key \in Key : Reserve(r, b, key)
    <3>1. PICK b \in BatchId, key \in Key : Reserve(r, b, key)
      BY <2>4
    <3>2. PICK n \in RunId :
            /\ n = Cardinality(Made(runs)) + 1
            /\ runs' = [runs EXCEPT ![n] = [status |-> "running", batch |-> b,
                                            docs |-> batches[b].docs, key |-> key, old |-> FALSE]]
      BY <3>1 DEF Reserve
    <3>3. n \notin Made(runs)
      BY <3>2, NextRun DEF IInv
    <3>4. runs[n].status = "none"
      BY <3>3 DEF IInv, TypeOK, Made
    <3>5. QED
      BY <1>1, <3>2, <3>4
  <2>5. CASE \E b \in BatchId, key \in Key : Replay(r, b, key)
    <3>1. PICK n \in Made(runs) :
            runs[n].status = "running" /\ runs' = [runs EXCEPT ![n].status = "failed"]
      BY <2>5 DEF Replay, RunsOfKey, FailRun
    <3>2. QED
      BY <1>1, <1>2, <3>1
  <2>6. QED
    BY <1>3, <2>1, <2>2, <2>3, <2>4, <2>5 DEF RequestStep
<1>4. CASE \E n \in RunId : RunAges(n)
  <2>1. PICK n \in RunId : runs[n].status = "running" /\ runs' = [runs EXCEPT ![n].old = TRUE]
    BY <1>4 DEF RunAges
  <2>2. QED
    BY <1>1, <2>1
<1>5. CASE (\E d \in Doc : Approve(d)) \/ (\E p \in Replica : Crash(p)) \/ UNCHANGED vars
  <2>1. runs' = runs
    BY <1>5 DEF Approve, Crash, vars
  <2>2. QED
    BY <2>1
<1>6. QED
  BY <1>3, <1>4, <1>5 DEF Next

\* A run that succeeded or failed never changes again, so a replayed key
\* returns the outcome that was recorded first.
THEOREM SettledRunsStay == Spec => RunsSettleOnce
<1>1. IInv /\ [Next]_vars =>
        [\A n \in RunId : runs[n].status \in {"succeeded", "failed"} => runs'[n] = runs[n]]_runs
  BY RunsSettle
<1>2. QED
  BY <1>1, InvariantHolds, PTL DEF Spec, RunsSettleOnce
=============================================================================
