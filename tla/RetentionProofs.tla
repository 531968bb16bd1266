--------------------------- MODULE RetentionProofs ---------------------------
(***************************************************************************)
(* Proofs about Retention, for any documents, work items, threads and      *)
(* statuses: what is stored belongs to a document or to an upload, and      *)
(* what a purge removed comes back only through a copy read before it.      *)
(***************************************************************************)
EXTENDS Retention, TLAPS

\* The requests that work on one document.
OneDocOps == {"upload", "move", "fetch", "notify", "mark", "purge", "uncache", "erase"}

\* A document is there, or somebody held a copy of it when its data went.
Known(d) == d \in Present \union late

\* What a request names was uploaded, or is being uploaded by it.
NamesOK(q) ==
  /\ q.op \in OneDocOps \ {"upload"} => q.doc \in Born
  /\ q.op \notin OneDocOps => q.doc = NoDoc
  /\ q.op = "upload" => q.doc \in Doc \ Born
  /\ q.docs \subseteq Born

\* An upload has its file; a purge past the store has none, nor one past the cache.
FilesOK(q) ==
  /\ q.op = "upload" => blob[q.doc] # NoFile
  /\ q.op \in {"uncache", "erase"} => blob[q.doc] = NoFile
  /\ q.op = "erase" => q.doc \notin cache \/ q.doc \in late

\* Who holds a copy of a document is counted when it goes.
CopiesOK(q) ==
  /\ q.op \in {"move", "notify", "mark"} => Known(q.doc)
  /\ q.op \in {"project", "notify"} => \A d \in q.docs : Known(d)

RequestOK(q) == NamesOK(q) /\ FilesOK(q) /\ CopiesOK(q)

\* One upload to a key; a fetch that a purge overtook was counted.
PairsOK ==
  \A t, u \in Thread :
    /\ req[t].op = "upload" /\ req[u].op = "upload" /\ req[t].doc = req[u].doc => t = u
    /\ req[t].op = "erase" /\ req[u].op = "fetch" /\ req[t].doc = req[u].doc =>
         req[t].doc \in late

RowsOK ==
  /\ Present \subseteq Born /\ purged \subseteq Born
  /\ \A d \in Doc : notice[d] # "none" => Known(d) /\ d \in Born
  /\ \A d \in purged \ late : \A t \in Thread : ~Fetches(t, d)

\* The two invariants, document by document.
FileOK(d) ==
  /\ blob[d] # NoFile =>
       /\ Scanner # "none" => blob[d] = "OK"
       /\ d \in Present \union strays \/ \E t \in Thread : req[t].op = "upload" /\ req[t].doc = d
  /\ d \in Present /\ blob[d] = NoFile =>
       \/ d \in halved \union late
       \/ \E t \in Thread : req[t].op \in {"uncache", "erase"} /\ req[t].doc = d

PurgedOK(d) ==
  d \in purged =>
    /\ blob[d] = NoFile
    /\ d \notin late => /\ d \notin Present /\ traces[d] \subseteq {"export run"}
                        /\ notice[d] = "none" /\ d \notin cache

LinksOK == \A i \in Item : links[i] \subseteq Present

PurgeInv ==
  /\ TypeOK
  /\ \A t \in Thread : RequestOK(req[t])
  /\ PairsOK /\ RowsOK
  /\ \A d \in Doc : FileOK(d) /\ PurgedOK(d)
  /\ LinksOK

-----------------------------------------------------------------------------
(* Requests and documents.                                                   *)

LEMMA BornDocs == ASSUME TypeOK PROVE Born \subseteq Doc
BY DEF TypeOK, Born, Range

\* A document is listed once more.
LEMMA BornOneMore ==
  ASSUME TypeOK, NEW d \in Doc \ Born, born' = Append(born, d)
  PROVE  born' \in Seq(Doc) /\ IsInjective(born') /\ Born' = Born \union {d}
<1>1. born \in Seq(Doc)
  BY DEF TypeOK
<1>2. /\ Len(born') = Len(born) + 1 /\ DOMAIN born' = 1..(Len(born) + 1)
      /\ born'[Len(born) + 1] = d
      /\ \A n \in 1..Len(born) : born'[n] = born[n]
      /\ DOMAIN born = 1..Len(born) /\ Len(born) \in Nat /\ born' \in Seq(Doc)
  BY <1>1
<1>3. IsInjective(born')
  BY <1>2 DEF TypeOK, IsInjective, Born, Range
<1>4. Born' = Born \union {d}
  BY <1>2 DEF Born, Range
<1>5. QED
  BY <1>2, <1>3, <1>4

\* A request at rest names nothing.
LEMMA IdleOK ==
  ASSUME TypeOK
  PROVE  Idle \in Request /\ RequestOK(Idle) /\ Idle.op = "idle" /\ Idle.doc = NoDoc
BY DEF Idle, Request, Op, RequestOK, NamesOK, FilesOK, CopiesOK, OneDocOps

\* One request moves on, and what is stored stays.
LEMMA QuietStep ==
  ASSUME PurgeInv, NEW t \in Thread, NEW q \in Request, req' = [req EXCEPT ![t] = q],
         UNCHANGED <<files, tables>>, RequestOK(q),
         req[t].op \notin {"upload", "uncache", "erase"},
         q.op \notin {"upload", "uncache", "erase"},
         q.op = "fetch" => blob[q.doc] # NoFile
  PROVE  PurgeInv'
<1> USE DEF files, tables
<1>1. TypeOK' /\ req'[t] = q /\ \A u \in Thread : u # t => req'[u] = req[u]
  BY DEF PurgeInv, TypeOK
<1>2. Present' = Present /\ Born' = Born /\ \A d : Known(d)' <=> Known(d)
  BY DEF Present, Born, Known
<1>3. \A u \in Thread : RequestOK(req[u])'
  BY <1>1, <1>2 DEF PurgeInv, RequestOK, NamesOK, FilesOK, CopiesOK
<1>4. PairsOK'
  BY <1>1 DEF PurgeInv, PairsOK, RequestOK, FilesOK
<1>5. ASSUME NEW d \in Doc PROVE FileOK(d)' /\ PurgedOK(d)'
  <2>1. FileOK(d)'
    BY <1>1, <1>2 DEF PurgeInv, FileOK
  <2>2. PurgedOK(d)'
    BY <1>2 DEF PurgeInv, PurgedOK
  <2>3. QED
    BY <2>1, <2>2
<1>6. RowsOK'
  <2>1. \A d \in purged : d \in Doc /\ blob[d] = NoFile
    BY BornDocs DEF PurgeInv, RowsOK, PurgedOK
  <2>2. QED
    BY <1>1, <1>2, <2>1 DEF PurgeInv, RowsOK, Fetches
<1>7. LinksOK'
  BY <1>2 DEF PurgeInv, LinksOK
<1>8. QED
  BY <1>1, <1>3, <1>4, <1>5, <1>6, <1>7 DEF PurgeInv

\* A request that begins names documents that are there.
LEMMA BeginStep ==
  ASSUME PurgeInv, NEW t \in Thread, NEW q \in Request, Begin(t, q), UNCHANGED <<files, tables>>,
         q.op \in {"move", "fetch", "plan", "project", "mark", "purge", "sweep", "trim"},
         IF q.op \in OneDocOps THEN q.doc \in Born ELSE q.doc = NoDoc,
         q.docs \subseteq Present,
         q.op \in {"move", "mark"} => Known(q.doc),
         q.op = "fetch" => blob[q.doc] # NoFile
  PROVE  PurgeInv'
<1>1. req' = [req EXCEPT ![t] = q] /\ req[t].op = "idle"
  BY IdleOK DEF Begin, PurgeInv
<1>2. RequestOK(q)
  BY DEF PurgeInv, RowsOK, RequestOK, NamesOK, FilesOK, CopiesOK, Known, OneDocOps
<1>3. QED
  BY <1>1, <1>2, QuietStep

-----------------------------------------------------------------------------
(* Requests that only read.                                                  *)

LEMMA BeginOneInv ==
  ASSUME PurgeInv, NEW t \in Thread, NEW d \in Doc,
         BeginMove(t, d) \/ BeginFetch(t, d) \/ BeginMark(t, d) \/ BeginPurge(t, d)
  PROVE  PurgeInv'
<1>1. d \in Present => d \in Born /\ Known(d)
  BY DEF PurgeInv, RowsOK, Known
<1>2. CASE BeginMove(t, d)
  <2>1. PICK q : q = [Idle EXCEPT !.op = "move", !.doc = d, !.seen = row[d]]
    OBVIOUS
  <2>2. q \in Request /\ q.op = "move" /\ q.doc = d /\ q.docs = {}
    BY <2>1 DEF Idle, Request, Op, PurgeInv, TypeOK
  <2>3. QED
    BY <1>1, <1>2, <2>1, <2>2, BeginStep DEF BeginMove, OneDocOps
<1>3. CASE BeginFetch(t, d) \/ BeginMark(t, d) \/ BeginPurge(t, d)
  <2>1. PICK op \in {"fetch", "mark", "purge"} :
          /\ Begin(t, [Idle EXCEPT !.op = op, !.doc = d])
          /\ op = "fetch" => blob[d] # NoFile
          /\ op = "mark" => notice[d] # "none"
          /\ op # "mark" => d \in Present
    BY <1>3 DEF BeginFetch, BeginMark, BeginPurge, Purgeable
  <2>2. PICK q : q = [Idle EXCEPT !.op = op, !.doc = d]
    OBVIOUS
  <2>3. q \in Request /\ q.op = op /\ q.doc = d /\ q.docs = {}
    BY <2>2 DEF Idle, Request, Op
  <2>4. d \in Born /\ Known(d)
    BY <1>1, <2>1 DEF PurgeInv, RowsOK
  <2>5. UNCHANGED <<files, tables>>
    BY <1>3 DEF BeginFetch, BeginMark, BeginPurge
  <2>6. QED
    BY <2>1, <2>2, <2>3, <2>4, <2>5, BeginStep DEF OneDocOps
<1>4. QED
  BY <1>2, <1>3

LEMMA BeginPlanInv ==
  ASSUME PurgeInv, NEW t \in Thread, NEW i \in Item, BeginPlan(t, i)
  PROVE  PurgeInv'
<1>1. PICK q : q = [Idle EXCEPT !.op = "plan", !.item = {i}, !.docs = links[i]]
  OBVIOUS
<1>2. links[i] \in SUBSET Doc /\ links[i] \subseteq Present
  BY DEF PurgeInv, TypeOK, LinksOK
<1>3. q \in Request /\ q.op = "plan" /\ q.doc = NoDoc /\ q.docs = links[i]
  BY <1>1, <1>2 DEF Idle, Request, Op
<1>4. QED
  BY <1>1, <1>2, <1>3, BeginStep DEF BeginPlan, OneDocOps

LEMMA OpenPageInv == ASSUME PurgeInv, NEW t \in Thread, OpenPage(t) PROVE PurgeInv'
<1>1. PICK q : q = [Idle EXCEPT !.op = "project", !.docs = FailedDocs]
  OBVIOUS
<1>2. FailedDocs \in SUBSET Doc /\ FailedDocs \subseteq Present
  BY DEF FailedDocs, Present
<1>3. q \in Request /\ q.op = "project" /\ q.doc = NoDoc /\ q.docs = FailedDocs
  BY <1>1, <1>2 DEF Idle, Request, Op
<1>4. QED
  BY <1>1, <1>2, <1>3, BeginStep DEF OpenPage, OneDocOps

LEMMA SweepInv ==
  ASSUME PurgeInv, NEW t \in Thread, NEW cutoff, Sweep(t, cutoff)
  PROVE  PurgeInv'
<1>1. PICK op \in {"trim", "sweep"} :
        op = IF Candidates(cutoff) = {} THEN "trim" ELSE "sweep"
  OBVIOUS
<1>2. PICK q : q = [Idle EXCEPT !.op = op, !.docs = Candidates(cutoff), !.sweeping = TRUE]
  OBVIOUS
<1>3. Candidates(cutoff) \in SUBSET Doc /\ Candidates(cutoff) \subseteq Present
  BY DEF Candidates, Present
<1>4. q \in Request /\ q.op = op /\ q.doc = NoDoc /\ q.docs = Candidates(cutoff)
  BY <1>1, <1>2, <1>3 DEF Idle, Request, Op
<1>5. Begin(t, q) /\ UNCHANGED <<files, tables>>
  BY <1>1, <1>2 DEF Sweep
<1>6. QED
  BY <1>1, <1>3, <1>4, <1>5, BeginStep DEF OneDocOps

\* The request that projects goes on to its next document, or ends.
LEMMA AdvancedRow ==
  ASSUME PurgeInv, NEW t \in Thread, NEW d, req[t].op \in {"project", "notify"}, Advance(t, d)
  PROVE  \E q \in Request : /\ req' = [req EXCEPT ![t] = q]
                            /\ q.op \in {"idle", "project"} /\ q.doc = NoDoc
                            /\ q.docs \subseteq req[t].docs
<1>1. CASE End(t)
  <2>1. Idle \in Request /\ Idle.op = "idle" /\ Idle.doc = NoDoc /\ Idle.docs = {}
    BY DEF Idle, Request, Op
  <2>2. QED
    BY <1>1, <2>1 DEF End
<1>2. CASE Continue(t, [req[t] EXCEPT !.op = "project", !.doc = NoDoc, !.docs = Rest(t, d)])
  <2>1. PICK q : q = [req[t] EXCEPT !.op = "project", !.doc = NoDoc, !.docs = Rest(t, d)]
    OBVIOUS
  <2>2. q \in Request /\ q.op = "project" /\ q.doc = NoDoc /\ q.docs \subseteq req[t].docs
    BY <2>1 DEF PurgeInv, TypeOK, Request, Op, Rest
  <2>3. QED
    BY <1>2, <2>1, <2>2 DEF Continue
<1>3. QED
  BY <1>1, <1>2 DEF Advance

LEMMA LookUpInv == ASSUME PurgeInv, NEW t \in Thread, NEW d \in Doc, LookUp(t, d) PROVE PurgeInv'
<1>1. req[t] \in Request /\ RequestOK(req[t]) /\ req[t].op = "project" /\ d \in req[t].docs
  BY DEF LookUp, PurgeInv, TypeOK
<1>2. CASE Advance(t, d)
  <2>1. PICK q \in Request : /\ req' = [req EXCEPT ![t] = q]
                             /\ q.op \in {"idle", "project"} /\ q.doc = NoDoc
                             /\ q.docs \subseteq req[t].docs
    BY <1>1, <1>2, AdvancedRow
  <2>2. RequestOK(q)
    BY <1>1, <2>1 DEF RequestOK, NamesOK, FilesOK, CopiesOK, OneDocOps
  <2>3. QED
    BY <1>1, <2>1, <2>2, QuietStep DEF LookUp
<1>3. CASE Continue(t, [req[t] EXCEPT !.op = "notify", !.doc = d])
  <2>1. PICK q : q = [req[t] EXCEPT !.op = "notify", !.doc = d]
    OBVIOUS
  <2>2. q \in Request /\ q.op = "notify" /\ q.doc = d /\ q.docs = req[t].docs
    BY <1>1, <2>1 DEF Request, Op
  <2>3. RequestOK(q)
    BY <1>1, <2>2 DEF RequestOK, NamesOK, FilesOK, CopiesOK, OneDocOps
  <2>4. QED
    BY <1>1, <1>3, <2>1, <2>2, <2>3, QuietStep DEF LookUp, Continue
<1>4. QED
  BY <1>2, <1>3 DEF LookUp

LEMMA NextCandidateInv ==
  ASSUME PurgeInv, NEW t \in Thread, NEW d \in Doc, NextCandidate(t, d)
  PROVE  PurgeInv'
<1>1. req[t] \in Request /\ RequestOK(req[t]) /\ req[t].op = "sweep"
  BY DEF NextCandidate, PurgeInv, TypeOK
<1>2. CASE End(t)
  BY <1>1, <1>2, IdleOK, QuietStep DEF NextCandidate, End, PurgeInv
<1>3. CASE Continue(t, [req[t] EXCEPT !.op = "purge", !.doc = d, !.docs = Rest(t, d)])
  <2>1. PICK q : q = [req[t] EXCEPT !.op = "purge", !.doc = d, !.docs = Rest(t, d)]
    OBVIOUS
  <2>2. q \in Request /\ q.op = "purge" /\ q.doc = d /\ q.docs \subseteq req[t].docs /\ d \in Born
    BY <1>1, <2>1 DEF Request, Op, Rest, NextCandidate, IsOldest, Born, Range
  <2>3. RequestOK(q)
    BY <1>1, <2>2 DEF RequestOK, NamesOK, FilesOK, CopiesOK, OneDocOps
  <2>4. QED
    BY <1>1, <1>3, <2>1, <2>2, <2>3, QuietStep DEF NextCandidate, Continue
<1>4. QED
  BY <1>2, <1>3 DEF NextCandidate

-----------------------------------------------------------------------------
(* Requests that write what belongs to a document that is there, or that they *)
(* read when it was.                                                         *)

\* A request is where it was, or between two documents, or at rest.
MovesOn ==
  \A u \in Thread : \/ req'[u] = req[u]
                    \/ /\ req[u].op \notin {"upload", "uncache", "erase"}
                       /\ req'[u].op \notin {"upload", "fetch", "uncache", "erase"}
                       /\ RequestOK(req[u])'

LEMMA WriteStep ==
  ASSUME PurgeInv, TypeOK', MovesOn, UNCHANGED <<files, born, purged, late>>,
         NEW x, x \in Doc => Known(x) /\ x \in Born,
         x \in Present => x \in Present',
         \A d \in Doc : d # x => /\ row'[d] = row[d] /\ traces'[d] = traces[d]
                                 /\ notice'[d] = notice[d],
         LinksOK'
  PROVE  PurgeInv'
<1> USE DEF files
<1>1. /\ Born' = Born /\ Present \subseteq Present' /\ Present' \subseteq Present \union {x}
      /\ \A d : Known(d) => Known(d)'
  BY DEF Born, Present, Known
<1>2. ASSUME NEW u \in Thread PROVE RequestOK(req[u])'
  <2>1. CASE req'[u] = req[u]
    BY <1>1, <2>1 DEF PurgeInv, RequestOK, NamesOK, FilesOK, CopiesOK
  <2>2. QED
    BY <2>1 DEF MovesOn
<1>3. PairsOK'
  BY DEF PurgeInv, PairsOK, MovesOn
<1>4. RowsOK'
  <2>1. /\ Present' \subseteq Born' /\ purged' \subseteq Born'
        /\ \A d \in Doc : notice'[d] # "none" => Known(d)' /\ d \in Born'
    BY <1>1 DEF PurgeInv, RowsOK, Present
  <2>2. \A d \in purged \ late : \A u \in Thread : ~Fetches(u, d)'
    BY DEF PurgeInv, RowsOK, Fetches, MovesOn
  <2>3. QED
    BY <2>1, <2>2 DEF RowsOK
<1>5. ASSUME NEW d \in Doc PROVE FileOK(d)' /\ PurgedOK(d)'
  <2>1. d \in Present' => d \in Present \/ d \in late
    BY <1>1 DEF Known
  <2>2. \A u \in Thread : req[u].op \in {"upload", "uncache", "erase"} => req'[u] = req[u]
    BY DEF MovesOn
  <2>3. FileOK(d)'
    BY <1>1, <2>1, <2>2 DEF PurgeInv, FileOK
  <2>4. PurgedOK(d)'
    <3>1. CASE d = x
      BY <2>1, <3>1 DEF PurgeInv, PurgedOK, Known
    <3>2. CASE d # x
      BY <2>1, <3>2 DEF PurgeInv, PurgedOK
    <3>3. QED
      BY <3>1, <3>2
  <2>5. QED
    BY <2>3, <2>4
<1>6. QED
  BY <1>2, <1>3, <1>4, <1>5 DEF PurgeInv

\* So does a request that ends.
LEMMA EndMovesOn ==
  ASSUME PurgeInv, NEW t \in Thread, req[t].op \notin {"upload", "uncache", "erase"}, End(t),
         TypeOK'
  PROVE  MovesOn
<1>1. (TypeOK => Idle \in Request /\ RequestOK(Idle) /\ Idle.op = "idle" /\ Idle.doc = NoDoc)'
  BY IdleOK, PTL
<1>2. QED
  BY <1>1 DEF End, MovesOn, PurgeInv, TypeOK

LEMMA CommitMoveInv ==
  ASSUME PurgeInv, NEW t \in Thread, NEW target \in Targets, CommitMove(t, target)
  PROVE  PurgeInv'
<1>1. /\ req[t].doc \in Born /\ req[t].doc \in Doc /\ Known(req[t].doc) /\ req[t].op = "move"
      /\ target \in Status /\ target # Absent
  BY BornDocs, ConstantsAssumption
     DEF CommitMove, PurgeInv, RequestOK, NamesOK, CopiesOK, OneDocOps, Status, Absent
<1>2. TypeOK' /\ End(t)
  BY <1>1, IdleOK DEF CommitMove, End, PurgeInv, TypeOK, files, Trace
<1>3. /\ req[t].doc \in Present'
      /\ \A d \in Doc : d # req[t].doc => /\ row'[d] = row[d] /\ traces'[d] = traces[d]
                                          /\ notice'[d] = notice[d]
  BY <1>1 DEF CommitMove, PurgeInv, TypeOK, Present
<1>4. LinksOK'
  BY <1>1, <1>3 DEF CommitMove, PurgeInv, LinksOK, Present, TypeOK
<1>5. QED
  BY <1>1, <1>2, <1>3, <1>4, EndMovesOn, WriteStep DEF CommitMove

LEMMA ExportInv == ASSUME PurgeInv, NEW d \in Doc, Export(d) PROVE PurgeInv'
<1>1. d \in Present /\ d \in Born /\ Known(d)
  BY DEF Export, PurgeInv, RowsOK, Present, Known, Absent
<1>2. TypeOK' /\ MovesOn
  BY DEF Export, PurgeInv, TypeOK, files, Trace, Status, MovesOn
<1>3. /\ d \in Present'
      /\ \A e \in Doc : e # d => /\ row'[e] = row[e] /\ traces'[e] = traces[e]
                                 /\ notice'[e] = notice[e]
  BY DEF Export, PurgeInv, TypeOK, Present, Absent
<1>4. LinksOK'
  BY <1>3 DEF Export, PurgeInv, LinksOK, Present, TypeOK
<1>5. QED
  BY <1>1, <1>2, <1>3, <1>4, WriteStep DEF Export

LEMMA NotifyInv == ASSUME PurgeInv, NEW t \in Thread, Notify(t) PROVE PurgeInv'
<1>1. /\ RequestOK(req[t]) /\ req[t].op = "notify" /\ req[t].doc \in Born /\ req[t].doc \in Doc
      /\ Known(req[t].doc)
  BY BornDocs DEF Notify, PurgeInv, RequestOK, NamesOK, CopiesOK, OneDocOps
<1>2. PICK q \in Request : /\ req' = [req EXCEPT ![t] = q]
                           /\ q.op \in {"idle", "project"} /\ q.doc = NoDoc
                           /\ q.docs \subseteq req[t].docs
  BY <1>1, AdvancedRow DEF Notify
<1>3. TypeOK'
  BY <1>2 DEF Notify, PurgeInv, TypeOK, files, Notice
<1>4. Present' = Present /\ Born' = Born /\ \A d : Known(d)' <=> Known(d)
  BY DEF Notify, Present, Born, Known
<1>5. RequestOK(q)'
  BY <1>1, <1>2, <1>4 DEF RequestOK, NamesOK, FilesOK, CopiesOK, OneDocOps
<1>6. MovesOn
  BY <1>1, <1>2, <1>5 DEF MovesOn, PurgeInv, TypeOK
<1>7. \A d \in Doc : d # req[t].doc => /\ row'[d] = row[d] /\ traces'[d] = traces[d]
                                       /\ notice'[d] = notice[d]
  BY <1>1 DEF Notify, PurgeInv, TypeOK
<1>8. LinksOK'
  BY <1>4 DEF Notify, PurgeInv, LinksOK
<1>9. QED
  BY <1>1, <1>3, <1>4, <1>6, <1>7, <1>8, WriteStep DEF Notify

LEMMA CommitMarkInv == ASSUME PurgeInv, NEW t \in Thread, CommitMark(t) PROVE PurgeInv'
<1>1. /\ req[t].op = "mark" /\ req[t].doc \in Born /\ req[t].doc \in Doc /\ Known(req[t].doc)
  BY BornDocs DEF CommitMark, PurgeInv, RequestOK, NamesOK, CopiesOK, OneDocOps
<1>2. TypeOK' /\ End(t)
  BY IdleOK DEF CommitMark, End, PurgeInv, TypeOK, files, Notice
<1>3. /\ Present' = Present
      /\ \A d \in Doc : d # req[t].doc => /\ row'[d] = row[d] /\ traces'[d] = traces[d]
                                          /\ notice'[d] = notice[d]
  BY <1>1 DEF CommitMark, PurgeInv, TypeOK, Present
<1>4. LinksOK'
  BY <1>3 DEF CommitMark, PurgeInv, LinksOK
<1>5. QED
  BY <1>1, <1>2, <1>3, <1>4, EndMovesOn, WriteStep DEF CommitMark

\* Only the links of work items change.
LEMMA LinkStep ==
  ASSUME PurgeInv, TypeOK', MovesOn, UNCHANGED <<files, row, born, traces, notice, purged, late>>,
         \A i \in Item : links'[i] \subseteq Present
  PROVE  PurgeInv'
<1>1. LinksOK' /\ Present' = Present
  BY DEF LinksOK, Present
<1>2. QED
  BY <1>1, WriteStep, ConstantsAssumption

LEMMA CommitPlanInv == ASSUME PurgeInv, NEW t \in Thread, CommitPlan(t) PROVE PurgeInv'
<1>1. TypeOK' /\ End(t) /\ req[t].op = "plan"
  BY IdleOK DEF CommitPlan, End, PurgeInv, TypeOK, files, Request
<1>2. \A i \in Item : links'[i] \subseteq Present
  BY DEF CommitPlan, PurgeInv, LinksOK
<1>3. QED
  BY <1>1, <1>2, EndMovesOn, LinkStep DEF CommitPlan

LEMMA CreateItemInv ==
  ASSUME PurgeInv, NEW i \in Item, NEW docs \in SUBSET Present, CreateItem(i, docs)
  PROVE  PurgeInv'
<1>1. TypeOK' /\ MovesOn
  BY DEF CreateItem, PurgeInv, TypeOK, files, Present, MovesOn
<1>2. \A j \in Item : links'[j] \subseteq Present
  BY DEF CreateItem, PurgeInv, LinksOK, TypeOK
<1>3. QED
  BY <1>1, <1>2, LinkStep DEF CreateItem

-----------------------------------------------------------------------------
(* The cache.                                                                *)

\* What comes into the cache was fetched by the request that ends.
LEMMA CacheStep ==
  ASSUME PurgeInv, NEW t \in Thread, End(t), req[t].op \in {"fetch", "trim"},
         UNCHANGED <<blob, strays, halved, tables>>,
         cache' \subseteq Doc, \A d \in cache' \ cache : Fetches(t, d)
  PROVE  PurgeInv'
<1> USE DEF tables
<1>1. /\ TypeOK' /\ req'[t].op = "idle"
      /\ \A u \in Thread : u # t => req'[u] = req[u]
  BY IdleOK DEF End, PurgeInv, TypeOK
<1>2. Present' = Present /\ Born' = Born /\ \A d : Known(d)' <=> Known(d)
  BY DEF Present, Born, Known
<1>3. ASSUME NEW u \in Thread PROVE RequestOK(req[u])'
  <2>1. CASE u = t
    <3>1. (TypeOK => RequestOK(Idle))'
      BY IdleOK, PTL
    <3>2. req'[t] = Idle
      BY DEF End, PurgeInv, TypeOK
    <3>3. QED
      BY <1>1, <2>1, <3>1, <3>2
  <2>2. CASE u # t
    <3>1. req[u].op = "erase" => req[u].doc \notin cache' \/ req[u].doc \in late
      BY DEF PurgeInv, RequestOK, FilesOK, PairsOK, Fetches
    <3>2. QED
      BY <1>1, <1>2, <2>2, <3>1 DEF PurgeInv, RequestOK, NamesOK, FilesOK, CopiesOK
  <2>3. QED
    BY <2>1, <2>2
<1>4. PairsOK'
  BY <1>1 DEF PurgeInv, PairsOK
<1>5. RowsOK' /\ LinksOK'
  BY <1>1, <1>2 DEF PurgeInv, RowsOK, LinksOK, Fetches
<1>6. ASSUME NEW d \in Doc PROVE FileOK(d)' /\ PurgedOK(d)'
  <2>1. FileOK(d)'
    BY <1>1, <1>2 DEF PurgeInv, FileOK
  <2>2. PurgedOK(d)'
    BY <1>2 DEF PurgeInv, PurgedOK, RowsOK
  <2>3. QED
    BY <2>1, <2>2
<1>7. QED
  BY <1>1, <1>3, <1>4, <1>5, <1>6 DEF PurgeInv

LEMMA EndFetchInv == ASSUME PurgeInv, NEW t \in Thread, EndFetch(t) PROVE PurgeInv'
<1>1. req[t].doc \in Doc
  BY BornDocs DEF EndFetch, PurgeInv, RequestOK, NamesOK, OneDocOps
<1>2. QED
  BY <1>1, CacheStep DEF EndFetch, Fetches, PurgeInv, TypeOK

LEMMA TrimCacheInv ==
  ASSUME PurgeInv, NEW t \in Thread, NEW old, TrimCache(t, old)
  PROVE  PurgeInv'
BY CacheStep DEF TrimCache, PurgeInv, TypeOK

-----------------------------------------------------------------------------
(* Uploads.                                                                  *)

LEMMA SaveFileInv ==
  ASSUME PurgeInv, NEW t \in Thread, NEW d \in Doc, SaveFile(t, d)
  PROVE  PurgeInv'
<1> USE DEF tables
<1>1. PICK q : q = [Idle EXCEPT !.op = "upload", !.doc = d]
  OBVIOUS
<1>2. q \in Request /\ q.op = "upload" /\ q.doc = d /\ q.docs = {}
  BY <1>1 DEF Idle, Request, Op
<1>3. PICK verdict \in Verdict :
      /\ req' = [req EXCEPT ![t] = q] /\ req[t].op = "idle"
      /\ Scanner # "none" => verdict = "OK"
      /\ blob' = [blob EXCEPT ![d] = verdict] /\ d \notin Born
      /\ \A u \in Thread : req[u].doc # d
  BY <1>1, IdleOK DEF SaveFile, Begin, Passes, PurgeInv
<1>4. UNCHANGED <<cache, strays, halved, tables>>
  BY DEF SaveFile
<1>5. /\ TypeOK' /\ req'[t] = q /\ \A u \in Thread : u # t => req'[u] = req[u]
      /\ blob'[d] # NoFile /\ \A e \in Doc : e # d => blob'[e] = blob[e]
      /\ Scanner # "none" => blob'[d] = "OK"
  BY <1>2, <1>3, <1>4 DEF PurgeInv, TypeOK, Verdict, NoFile
<1>6. Present' = Present /\ Born' = Born /\ \A e : Known(e)' <=> Known(e)
  BY <1>4 DEF Present, Born, Known
<1>7. ASSUME NEW u \in Thread PROVE RequestOK(req[u])'
  <2>1. CASE u = t
    <3>1. RequestOK(q)'
      BY <1>2, <1>3, <1>5, <1>6 DEF RequestOK, NamesOK, FilesOK, CopiesOK, OneDocOps, NoFile
    <3>2. QED
      BY <1>5, <2>1, <3>1
  <2>2. CASE u # t
    <3>1. req[u].op \in OneDocOps => req[u].doc \in Doc
      BY BornDocs DEF PurgeInv, RequestOK, NamesOK, OneDocOps
    <3>2. QED
      BY <1>3, <1>4, <1>5, <1>6, <2>2, <3>1
         DEF PurgeInv, RequestOK, NamesOK, FilesOK, CopiesOK, OneDocOps
  <2>3. QED
    BY <2>1, <2>2
<1>8. PairsOK'
  BY <1>2, <1>3, <1>4, <1>5 DEF PurgeInv, PairsOK
<1>9. RowsOK' /\ LinksOK'
  BY <1>2, <1>4, <1>5, <1>6 DEF PurgeInv, RowsOK, LinksOK, Fetches
<1>10. ASSUME NEW e \in Doc PROVE FileOK(e)' /\ PurgedOK(e)'
  <2>1. d \notin Present /\ d \notin purged
    BY <1>3 DEF PurgeInv, RowsOK
  <2>2. CASE e = d
    BY <1>2, <1>4, <1>5, <1>6, <2>1, <2>2 DEF FileOK, PurgedOK, NoFile
  <2>3. CASE e # d
    <3>1. \A u \in Thread : req[u].op \in {"upload", "uncache", "erase"} => req'[u] = req[u]
      BY <1>3, <1>5
    <3>2. FileOK(e)'
      BY <1>4, <1>5, <1>6, <2>3, <3>1 DEF PurgeInv, FileOK
    <3>3. PurgedOK(e)'
      BY <1>4, <1>5, <1>6, <2>3 DEF PurgeInv, PurgedOK
    <3>4. QED
      BY <3>2, <3>3
  <2>4. QED
    BY <2>2, <2>3
<1>11. QED
  BY <1>5, <1>7, <1>8, <1>9, <1>10 DEF PurgeInv

\* Nobody else names the document of an upload under way.
LEMMA UploadAlone ==
  ASSUME PurgeInv, NEW t \in Thread, req[t].op = "upload"
  PROVE  /\ req[t].doc \in Doc /\ req[t].doc \notin Born /\ req[t].doc \notin Present
         /\ req[t].doc \notin purged /\ blob[req[t].doc] # NoFile
         /\ \A u \in Thread : u # t => req[u].doc # req[t].doc
<1>1. /\ req[t].doc \in Doc /\ req[t].doc \notin Born /\ req[t].doc \notin Present
      /\ req[t].doc \notin purged /\ blob[req[t].doc] # NoFile
  BY DEF PurgeInv, RequestOK, NamesOK, FilesOK, RowsOK
<1>2. ASSUME NEW u \in Thread, u # t PROVE req[u].doc # req[t].doc
  <2>1. CASE req[u].op = "upload"
    BY <1>2, <2>1 DEF PurgeInv, PairsOK
  <2>2. CASE req[u].op \in OneDocOps \ {"upload"}
    BY <1>1, <2>2 DEF PurgeInv, RequestOK, NamesOK
  <2>3. CASE req[u].op \notin OneDocOps
    BY <1>1, <2>3, ConstantsAssumption DEF PurgeInv, RequestOK, NamesOK
  <2>4. QED
    BY <2>1, <2>2, <2>3
<1>3. QED
  BY <1>1, <1>2

LEMMA CommitUploadInv == ASSUME PurgeInv, NEW t \in Thread, CommitUpload(t) PROVE PurgeInv'
<1> USE DEF files
<1>1. PICK d \in Doc : d = req[t].doc
  BY UploadAlone DEF CommitUpload
<1>2. /\ req[t].op = "upload" /\ d \notin Born /\ d \notin Present /\ d \notin purged
      /\ blob[d] # NoFile /\ \A u \in Thread : u # t => req[u].doc # d
  BY <1>1, UploadAlone DEF CommitUpload
<1>3. /\ row' = [row EXCEPT ![d] = "queued"] /\ born' = Append(born, d)
      /\ traces' = [traces EXCEPT ![d] = {"job"}] /\ End(t)
      /\ UNCHANGED <<files, notice, links, purged, late>>
  BY <1>1 DEF CommitUpload
<1>4. born' \in Seq(Doc) /\ IsInjective(born') /\ Born' = Born \union {d}
  BY <1>2, <1>3, BornOneMore DEF PurgeInv
<1>5. /\ TypeOK' /\ req'[t] = Idle /\ \A u \in Thread : u # t => req'[u] = req[u]
  BY <1>3, <1>4, IdleOK DEF End, PurgeInv, TypeOK, Trace, Status
<1>6. Present' = Present \union {d} /\ \A e : Known(e) => Known(e)'
  BY <1>3 DEF Present, Known, Absent, PurgeInv, TypeOK
<1>7. ASSUME NEW u \in Thread PROVE RequestOK(req[u])'
  <2>1. CASE u = t
    <3>1. (TypeOK => RequestOK(Idle))'
      BY IdleOK, PTL
    <3>2. QED
      BY <1>5, <2>1, <3>1
  <2>2. CASE u # t
    BY <1>2, <1>3, <1>4, <1>5, <1>6, <2>2 DEF PurgeInv, RequestOK, NamesOK, FilesOK, CopiesOK
  <2>3. QED
    BY <2>1, <2>2
<1>8. PairsOK'
  BY <1>3, <1>5, IdleOK DEF PurgeInv, PairsOK
<1>9. RowsOK' /\ LinksOK'
  BY <1>3, <1>4, <1>5, <1>6, IdleOK DEF PurgeInv, RowsOK, LinksOK, Fetches
<1>10. ASSUME NEW e \in Doc PROVE FileOK(e)' /\ PurgedOK(e)'
  <2>1. CASE e = d
    BY <1>2, <1>3, <1>6, <2>1 DEF PurgeInv, FileOK, PurgedOK
  <2>2. CASE e # d
    <3>1. \A u \in Thread : /\ req[u].op = "upload" /\ req[u].doc = e => req'[u] = req[u]
                            /\ req[u].op \in {"uncache", "erase"} => req'[u] = req[u]
      BY <1>1, <1>2, <1>5, <2>2
    <3>2. FileOK(e)'
      BY <1>3, <1>6, <2>2, <3>1 DEF PurgeInv, FileOK
    <3>3. PurgedOK(e)'
      BY <1>3, <1>6, <2>2 DEF PurgeInv, PurgedOK, TypeOK
    <3>4. QED
      BY <3>2, <3>3
  <2>3. QED
    BY <2>1, <2>2
<1>11. QED
  BY <1>5, <1>7, <1>8, <1>9, <1>10 DEF PurgeInv

\* A request that ends leaves what it was doing on record.
LEMMA BreakOff ==
  ASSUME PurgeInv, NEW t \in Thread, End(t), UNCHANGED <<cache, tables>>,
         strays' \subseteq Doc, strays \subseteq strays', halved' \subseteq Doc, halved \subseteq halved',
         blob' \in [Doc -> Verdict \union {NoFile}],
         \A d \in Doc : blob'[d] # blob[d] =>
           req[t].op = "upload" /\ d = req[t].doc /\ blob'[d] = NoFile,
         req[t].op = "upload" => req[t].doc \in strays' \/ blob'[req[t].doc] = NoFile,
         req[t].op \in {"uncache", "erase"} => req[t].doc \in halved'
  PROVE  PurgeInv'
<1> USE DEF tables
<1>1. TypeOK' /\ req'[t] = Idle /\ \A u \in Thread : u # t => req'[u] = req[u]
  BY IdleOK DEF End, PurgeInv, TypeOK
<1>2. Present' = Present /\ Born' = Born /\ \A e : Known(e)' <=> Known(e)
  BY DEF Present, Born, Known
<1>3. ASSUME NEW u \in Thread PROVE RequestOK(req[u])'
  <2>1. CASE u = t
    <3>1. (TypeOK => RequestOK(Idle))'
      BY IdleOK, PTL
    <3>2. QED
      BY <1>1, <2>1, <3>1
  <2>2. CASE u # t
    <3>1. req[u].op \in OneDocOps => req[u].doc \in Doc
      BY BornDocs DEF PurgeInv, RequestOK, NamesOK, OneDocOps
    <3>2. req[u].op \in {"upload", "uncache", "erase"} => blob'[req[u].doc] = blob[req[u].doc]
      BY <2>2, <3>1, UploadAlone DEF OneDocOps
    <3>3. QED
      BY <1>1, <1>2, <2>2, <3>2 DEF PurgeInv, RequestOK, NamesOK, FilesOK, CopiesOK
  <2>3. QED
    BY <2>1, <2>2
<1>4. PairsOK'
  BY <1>1, IdleOK DEF PurgeInv, PairsOK
<1>5. RowsOK' /\ LinksOK'
  BY <1>1, <1>2, IdleOK DEF PurgeInv, RowsOK, LinksOK, Fetches
<1>6. ASSUME NEW e \in Doc PROVE FileOK(e)' /\ PurgedOK(e)'
  <2>1. blob'[e] # blob[e] => e \notin Present /\ e \notin purged /\ blob'[e] = NoFile
    BY UploadAlone
  <2>2. \A u \in Thread : u # t => req'[u] = req[u]
    BY <1>1
  <2>3. FileOK(e)'
    BY <1>2, <2>1, <2>2 DEF PurgeInv, FileOK
  <2>4. PurgedOK(e)'
    BY <1>2, <2>1 DEF PurgeInv, PurgedOK
  <2>5. QED
    BY <2>3, <2>4
<1>7. QED
  BY <1>1, <1>3, <1>4, <1>5, <1>6 DEF PurgeInv

LEMMA FailUploadInv == ASSUME PurgeInv, NEW t \in Thread, FailUpload(t) PROVE PurgeInv'
<1>1. req[t].op = "upload" /\ req[t].doc \in Doc
  BY UploadAlone DEF FailUpload
<1>2. CASE blob' = [blob EXCEPT ![req[t].doc] = NoFile] /\ UNCHANGED strays
  BY <1>1, <1>2, BreakOff DEF FailUpload, PurgeInv, TypeOK
<1>3. CASE strays' = strays \union {req[t].doc} /\ UNCHANGED blob
  BY <1>1, <1>3, BreakOff DEF FailUpload, PurgeInv, TypeOK
<1>4. QED
  BY <1>2, <1>3 DEF FailUpload

LEMMA FailInv == ASSUME PurgeInv, NEW t \in Thread, Fail(t) PROVE PurgeInv'
<1>1. req[t].op \in {"upload", "uncache", "erase"} => req[t].doc \in Doc
  BY BornDocs DEF PurgeInv, RequestOK, NamesOK, OneDocOps
<1>2. /\ strays' \subseteq Doc /\ strays \subseteq strays'
      /\ halved' \subseteq Doc /\ halved \subseteq halved'
      /\ req[t].op = "upload" => req[t].doc \in strays'
      /\ req[t].op \in {"uncache", "erase"} => req[t].doc \in halved'
  BY <1>1 DEF Fail, PurgeInv, TypeOK
<1>3. QED
  BY <1>2, BreakOff DEF Fail, PurgeInv, TypeOK

-----------------------------------------------------------------------------
(* Purges.                                                                   *)

LEMMA DeleteFileInv == ASSUME PurgeInv, NEW t \in Thread, DeleteFile(t) PROVE PurgeInv'
<1> USE DEF tables
<1>1. PICK d \in Doc : d = req[t].doc
  BY BornDocs DEF DeleteFile, PurgeInv, RequestOK, NamesOK, OneDocOps
<1>2. PICK q : q = [req[t] EXCEPT !.op = "uncache"]
  OBVIOUS
<1>3. /\ req[t].op = "purge" /\ d \in Born
      /\ q \in Request /\ q.op = "uncache" /\ q.doc = d /\ q.docs = req[t].docs
  BY <1>1, <1>2 DEF DeleteFile, PurgeInv, TypeOK, Request, Op, RequestOK, NamesOK, OneDocOps
<1>4. /\ req' = [req EXCEPT ![t] = q] /\ blob' = [blob EXCEPT ![d] = NoFile]
      /\ UNCHANGED <<cache, strays, halved, tables>>
  BY <1>1, <1>2 DEF DeleteFile, Continue
<1>5. /\ TypeOK' /\ req'[t] = q /\ \A u \in Thread : u # t => req'[u] = req[u]
      /\ blob'[d] = NoFile /\ \A e \in Doc : e # d => blob'[e] = blob[e]
  BY <1>3, <1>4 DEF PurgeInv, TypeOK
<1>6. Present' = Present /\ Born' = Born /\ \A e : Known(e)' <=> Known(e)
  BY <1>4 DEF Present, Born, Known
<1>7. ASSUME NEW u \in Thread PROVE RequestOK(req[u])'
  <2>1. CASE u = t
    <3>1. NamesOK(q)' /\ FilesOK(q)' /\ CopiesOK(q)'
      BY <1>3, <1>5, <1>6 DEF PurgeInv, RequestOK, NamesOK, FilesOK, CopiesOK, OneDocOps
    <3>2. QED
      BY <1>5, <2>1, <3>1 DEF RequestOK
  <2>2. CASE u # t
    <3>1. req[u].op \in OneDocOps => req[u].doc \in Doc
      BY BornDocs DEF PurgeInv, RequestOK, NamesOK, OneDocOps
    <3>2. req[u].op = "upload" => req[u].doc # d
      BY <1>3, UploadAlone
    <3>3. QED
      BY <1>4, <1>5, <1>6, <2>2, <3>1, <3>2
         DEF PurgeInv, RequestOK, NamesOK, FilesOK, CopiesOK, OneDocOps
  <2>3. QED
    BY <2>1, <2>2
<1>8. PairsOK'
  BY <1>3, <1>4, <1>5 DEF PurgeInv, PairsOK
<1>9. RowsOK' /\ LinksOK'
  BY <1>3, <1>4, <1>5, <1>6 DEF PurgeInv, RowsOK, LinksOK, Fetches
<1>10. ASSUME NEW e \in Doc PROVE FileOK(e)' /\ PurgedOK(e)'
  <2>1. \A u \in Thread : req[u].op \in {"upload", "uncache", "erase"} => req'[u] = req[u]
    BY <1>3, <1>5
  <2>2. FileOK(e)'
    <3>1. CASE e = d
      BY <1>3, <1>5, <3>1 DEF FileOK
    <3>2. CASE e # d
      BY <1>4, <1>5, <1>6, <2>1, <3>2 DEF PurgeInv, FileOK
    <3>3. QED
      BY <3>1, <3>2
  <2>3. PurgedOK(e)'
    BY <1>4, <1>5, <1>6 DEF PurgeInv, PurgedOK
  <2>4. QED
    BY <2>2, <2>3
<1>11. QED
  BY <1>5, <1>7, <1>8, <1>9, <1>10 DEF PurgeInv

LEMMA DropCachedInv == ASSUME PurgeInv, NEW t \in Thread, DropCached(t) PROVE PurgeInv'
<1>1. PICK d \in Doc : d = req[t].doc
  BY BornDocs DEF DropCached, PurgeInv, RequestOK, NamesOK, OneDocOps
<1>2. PICK q : q = [req[t] EXCEPT !.op = "erase"]
  OBVIOUS
<1>3. /\ req[t].op = "uncache" /\ d \in Born /\ blob[d] = NoFile
      /\ q \in Request /\ q.op = "erase" /\ q.doc = d /\ q.docs = req[t].docs
  BY <1>1, <1>2
     DEF DropCached, PurgeInv, TypeOK, Request, Op, RequestOK, NamesOK, FilesOK, OneDocOps
<1>4. /\ req' = [req EXCEPT ![t] = q] /\ cache' = cache \ {d}
      /\ late' = IF \E u \in Thread : Fetches(u, d) THEN late \union {d} ELSE late
      /\ UNCHANGED <<blob, strays, halved, row, born, traces, notice, links, purged>>
  BY <1>1, <1>2 DEF DropCached, Continue
<1>5. /\ TypeOK' /\ req'[t] = q /\ \A u \in Thread : u # t => req'[u] = req[u]
      /\ late \subseteq late' /\ \A u \in Thread : Fetches(u, d) => d \in late'
  BY <1>3, <1>4 DEF PurgeInv, TypeOK
<1>6. Present' = Present /\ Born' = Born /\ \A e : Known(e) => Known(e)'
  BY <1>4, <1>5 DEF Present, Born, Known
<1>7. ASSUME NEW u \in Thread PROVE RequestOK(req[u])'
  <2>1. CASE u = t
    <3>1. NamesOK(q)' /\ FilesOK(q)' /\ CopiesOK(q)'
      BY <1>3, <1>4, <1>5, <1>6 DEF PurgeInv, RequestOK, NamesOK, FilesOK, CopiesOK, OneDocOps
    <3>2. QED
      BY <1>5, <2>1, <3>1 DEF RequestOK
  <2>2. CASE u # t
    BY <1>4, <1>5, <1>6, <2>2 DEF PurgeInv, RequestOK, NamesOK, FilesOK, CopiesOK
  <2>3. QED
    BY <2>1, <2>2
<1>8. PairsOK'
  BY <1>3, <1>5 DEF PurgeInv, PairsOK, Fetches
<1>9. RowsOK' /\ LinksOK'
  BY <1>3, <1>4, <1>5, <1>6 DEF PurgeInv, RowsOK, LinksOK, Fetches
<1>10. ASSUME NEW e \in Doc PROVE FileOK(e)' /\ PurgedOK(e)'
  <2>1. \A u \in Thread : /\ req[u].op = "upload" => req'[u] = req[u]
                          /\ req[u].op \in {"uncache", "erase"} =>
                               req'[u].op \in {"uncache", "erase"} /\ req'[u].doc = req[u].doc
    BY <1>1, <1>3, <1>5
  <2>2. FileOK(e)'
    BY <1>4, <1>5, <1>6, <2>1 DEF PurgeInv, FileOK
  <2>3. PurgedOK(e)'
    BY <1>4, <1>5, <1>6 DEF PurgeInv, PurgedOK
  <2>4. QED
    BY <2>2, <2>3
<1>11. QED
  BY <1>5, <1>7, <1>8, <1>9, <1>10 DEF PurgeInv

\* The request that purged goes on to the next document of its sweep, or ends.
LEMMA AfterPurgeRow ==
  ASSUME PurgeInv, NEW t \in Thread, AfterPurge(t)
  PROVE  \E q \in Request : /\ req' = [req EXCEPT ![t] = q]
                            /\ q.op \in {"idle", "trim", "sweep"} /\ q.doc = NoDoc
                            /\ q.docs \subseteq req[t].docs
<1>1. CASE End(t)
  <2>1. Idle \in Request /\ Idle.op = "idle" /\ Idle.doc = NoDoc /\ Idle.docs = {}
    BY DEF Idle, Request, Op
  <2>2. QED
    BY <1>1, <2>1 DEF End
<1>2. CASE \E op \in {"trim", "sweep"} : Continue(t, [req[t] EXCEPT !.op = op, !.doc = NoDoc])
  <2>1. PICK op \in {"trim", "sweep"} : Continue(t, [req[t] EXCEPT !.op = op, !.doc = NoDoc])
    BY <1>2
  <2>2. PICK q : q = [req[t] EXCEPT !.op = op, !.doc = NoDoc]
    OBVIOUS
  <2>3. q \in Request /\ q.op = op /\ q.doc = NoDoc /\ q.docs = req[t].docs
    BY <2>2 DEF PurgeInv, TypeOK, Request, Op
  <2>4. QED
    BY <2>1, <2>2, <2>3 DEF Continue
<1>3. QED
  BY <1>1, <1>2 DEF AfterPurge

LEMMA PurgeRowsInv == ASSUME PurgeInv, NEW t \in Thread, PurgeRows(t) PROVE PurgeInv'
<1>1. PICK d \in Doc : d = req[t].doc
  BY BornDocs DEF PurgeRows, PurgeInv, RequestOK, NamesOK, OneDocOps
<1>2. /\ req[t].op = "erase" /\ d \in Born /\ blob[d] = NoFile
      /\ d \notin cache \/ d \in late
      /\ UNCHANGED <<blob, cache, strays, born>>
  BY <1>1 DEF PurgeRows, PurgeInv, RequestOK, NamesOK, FilesOK, OneDocOps
<1>3. PICK q \in Request : /\ req' = [req EXCEPT ![t] = q]
                           /\ q.op \in {"idle", "trim", "sweep"} /\ q.doc = NoDoc
                           /\ q.docs \subseteq req[t].docs
  <2>1. CASE AfterPurge(t)
    BY <2>1, AfterPurgeRow
  <2>2. CASE End(t)
    <3>1. Idle \in Request /\ Idle.op = "idle" /\ Idle.doc = NoDoc /\ Idle.docs = {}
      BY DEF Idle, Request, Op
    <3>2. QED
      BY <2>2, <3>1 DEF End
  <2>3. QED
    BY <2>1, <2>2 DEF PurgeRows
<1>4. req'[t] = q /\ \A u \in Thread : u # t => req'[u] = req[u]
  BY <1>3 DEF PurgeInv, TypeOK
<1>5. Born' = Born
  BY <1>2 DEF Born
<1>6. CASE d \notin Present
  <2>1. UNCHANGED <<row, traces, notice, links, purged, late, halved>>
    BY <1>1, <1>6 DEF PurgeRows
  <2>2. TypeOK' /\ Present' = Present /\ \A e : Known(e)' <=> Known(e)
    BY <1>2, <1>3, <2>1 DEF PurgeInv, TypeOK, Present, Known
  <2>3. ASSUME NEW u \in Thread PROVE RequestOK(req[u])'
    <3>1. CASE u = t
      BY <1>2, <1>3, <1>4, <1>5, <3>1
         DEF PurgeInv, RequestOK, NamesOK, FilesOK, CopiesOK, OneDocOps
    <3>2. CASE u # t
      BY <1>2, <1>4, <1>5, <2>1, <2>2, <3>2 DEF PurgeInv, RequestOK, NamesOK, FilesOK, CopiesOK
    <3>3. QED
      BY <3>1, <3>2
  <2>4. PairsOK'
    BY <1>3, <1>4, <2>1 DEF PurgeInv, PairsOK
  <2>5. RowsOK' /\ LinksOK'
    BY <1>3, <1>4, <1>5, <2>1, <2>2 DEF PurgeInv, RowsOK, LinksOK, Fetches
  <2>6. ASSUME NEW e \in Doc PROVE FileOK(e)' /\ PurgedOK(e)'
    <3>1. FileOK(e)'
      BY <1>1, <1>2, <1>4, <1>6, <2>1, <2>2 DEF PurgeInv, FileOK
    <3>2. PurgedOK(e)'
      BY <1>2, <2>1, <2>2 DEF PurgeInv, PurgedOK
    <3>3. QED
      BY <3>1, <3>2
  <2>7. QED
    BY <2>2, <2>3, <2>4, <2>5, <2>6 DEF PurgeInv
<1>7. CASE d \in Present
  <2>1. /\ row' = [row EXCEPT ![d] = Absent] /\ traces' = [traces EXCEPT ![d] = Kept(d)]
        /\ notice' = [notice EXCEPT ![d] = "none"] /\ links' = Unlinked(d)
        /\ purged' = purged \union {d} /\ halved' = halved \ {d}
        /\ late' = IF \E u \in Thread \ {t} : Holds(u, d) THEN late \union {d} ELSE late
    BY <1>1, <1>7 DEF PurgeRows
  <2>2. /\ TypeOK' /\ Present' = Present \ {d} /\ late \subseteq late'
        /\ \A u \in Thread : u # t /\ Holds(u, d) => d \in late'
    <3>1. Kept(d) \in SUBSET Trace /\ Unlinked(d) \in [Item -> SUBSET Doc]
      BY DEF Kept, Unlinked, PurgeInv, TypeOK
    <3>2. TypeOK'
      BY <1>2, <1>3, <2>1, <3>1 DEF PurgeInv, TypeOK, Notice
    <3>3. Present' = Present \ {d}
      BY <2>1 DEF Present, PurgeInv, TypeOK
    <3>4. QED
      BY <2>1, <3>2, <3>3
  <2>3. \A e : Known(e) /\ e # d => Known(e)'
    BY <2>2 DEF Known
  <2>4. ASSUME NEW u \in Thread PROVE RequestOK(req[u])'
    <3>1. CASE u = t
      BY <1>2, <1>3, <1>4, <1>5, <3>1
         DEF PurgeInv, RequestOK, NamesOK, FilesOK, CopiesOK, OneDocOps
    <3>2. CASE u # t
      <4>1. NamesOK(req[u]) /\ FilesOK(req[u]) /\ CopiesOK(req[u]) /\ req'[u] = req[u]
        BY <1>4, <3>2 DEF PurgeInv, RequestOK
      <4>2. NamesOK(req[u])' /\ FilesOK(req[u])'
        BY <1>2, <1>5, <2>2, <4>1 DEF NamesOK, FilesOK
      <4>3. CopiesOK(req[u])'
        BY <2>2, <2>3, <3>2, <4>1 DEF CopiesOK, Holds, Known
      <4>4. QED
        BY <4>2, <4>3 DEF RequestOK
    <3>3. QED
      BY <3>1, <3>2
  <2>5. PairsOK'
    BY <1>3, <1>4, <2>2 DEF PurgeInv, PairsOK
  <2>6. ASSUME NEW u \in Thread, Fetches(u, d) PROVE d \in late
    BY <1>1, <1>2, <2>6 DEF PurgeInv, PairsOK, Fetches
  <2>7. RowsOK'
    <3>1. Present' \subseteq Born' /\ purged' \subseteq Born'
      BY <1>2, <1>5, <2>1, <2>2 DEF PurgeInv, RowsOK
    <3>2. \A e \in Doc : notice'[e] # "none" => Known(e)' /\ e \in Born'
      BY <1>5, <2>1, <2>3 DEF PurgeInv, RowsOK, TypeOK
    <3>3. ASSUME NEW e \in purged' \ late', NEW u \in Thread PROVE ~Fetches(u, e)'
      <4>1. ~Fetches(u, e)
        BY <2>1, <2>2, <2>6, <3>3 DEF PurgeInv, RowsOK
      <4>2. QED
        BY <1>3, <1>4, <4>1 DEF Fetches
    <3>4. QED
      BY <3>1, <3>2, <3>3 DEF RowsOK
  <2>8. LinksOK'
    BY <2>1, <2>2 DEF PurgeInv, LinksOK, Unlinked
  <2>9. ASSUME NEW e \in Doc PROVE FileOK(e)' /\ PurgedOK(e)'
    <3>1. CASE e = d
      <4>1. /\ blob'[d] = NoFile /\ d \notin Present' /\ notice'[d] = "none"
            /\ traces'[d] \subseteq {"export run"}
            /\ d \in late' \/ d \notin cache'
        BY <1>2, <2>1, <2>2 DEF Kept, PurgeInv, TypeOK
      <4>2. QED
        BY <3>1, <4>1, <1>2, <2>2 DEF FileOK, PurgedOK
    <3>2. CASE e # d
      <4>1. FileOK(e)'
        BY <1>1, <1>2, <1>4, <2>1, <2>2, <3>2 DEF PurgeInv, FileOK
      <4>2. PurgedOK(e)'
        BY <1>2, <2>1, <2>2, <3>2 DEF PurgeInv, PurgedOK, TypeOK
      <4>3. QED
        BY <4>1, <4>2
    <3>3. QED
      BY <3>1, <3>2
  <2>10. QED
    BY <2>2, <2>4, <2>5, <2>7, <2>8, <2>9 DEF PurgeInv
<1>8. QED
  BY <1>6, <1>7

-----------------------------------------------------------------------------
(* The theorems.                                                             *)

LEMMA InitPurgeInv == Init => PurgeInv
<1> SUFFICES ASSUME Init PROVE PurgeInv
  OBVIOUS
<1>1. TypeOK
  <2>1. Idle \in Request
    BY DEF Idle, Request, Op
  <2>2. born \in Seq(Doc) /\ IsInjective(born)
    BY DEF Init, IsInjective
  <2>3. QED
    BY <2>1, <2>2 DEF Init, TypeOK, Notice
<1>2. Born = {} /\ Present = {}
  BY DEF Init, Born, Range, Present
<1>3. PairsOK /\ \A t \in Thread : RequestOK(req[t])
  BY <1>1, IdleOK DEF Init, PairsOK
<1>4. RowsOK /\ LinksOK
  BY <1>2 DEF Init, RowsOK, LinksOK
<1>5. \A d \in Doc : FileOK(d) /\ PurgedOK(d)
  BY <1>2 DEF Init, FileOK, PurgedOK
<1>6. QED
  BY <1>1, <1>3, <1>4, <1>5 DEF PurgeInv

LEMMA StepPurgeInv == ASSUME PurgeInv, NEW t \in Thread, Step(t) PROVE PurgeInv'
<1>1. CASE \E d \in Doc : \/ SaveFile(t, d) \/ BeginMove(t, d) \/ BeginFetch(t, d)
                          \/ LookUp(t, d) \/ BeginMark(t, d) \/ BeginPurge(t, d)
                          \/ NextCandidate(t, d)
  BY <1>1, SaveFileInv, BeginOneInv, LookUpInv, NextCandidateInv
<1>2. CASE \/ CommitUpload(t) \/ FailUpload(t) \/ Fail(t)
           \/ \E target \in Targets : CommitMove(t, target)
  BY <1>2, CommitUploadInv, FailUploadInv, FailInv, CommitMoveInv
<1>3. CASE \/ EndFetch(t) \/ CommitPlan(t) \/ OpenPage(t) \/ Notify(t) \/ CommitMark(t)
           \/ \E i \in Item : BeginPlan(t, i)
  BY <1>3, EndFetchInv, CommitPlanInv, OpenPageInv, NotifyInv, CommitMarkInv, BeginPlanInv
<1>4. CASE \/ DeleteFile(t) \/ DropCached(t) \/ PurgeRows(t)
           \/ \E cutoff \in 0..Len(born) : Sweep(t, cutoff)
           \/ \E old \in SUBSET cache : TrimCache(t, old)
  BY <1>4, DeleteFileInv, DropCachedInv, PurgeRowsInv, SweepInv, TrimCacheInv
<1>5. QED
  BY <1>1, <1>2, <1>3, <1>4 DEF Step

\* Every request, and whatever overtakes it, keeps the invariant.
LEMMA NextPurgeInv == PurgeInv /\ [Next]_vars => PurgeInv'
<1> SUFFICES ASSUME PurgeInv, [Next]_vars PROVE PurgeInv'
  OBVIOUS
<1>1. CASE UNCHANGED vars
  <2>1. MovesOn /\ TypeOK' /\ LinksOK' /\ Present' = Present /\ UNCHANGED <<files, born, purged, late>>
    BY <1>1 DEF vars, MovesOn, PurgeInv, TypeOK, LinksOK, Present, files
  <2>2. QED
    BY <1>1, <2>1, WriteStep, ConstantsAssumption DEF vars
<1>2. QED
  BY <1>1, StepPurgeInv, ExportInv, CreateItemInv DEF Next

\* A stored file was verified clean and belongs to a document or to an upload
\* under way, and a document has its file, wherever uploads, purges and copies
\* written back end, fail or crash.
THEOREM FilesAgree == Spec => []FilesAndRowsAgree
<1>1. PurgeInv => FilesAndRowsAgree
  BY DEF PurgeInv, FilesAndRowsAgree, FileOK
<1>2. QED
  BY <1>1, InitPurgeInv, NextPurgeInv, PTL DEF Spec

\* What a purge removed does not come back, except through a request that had read
\* the document, or was fetching its file, before the rows went.
THEOREM PurgesStay == Spec => []PurgedDataStaysGone
<1>1. PurgeInv => PurgedDataStaysGone
  BY BornDocs DEF PurgeInv, PurgedDataStaysGone, PurgedOK, RowsOK, LinksOK
<1>2. QED
  BY <1>1, InitPurgeInv, NextPurgeInv, PTL DEF Spec
=============================================================================
