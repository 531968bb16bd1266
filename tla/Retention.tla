------------------------------ MODULE Retention ------------------------------
(***************************************************************************)
(* The stored documents from upload to purge (documents/services.py,       *)
(* documents/retention.py, providers/storage.py and                        *)
(* azure_blob_storage.py, core/upload_scanning.py) and the notifications    *)
(* projected from them (api/operations.py, operations/notifications.py).   *)
(*                                                                         *)
(* A document has a file in the object store, perhaps a copy of it in the  *)
(* parser cache, a row, rows of other tables that name it (traces), a      *)
(* notification and links from work items. The store and the database are  *)
(* not updated together: an upload writes the file first, a purge deletes  *)
(* it first. Every handler works on a copy: between the two steps of one   *)
(* request the others move, and any request can fail or crash in between.  *)
(* The tables are the SQLite ones: a row is written by an upsert, and only *)
(* the work item links have a foreign key on the document.                 *)
(***************************************************************************)
EXTENDS DocumentStatus, Functions, Naturals, Sequences

CONSTANTS Doc, Item, Thread, NoDoc,
          Scanner,  \* scans uploads: none, signature or clamav
          Targets,  \* the statuses the other handlers move documents to
          Visited   \* the documents that parsers and pages visit

ASSUME ConstantsAssumption ==
  NoDoc \notin Doc /\ Targets \subseteq Status /\ Visited \subseteq Doc

VARIABLES
  blob,     \* per document: NoFile, or what a scan of the stored file says
  cache,    \* the documents with a file in the parser cache
  row,      \* per document: the status in its row, or Absent
  born,     \* the documents in created_at order
  traces,   \* per document: the other rows that name it
  notice,   \* per document: the notification of its failed job
  links,    \* per work item: its linked documents, none for an item without or gone
  req,      \* per thread: the request it is serving
  purged,   \* the documents that have a purge tombstone
  late,     \* the documents another request held a copy of when their data went
  strays,   \* documents whose upload ended with its file left behind
  halved    \* documents whose purge ended between the file and the rows

vars == <<blob, cache, row, born, traces, notice, links, req,
          purged, late, strays, halved>>
files == <<blob, cache, strays, halved>>
tables == <<row, born, traces, notice, links, purged, late>>

Verdict == {"OK", "FOUND", "unverified"}
NoFile  == "no file"
Trace   == {"job", "failed job", "export run"}
Notice  == {"none", "unread", "read"}

\* RETENTION_ELIGIBLE_STATUSES, and the statuses purge_document refuses.
Eligible == {"approved", "rejected", "failed", "exported", "cancelled"}
Busy     == {"queued", "processing"}

Op == {"idle", "upload", "move", "fetch", "plan", "project", "notify", "mark",
       "sweep", "purge", "uncache", "erase", "trim"}

\* queue: the documents a page or a sweep has still to visit; sweeping tells a
\* purge made by purge_expired from one made by the delete endpoint.
Request == [op : Op, doc : Doc \union {NoDoc}, seen : Status \union {Absent},
            item : SUBSET Item, docs : SUBSET Doc, sweeping : BOOLEAN]

Idle == [op |-> "idle", doc |-> NoDoc, seen |-> Absent,
         item |-> {}, docs |-> {}, sweeping |-> FALSE]

Present == {d \in Doc : row[d] # Absent}
Born    == Range(born)

Init ==
  /\ blob = [d \in Doc |-> NoFile] /\ cache = {}
  /\ row = [d \in Doc |-> Absent] /\ born = <<>>
  /\ traces = [d \in Doc |-> {}] /\ notice = [d \in Doc |-> "none"]
  /\ links = [i \in Item |-> {}]
  /\ req = [t \in Thread |-> Idle]
  /\ purged = {} /\ late = {} /\ strays = {} /\ halved = {}

Begin(t, request) ==
  /\ req[t] = Idle
  /\ req' = [req EXCEPT ![t] = request]

End(t) == req' = [req EXCEPT ![t] = Idle]

Continue(t, request) == req' = [req EXCEPT ![t] = request]

-----------------------------------------------------------------------------
(* Uploads. *)

\* Mutant of Passes: a scan that could not be made lets the file through.
PassesUnlessFound(verdict) == verdict # "FOUND"

\* A scanner fails closed: an error, a timeout or an answer it does not know
\* refuses the upload like a finding does. With scanning disabled all pass.
Passes(verdict) == Scanner = "none" \/ verdict = "OK"

\* The file gets a fresh key; the local store renames a complete temporary
\* file, the others put the whole object. A refused upload changes nothing.
SaveFile(t, d) ==
  /\ blob[d] = NoFile /\ d \notin Born /\ d \notin strays
  /\ \A u \in Thread : req[u].doc # d
  /\ \E verdict \in Verdict :
       Passes(verdict) /\ blob' = [blob EXCEPT ![d] = verdict]
  /\ Begin(t, [Idle EXCEPT !.op = "upload", !.doc = d])
  /\ UNCHANGED <<cache, strays, halved, tables>>

\* One transaction: the document and its first records, the job among them.
CommitUpload(t) ==
  LET d == req[t].doc IN
  /\ req[t].op = "upload"
  /\ row' = [row EXCEPT ![d] = "queued"]
  /\ born' = Append(born, d)
  /\ traces' = [traces EXCEPT ![d] = {"job"}]
  /\ End(t)
  /\ UNCHANGED <<files, notice, links, purged, late>>

\* The transaction fails and the file is deleted, unless that fails too.
FailUpload(t) ==
  LET d == req[t].doc IN
  /\ req[t].op = "upload"
  /\ \/ blob' = [blob EXCEPT ![d] = NoFile] /\ UNCHANGED strays
     \/ strays' = strays \union {d} /\ UNCHANGED blob
  /\ End(t)
  /\ UNCHANGED <<cache, halved, tables>>

-----------------------------------------------------------------------------
(* The other requests, as far as they touch what a purge removes. *)

\* A handler reads the document and later upserts its copy with a new status,
\* with an audit event and perhaps a job, counted as one trace. The results of
\* a job are fenced by its row.
BeginMove(t, d) ==
  /\ d \in Present
  /\ Begin(t, [Idle EXCEPT !.op = "move", !.doc = d, !.seen = row[d]])
  /\ UNCHANGED <<files, tables>>

CommitMove(t, target) ==
  LET d == req[t].doc IN
  /\ req[t].op = "move" /\ CanTransition(req[t].seen, target)
  /\ req[t].seen = "processing" => "job" \in traces[d]
  /\ row' = [row EXCEPT ![d] = target]
  /\ traces' = [traces EXCEPT ![d] = @ \union
                  (IF target = "failed" THEN {"failed job"} ELSE {"job"})]
  /\ End(t)
  /\ UNCHANGED <<files, born, notice, links, purged, late>>

\* The completion of an export run reads the documents in its transaction; the
\* run keeps the rendered rows.
Export(d) ==
  /\ row[d] = "approved"
  /\ row' = [row EXCEPT ![d] = "exported"]
  /\ traces' = [traces EXCEPT ![d] = @ \union {"export run"}]
  /\ UNCHANGED <<files, born, notice, links, req, purged, late>>

\* The parser downloads the file and then puts it in the cache.
BeginFetch(t, d) ==
  /\ d \in Present \intersect Visited /\ blob[d] # NoFile
  /\ Begin(t, [Idle EXCEPT !.op = "fetch", !.doc = d])
  /\ UNCHANGED <<files, tables>>

EndFetch(t) ==
  /\ req[t].op = "fetch"
  /\ cache' = cache \union {req[t].doc}
  /\ End(t)
  /\ UNCHANGED <<blob, strays, halved, tables>>

\* A work item is created with its links, or a copy of it is written back.
\* The foreign key refuses a link to a document that is gone.
CreateItem(i, docs) ==
  /\ links[i] = {} /\ docs # {}
  /\ \A t \in Thread : i \notin req[t].item
  /\ links' = [links EXCEPT ![i] = docs]
  /\ UNCHANGED <<files, row, born, traces, notice, req, purged, late>>

BeginPlan(t, i) ==
  /\ links[i] # {}
  /\ Begin(t, [Idle EXCEPT !.op = "plan", !.item = {i}, !.docs = links[i]])
  /\ UNCHANGED <<files, tables>>

CommitPlan(t) ==
  /\ req[t].op = "plan"
  /\ links' = [i \in Item |->
       IF i \in req[t].item /\ req[t].docs \subseteq Present THEN req[t].docs ELSE links[i]]
  /\ End(t)
  /\ UNCHANGED <<files, row, born, traces, notice, purged, late>>

-----------------------------------------------------------------------------
(* Notifications: every visit of the page projects the failed jobs. *)

FailedDocs == {d \in Present \intersect Visited : "failed job" \in traces[d]}

OpenPage(t) ==
  /\ FailedDocs # {}
  /\ Begin(t, [Idle EXCEPT !.op = "project", !.docs = FailedDocs])
  /\ UNCHANGED <<files, tables>>

Rest(t, d) == req[t].docs \ {d}

Advance(t, d) ==
  IF Rest(t, d) = {} THEN End(t)
  ELSE Continue(t, [req[t] EXCEPT !.op = "project", !.doc = NoDoc, !.docs = Rest(t, d)])

\* add looks the source key up, and inserts only when there is none.
LookUp(t, d) ==
  /\ req[t].op = "project" /\ d \in req[t].docs
  /\ IF notice[d] # "none" THEN Advance(t, d)
     ELSE Continue(t, [req[t] EXCEPT !.op = "notify", !.doc = d])
  /\ UNCHANGED <<files, tables>>

\* INSERT OR REPLACE: a notification stored since the lookup is replaced.
Notify(t) ==
  /\ req[t].op = "notify"
  /\ notice' = [notice EXCEPT ![req[t].doc] = "unread"]
  /\ Advance(t, req[t].doc)
  /\ UNCHANGED <<files, row, born, traces, links, purged, late>>

BeginMark(t, d) ==
  /\ notice[d] # "none"
  /\ Begin(t, [Idle EXCEPT !.op = "mark", !.doc = d])
  /\ UNCHANGED <<files, tables>>

CommitMark(t) ==
  /\ req[t].op = "mark"
  /\ notice' = [notice EXCEPT ![req[t].doc] = "read"]
  /\ End(t)
  /\ UNCHANGED <<files, row, born, traces, links, purged, late>>

-----------------------------------------------------------------------------
(* Purges. *)

\* purge_document reads the document and refuses one that is being processed.
Purgeable(d) == d \in Present /\ row[d] \notin Busy

BeginPurge(t, d) ==
  /\ Purgeable(d)
  /\ Begin(t, [Idle EXCEPT !.op = "purge", !.doc = d])
  /\ UNCHANGED <<files, tables>>

\* purge_expired lists the eligible documents created before the cutoff.
Candidates(cutoff) ==
  {d \in Present : row[d] \in Eligible /\ \E n \in 1..cutoff : born[n] = d}

Sweep(t, cutoff) ==
  /\ Begin(t, [Idle EXCEPT !.op = IF Candidates(cutoff) = {} THEN "trim" ELSE "sweep",
                           !.docs = Candidates(cutoff), !.sweeping = TRUE])
  /\ UNCHANGED <<files, tables>>

IsOldest(d, docs) ==
  \E n \in DOMAIN born : born[n] = d /\ d \in docs /\ \A m \in 1..(n - 1) : born[m] \notin docs

\* The next candidate is purged like a single document; one that has been
\* removed or is processing again ends the whole sweep.
NextCandidate(t, d) ==
  /\ req[t].op = "sweep" /\ IsOldest(d, req[t].docs)
  /\ IF Purgeable(d)
     THEN Continue(t, [req[t] EXCEPT !.op = "purge", !.doc = d, !.docs = Rest(t, d)])
     ELSE End(t)
  /\ UNCHANGED <<files, tables>>

Fetches(u, d) == req[u].op = "fetch" /\ req[u].doc = d

\* The object first: one that does not exist counts as deleted.
DeleteFile(t) ==
  /\ req[t].op = "purge"
  /\ blob' = [blob EXCEPT ![req[t].doc] = NoFile]
  /\ Continue(t, [req[t] EXCEPT !.op = "uncache"])
  /\ UNCHANGED <<cache, strays, halved, tables>>

DropCached(t) ==
  LET d == req[t].doc IN
  /\ req[t].op = "uncache"
  /\ cache' = cache \ {d}
  /\ late' = IF \E u \in Thread : Fetches(u, d) THEN late \union {d} ELSE late
  /\ Continue(t, [req[t] EXCEPT !.op = "erase"])
  /\ UNCHANGED <<blob, strays, halved, row, born, traces, notice, links, purged>>

\* Mutant of Unlinked: the purge leaves the links of work items alone.
StillLinked(d) == links

\* A work item left without a document is deleted with its plans and events.
Unlinked(d) == [i \in Item |-> links[i] \ {d}]

Holds(u, d) ==
  \/ req[u].op \in {"move", "notify", "mark"} /\ req[u].doc = d
  \/ req[u].op \in {"project", "notify"} /\ d \in req[u].docs

AfterPurge(t) ==
  IF ~req[t].sweeping THEN End(t)
  ELSE Continue(t, [req[t] EXCEPT !.op = IF req[t].docs = {} THEN "trim" ELSE "sweep",
                                  !.doc = NoDoc])

\* The export tables are not among the tables of either SQL store's purge.
Kept(d) == traces[d] \intersect {"export run"}

\* One transaction removes every row that names the document, except the
\* export runs, and leaves the tombstone. A second purge finds no row and fails.
PurgeRows(t) ==
  LET d == req[t].doc IN
  /\ req[t].op = "erase"
  /\ IF d \in Present
     THEN /\ row' = [row EXCEPT ![d] = Absent]
          /\ traces' = [traces EXCEPT ![d] = Kept(d)]
          /\ notice' = [notice EXCEPT ![d] = "none"]
          /\ links' = Unlinked(d)
          /\ purged' = purged \union {d} /\ halved' = halved \ {d}
          /\ late' = IF \E u \in Thread \ {t} : Holds(u, d) THEN late \union {d} ELSE late
          /\ AfterPurge(t)
     ELSE End(t) /\ UNCHANGED <<row, traces, notice, links, purged, late, halved>>
  /\ UNCHANGED <<blob, cache, strays, born>>

\* After the last candidate the sweep removes the cached files of a certain age.
TrimCache(t, old) ==
  /\ req[t].op = "trim" /\ old \subseteq cache
  /\ cache' = cache \ old
  /\ End(t)
  /\ UNCHANGED <<blob, strays, halved, tables>>

\* An exception or the end of the process: the request is over, what it wrote
\* stays. A sweep is over with the purge it was making.
Fail(t) ==
  LET d == req[t].doc IN
  /\ req[t].op # "idle"
  /\ strays' = IF req[t].op = "upload" THEN strays \union {d} ELSE strays
  /\ halved' = IF req[t].op \in {"uncache", "erase"} THEN halved \union {d} ELSE halved
  /\ End(t)
  /\ UNCHANGED <<blob, cache, tables>>

-----------------------------------------------------------------------------
Step(t) ==
  \/ \E d \in Doc : \/ SaveFile(t, d) \/ BeginMove(t, d) \/ BeginFetch(t, d)
                    \/ LookUp(t, d) \/ BeginMark(t, d) \/ BeginPurge(t, d)
                    \/ NextCandidate(t, d)
  \/ CommitUpload(t) \/ FailUpload(t)
  \/ \E target \in Targets : CommitMove(t, target)
  \/ EndFetch(t)
  \/ \E i \in Item : BeginPlan(t, i)
  \/ CommitPlan(t)
  \/ OpenPage(t) \/ Notify(t) \/ CommitMark(t)
  \/ \E cutoff \in 0 .. Len(born) : Sweep(t, cutoff)
  \/ DeleteFile(t) \/ DropCached(t) \/ PurgeRows(t)
  \/ \E old \in SUBSET cache : TrimCache(t, old)
  \/ Fail(t)

Next ==
  \/ \E t \in Thread : Step(t)
  \/ \E d \in Doc : Export(d)
  \/ \E i \in Item, docs \in SUBSET Present : CreateItem(i, docs)

Spec == Init /\ [][Next]_vars
-----------------------------------------------------------------------------
TypeOK ==
  /\ blob \in [Doc -> Verdict \union {NoFile}] /\ cache \subseteq Doc
  /\ row \in [Doc -> Status \union {Absent}]
  /\ born \in Seq(Doc) /\ IsInjective(born)
  /\ traces \in [Doc -> SUBSET Trace] /\ notice \in [Doc -> Notice]
  /\ links \in [Item -> SUBSET Doc]
  /\ req \in [Thread -> Request]
  /\ purged \subseteq Doc /\ late \subseteq Doc
  /\ strays \subseteq Doc /\ halved \subseteq Doc

\* Every variable keeps its type. A stored file was verified clean, if uploads
\* are scanned, and belongs to a document or to an upload under way; a document
\* has its file. Either fails only where it must: an upload that failed or
\* crashed before its rows, a purge that is between the file and the rows or
\* ended there, a copy written back after a purge.
FilesAndRowsAgree ==
  /\ TypeOK
  /\ \A d \in Doc :
      /\ blob[d] # NoFile =>
           /\ Scanner # "none" => blob[d] = "OK"
           /\ d \in Present \union strays \/ \E t \in Thread : req[t].op = "upload" /\ req[t].doc = d
      /\ d \in Present /\ blob[d] = NoFile =>
           \/ d \in halved \union late
           \/ \E t \in Thread : req[t].op \in {"uncache", "erase"} /\ req[t].doc = d

\* What a purge removed does not come back. The file never does; rows, the
\* notification and the cached file only through a request that had read the
\* document, or was fetching its file, before the rows went; a work item never
\* links a document that is gone. The export runs are the exception.
PurgedDataStaysGone ==
  /\ \A d \in purged :
       /\ blob[d] = NoFile
       /\ d \notin late =>
            /\ d \notin Present /\ traces[d] \subseteq {"export run"}
            /\ notice[d] = "none" /\ d \notin cache
  /\ \A i \in Item : links[i] \subseteq Present

\* docs/RUNBOOK.md: a purge "retains only a hashed document fingerprint and
\* deletion counts". The export run that rendered the invoice keeps its rows.
PurgeKeepsOnlyTheTombstone ==
  \A d \in purged \ late : d \notin Present /\ traces[d] = {} /\ notice[d] = "none"
=============================================================================
