---------------------------- MODULE InvoiceViews ----------------------------
(***************************************************************************)
(* The pages that show invoices, as functions of the database.  A snapshot *)
(* db has the document rows with their stored reports (db.doc), the        *)
(* backoffice work items with their links (db.items), and the export       *)
(* batches newest first (db.batches).                                      *)
(*                                                                         *)
(* The same facts are computed several times in the code: in SQL for       *)
(* SQLite, in SQL for PostgreSQL, in Python for the in-memory store, and   *)
(* again by every page that counts invoices and links to another page.     *)
(***************************************************************************)
EXTENDS InvoiceRules, DocumentStatus

CONSTANTS Doc, User, NoReport, NoItem

\* A report is a set of issues of InvoiceRules.  The pages look for words in the
\* code of an issue and in its field.
CodeWords(code) ==
  CASE code = "duplicate_invoice" -> {"duplicate"}
    [] code \in {"invalid_total", "total_mismatch"} -> {"total"}
    [] code = "invalid_date_order" -> {"date"}
    [] code = "unsupported_currency" -> {"currency"}
    [] code = "line_item_amount_mismatch" -> {"line_item", "amount"}
    [] code \in {"missing_critical_field", "missing_field_evidence",
                 "potential_prompt_injection"} -> {}

FieldWords(field) ==
  CASE field = "vendor_name" -> {"vendor"}
    [] field = "invoice_number" -> {"invoice_number"}
    [] field \in {"invoice_date", "due_date"} -> {"date"}
    [] field = "total" -> {"total"}
    [] field = "currency" -> {"currency"}
    [] field = "line_items" -> {"line_item", "amount"}
    [] field = "document" -> {}

Correction == {"none", "requested", "submitted"}

Rows(db) == {d \in Doc : db.doc[d].status # Absent}
Visible(db, owner) == {d \in Rows(db) : owner = "all" \/ db.doc[d].user = owner}

Issues(db, d) == IF db.doc[d].report = NoReport THEN {} ELSE db.doc[d].report
Errors(db, d) == {i \in Issues(db, d) : i.severity = "error"}
HasErrors(db, d) == Errors(db, d) # {}

----------------------------------------------------------------------------
(* The work item a document is shown with, and its workflow stage.          *)

Linked(db, d) == {i \in db.items : d \in i.docs}

\* The link table, ranked by updated_at and then by work_item_id, both
\* descending.
LatestLink(db, d) ==
  IF Linked(db, d) = {} THEN NoItem
  ELSE CHOOSE i \in Linked(db, d) : \A j \in Linked(db, d) :
         \/ j.updated < i.updated
         \/ j.updated = i.updated /\ j.id <= i.id

\* The in-memory loop keeps the first item no later one is newer than.
LatestInMemory(db, d) ==
  IF Linked(db, d) = {} THEN NoItem
  ELSE CHOOSE i \in Linked(db, d) : \A j \in Linked(db, d) :
         \/ j.updated < i.updated
         \/ j.updated = i.updated /\ i.id <= j.id

StageOfStatus(status) ==
  CASE status = "failed" -> <<"failed", "Administrator">>
    [] status \in {"uploaded", "queued", "processing"} -> <<"extracting", "AI Workflow">>
    [] status = "rejected" -> <<"rejected", "Intake Operator">>
    [] status = "cancelled" -> <<"cancelled", "Intake Operator">>

StageWithoutItem(status) ==
  CASE status = "needs_review" -> <<"needs_verification", "Reviewer">>
    [] status = "exported" -> <<"completed", "System">>
    [] OTHER -> <<"ready_to_submit", "Intake Operator">>

StageOfItem(item) ==
  IF item.correction = "requested" THEN <<"correction_requested", "Uploader">>
  ELSE IF item.correction = "submitted" \/ item.pending THEN <<"waiting_approval", "Reviewer">>
  ELSE CASE item.status = "awaiting_human" -> <<"needs_attention", "Reviewer">>
         [] item.status \in {"blocked", "failed"} -> <<"failed", "Administrator">>
         [] item.status = "resolved" -> <<"completed", "System">>
         [] OTHER -> <<"planning", "AI Workflow">>

\* project_workflow_state: the status decides first, then the work item.
Stage(status, item) ==
  IF status \in {"failed", "uploaded", "queued", "processing", "rejected", "cancelled"}
  THEN StageOfStatus(status)
  ELSE IF item = NoItem THEN StageWithoutItem(status) ELSE StageOfItem(item)

----------------------------------------------------------------------------
(* The invoice list.                                                        *)

\* The CASE expression of the SQL, for SQLite and for PostgreSQL.
SqlBusinessStatus(db, d) ==
  LET row == db.doc[d]
      item == LatestLink(db, d)
  IN CASE row.status = "failed" -> "needs_correction"
       [] /\ row.status = "needs_review"
          /\ HasErrors(db, d) \/ (item # NoItem /\ item.correction = "requested")
            -> "needs_correction"
       [] OTHER -> row.status

\* The in-memory list asks the workflow projection instead.
MemoryBusinessStatus(db, d) ==
  LET row == db.doc[d]
      flagged == \/ HasErrors(db, d)
                 \/ Stage(row.status, LatestInMemory(db, d))[1] = "correction_requested"
  IN CASE row.status = "failed" -> "needs_correction"
       [] row.status = "needs_review" /\ flagged -> "needs_correction"
       [] OTHER -> row.status

Completed == {"approved", "exported", "rejected", "cancelled"}

MatchesStatus(businessStatus, filter) ==
  CASE filter = "" -> TRUE
    [] filter = "open" -> businessStatus \notin Completed
    [] filter = "completed" -> businessStatus \in Completed
    [] OTHER -> businessStatus = filter

\* An absent invoice date is NULL in SQL, which no comparison selects.
SqlDateMatches(date, from, to) ==
  /\ from # None => date # None /\ date >= from
  /\ to # None => date # None /\ date <= to

MemoryDateMatches(date, from, to) ==
  \/ from = None /\ to = None
  \/ /\ date # None
     /\ from = None \/ date >= from
     /\ to = None \/ date <= to

SqlList(db, q) ==
  {d \in Visible(db, q.owner) :
     /\ MatchesStatus(SqlBusinessStatus(db, d), q.status)
     /\ SqlDateMatches(db.doc[d].date, q.from, q.to)}

MemoryList(db, q) ==
  {d \in Visible(db, q.owner) :
     /\ MatchesStatus(MemoryBusinessStatus(db, d), q.status)
     /\ MemoryDateMatches(db.doc[d].date, q.from, q.to)}

\* The order by invoice date: NULL is the smallest value of SQLite and the
\* largest of PostgreSQL; the in-memory key puts absent dates first.
SqliteBefore(a, b)   == a # b /\ (a = None \/ (b # None /\ a < b))
PostgresBefore(a, b) == a # b /\ (b = None \/ (a # None /\ a < b))
MemoryBefore(a, b) ==
  LET key(x) == IF x = None THEN <<0, 0>> ELSE <<1, x>>
  IN \/ key(a)[1] < key(b)[1]
     \/ key(a)[1] = key(b)[1] /\ key(a)[2] < key(b)[2]

SummaryOf(db, owner, statusOf(_, _)) ==
  [k \in {"all", "waiting_review", "needs_correction", "approved", "exported"} |->
     Cardinality({d \in Visible(db, owner) :
       CASE k = "all" -> TRUE
         [] k = "waiting_review" -> statusOf(db, d) = "needs_review"
         [] OTHER -> statusOf(db, d) = k})]

SqlSummary(db, owner)    == SummaryOf(db, owner, SqlBusinessStatus)
MemorySummary(db, owner) == SummaryOf(db, owner, MemoryBusinessStatus)

Mentions(issue, words) ==
  (CodeWords(issue.code) \union FieldWords(issue.field)) \intersect words # {}

SqlInsights(db, owner) ==
  [flagged    |-> Cardinality({d \in Visible(db, owner) :
                    db.doc[d].report # NoReport /\ Cardinality(db.doc[d].report) > 0}),
   duplicates |-> Cardinality({d \in Visible(db, owner) :
                    \E i \in Issues(db, d) : "duplicate" \in CodeWords(i.code)}),
   tax        |-> Cardinality({d \in Visible(db, owner) :
                    \E i \in Issues(db, d) : "tax" \in CodeWords(i.code)})]

MemoryInsights(db, owner) ==
  LET some(word) == Quantify(Visible(db, owner), LAMBDA d :
                       \E i \in Issues(db, d) : word \in CodeWords(i.code))
  IN [flagged |-> Quantify(Visible(db, owner), LAMBDA d : Issues(db, d) # {}),
      duplicates |-> some("duplicate"), tax |-> some("tax")]

\* What the list shows of one invoice.
ListItem(db, d) ==
  LET item == LatestLink(db, d)
      status == db.doc[d].status
  IN [owner  |-> Stage(status, item)[2],
      stage  |-> Stage(status, item)[1],
      status |-> SqlBusinessStatus(db, d),
      errors |-> Cardinality(Errors(db, d)),
      reason |-> item # NoItem /\ item.correction = "requested",
      export |-> CASE status = "exported" -> "exported"
                   [] status = "approved" -> "eligible"
                   [] OTHER -> "not_eligible"]

----------------------------------------------------------------------------
(* The review worklist and the exceptions page.                             *)

Queue(db) == {d \in Rows(db) : db.doc[d].status = "needs_review"}

\* One row of the worklist: its tab, its risk, and whether it may be approved.
WorklistRow(db, d) ==
  [tab   |-> IF HasErrors(db, d) THEN "blocked" ELSE "decision",
   risk  |-> IF HasErrors(db, d) THEN "high" ELSE IF Issues(db, d) # {} THEN "medium" ELSE "low",
   owner |-> IF db.doc[d].assigned # "nobody" THEN db.doc[d].assigned
             ELSE Stage(db.doc[d].status, LatestLink(db, d))[2],
   due   |-> db.doc[d].due,
   canApprove |-> ~HasErrors(db, d)]

Worklist(db, scope) ==
  {d \in Queue(db) : scope = "all" \/ WorklistRow(db, d).tab = scope}

ExceptionCategories == {"duplicate", "vendor_invoice", "tax_amount", "dates_details", "other"}

Category(issue) ==
  IF Mentions(issue, {"duplicate"}) THEN "duplicate"
  ELSE IF Mentions(issue, {"vendor", "invoice_number"}) THEN "vendor_invoice"
  ELSE IF Mentions(issue, {"tax", "total", "amount", "currency"}) THEN "tax_amount"
  ELSE IF Mentions(issue, {"date", "line_item"}) THEN "dates_details"
  ELSE "other"

\* An open exception is an issue of a document that waits for review.
OpenExceptions(db) ==
  UNION {{[doc |-> d, issue |-> i, category |-> Category(i),
           risk |-> IF i.severity = "error" THEN "high" ELSE "medium"] :
             i \in Issues(db, d)} : d \in Queue(db)}

ExceptionList(db, scope, category) ==
  {r \in OpenExceptions(db) :
     /\ scope = "blocking" => r.risk = "high"
     /\ scope = "warnings" => r.risk # "high"
     /\ category # "" => r.category = category}

\* The numbers above the exceptions.
ExceptionSummary(db, scope, category) ==
  LET rows == ExceptionList(db, scope, category)
  IN [open       |-> Cardinality(rows),
      high       |-> Cardinality({r \in rows : r.risk = "high"}),
      affected   |-> Cardinality({r.doc : r \in rows}),
      categories |-> [c \in ExceptionCategories |-> Cardinality({r \in rows : r.category = c})]]

----------------------------------------------------------------------------
(* The overview dashboard: cards, alerts and the pipeline, each with a link. *)

Reviewable(db) ==
  {d \in Rows(db) : db.doc[d].status = "needs_review" /\ ~HasErrors(db, d)}

ToCorrect(db) ==
  {d \in Rows(db) : \/ db.doc[d].status = "failed"
                    \/ db.doc[d].status = "needs_review" /\ HasErrors(db, d)}

DueToday(db, today) == {d \in Queue(db) : WorklistRow(db, d).due = today}

\* Mutant: the overview counts the issues of settled documents too.
OverviewIssuesOfAll(db) ==
  UNION {{[doc |-> d, issue |-> i, category |-> Category(i)] : i \in Issues(db, d)} : d \in Rows(db)}

\* The issue rows of the overview, computed a second time.
OverviewIssues(db) ==
  UNION {{[doc |-> d, issue |-> i, category |-> Category(i)] : i \in Issues(db, d)} :
           d \in {e \in Rows(db) : db.doc[e].status = "needs_review"}}

FindingGroup(row) ==
  IF row.issue.code = "missing_critical_field" THEN "missing_fields"
  ELSE CASE row.category = "duplicate" -> "duplicates"
         [] row.category = "tax_amount" -> "amounts"
         [] OTHER -> "other"

Blocked(db) == {r.doc : r \in {x \in OverviewIssues(db) : x.issue.severity = "error"}}

Breakdown(db) ==
  [c \in ExceptionCategories |-> Cardinality({r \in OverviewIssues(db) : r.category = c})]

Findings(db) ==
  [g \in {"missing_fields", "duplicates", "amounts"} |->
     Cardinality({r.doc : r \in {x \in OverviewIssues(db) : FindingGroup(x) = g}})]

PipelineStages ==
  [uploaded |-> {"uploaded", "queued"}, reading |-> {"processing", "extracted"},
   waiting_review |-> {"needs_review"}, approved |-> {"approved"}, exported |-> {"exported"}]

Pipeline(db) ==
  [s \in DOMAIN PipelineStages |->
     Cardinality({d \in Rows(db) : db.doc[d].status \in PipelineStages[s]})]

PipelineExcluded(db) ==
  Cardinality({d \in Rows(db) :
    db.doc[d].status \notin UNION {PipelineStages[s] : s \in DOMAIN PipelineStages}})

Failed(db) == {d \in Rows(db) : db.doc[d].status = "failed"}

\* The title of the briefing counts the queue and the failures.
Attention(db) == Cardinality(Queue(db)) + Cardinality(Failed(db))

\* An alert is raised for a positive count; at most four are shown.
Alerts(db, today, admin, exportBlocked) ==
  {a \in {[id |-> "validation_blockers", count |-> Cardinality(Blocked(db))],
          [id |-> "due_today", count |-> Cardinality(DueToday(db, today))],
          [id |-> "processing_failed", count |-> Cardinality(Failed(db))],
          [id |-> "export_blocked", count |-> IF admin THEN exportBlocked ELSE 0]} :
     a.count > 0}

----------------------------------------------------------------------------
(* The export workspace.                                                    *)

ActiveBatch == {"ready", "running", "failed"}

Member(db, d, statuses) ==
  \E k \in DOMAIN db.batches : db.batches[k].status \in statuses /\ d \in db.batches[k].docs

\* A document that was never extracted has a blocker of its own.
ExportBlocked(db, d) == db.doc[d].report = NoReport \/ HasErrors(db, d)

\* Mutant: a document of a running batch is offered again.
ExportViewIgnoringRunning(db, d) ==
  IF db.doc[d].status = "exported" THEN "exported"
  ELSE IF Member(db, d, ActiveBatch \ {"running"}) THEN "in_batch"
  ELSE IF Member(db, d, {"draft"}) THEN "drafts"
  ELSE IF db.doc[d].status = "approved" /\ ~ExportBlocked(db, d) THEN "ready"
  ELSE "blocked"

ExportView(db, d) ==
  IF db.doc[d].status = "exported" THEN "exported"
  ELSE IF Member(db, d, ActiveBatch) THEN "in_batch"
  ELSE IF Member(db, d, {"draft"}) THEN "drafts"
  ELSE IF db.doc[d].status = "approved" /\ ~ExportBlocked(db, d) THEN "ready"
  ELSE "blocked"

ExportViews == {"ready", "in_batch", "exported", "blocked", "drafts"}

\* An unknown view shows the ready invoices.
ExportList(db, view) ==
  {d \in Rows(db) : ExportView(db, d) = IF view \in ExportViews THEN view ELSE "ready"}

\* The count above each tab; exported counts today's exports only.
ExportSummary(db, today) ==
  [v \in ExportViews \ {"drafts"} |->
     Cardinality({d \in Rows(db) : /\ ExportView(db, d) = v
                                   /\ v = "exported" => db.doc[d].day = today})]

\* The checks a batch of the documents docs must pass to be executed.
DocumentChecks(db, docs) ==
  [all_approved   |-> docs # {} /\ \A d \in docs : db.doc[d].status = "approved",
   no_blockers    |-> docs # {} /\ \A d \in docs : ~ExportBlocked(db, d),
   not_exported   |-> docs # {} /\ \A d \in docs : db.doc[d].status # "exported",
   no_other_batch |-> docs # {} /\ \A d \in docs : ~Member(db, d, ActiveBatch)]

----------------------------------------------------------------------------
(* What the pages promise each other.                                       *)

CONSTANT Dates
Filters == {"", "open", "completed", "needs_correction"} \union Status

\* A list is the intersection of what the status and the dates select.
Queries(owner) ==
  [owner : {owner}, status : Filters, from : {None}, to : {None}]
  \union [owner : {owner}, status : {""}, from : Dates \union {None}, to : Dates \union {None}]

\* The SQLite, PostgreSQL and in-memory stores answer the same question with
\* the same invoices: the list under every status and date filter, the order
\* by date (but for where PostgreSQL puts the undated), the counters above it
\* and the insights.  Open and completed invoices divide what an owner sees.
\* About invoices/queries.py, postgres/queries.py and the in-memory branch of
\* api/invoices.py.
StoresAnswerAlike(db) ==
  /\ \A owner \in User \union {"all"} :
       /\ \A q \in Queries(owner) : SqlList(db, q) = MemoryList(db, q)
       /\ SqlSummary(db, owner) = MemorySummary(db, owner)
       /\ SqlInsights(db, owner) = MemoryInsights(db, owner)
       /\ LET listed(f) == SqlList(db, [owner |-> owner, status |-> f,
                                        from |-> None, to |-> None])
          IN /\ listed("open") \intersect listed("completed") = {}
             /\ listed("open") \union listed("completed") = listed("")
  /\ \A a, b \in {db.doc[d].date : d \in Rows(db)} :
       /\ SqliteBefore(a, b) <=> MemoryBefore(a, b)
       /\ None \notin {a, b} => (SqliteBefore(a, b) <=> PostgresBefore(a, b))

\* A number on one page is the length of the list it links to on another: the
\* approved card, the counters of the list, the exceptions by category and by
\* document, the alerts, the export tabs, the pipeline.  The two cards of the review queue
\* agree only while no uploader has been asked for a correction, which the
\* overview does not look at.  About overview/dashboard.py, api/exceptions.py,
\* api/review.py, api/invoices.py and exports/workspace.py.
CountsMatchTheirPages(db) ==
  LET all(f) == SqlList(db, [owner |-> "all", status |-> f, from |-> None, to |-> None])
      asked == {d \in Queue(db) : LatestLink(db, d) # NoItem /\ LatestLink(db, d).correction = "requested"}
  IN /\ Pipeline(db).approved = Cardinality(all("approved"))
     /\ Pipeline(db).exported = SqlSummary(db, "all").exported
     /\ Reviewable(db) \ asked = all("needs_review")
     /\ ToCorrect(db) \union asked = all("needs_correction")
     /\ \A c \in ExceptionCategories :
          /\ Breakdown(db)[c] = Cardinality(ExceptionList(db, "all", c))
          /\ Breakdown(db)[c] = ExceptionSummary(db, "all", "").categories[c]
     /\ Blocked(db) = {r.doc : r \in ExceptionList(db, "blocking", "")}
     /\ Blocked(db) = Worklist(db, "blocked")
     /\ ExceptionSummary(db, "blocking", "").affected = Cardinality(Worklist(db, "blocked"))
     /\ ExceptionSummary(db, "all", "").high = ExceptionSummary(db, "blocking", "").open
     /\ \A d \in Rows(db) : ListItem(db, d).errors > 0 /\ d \in Queue(db) <=> d \in Blocked(db)
     /\ Cardinality(Rows(db)) = PipelineExcluded(db) + SumFunction(Pipeline(db))
     /\ \A v \in {"ready", "in_batch", "blocked"} :
          ExportSummary(db, 1)[v] = Cardinality(ExportList(db, v))
     /\ Attention(db) = Cardinality(Worklist(db, "all")) + Cardinality(Failed(db))
     /\ Findings(db)["duplicates"] =
          Cardinality({r.doc : r \in ExceptionList(db, "all", "duplicate")})
     /\ \A a \in Alerts(db, 1, TRUE, ExportSummary(db, 1)["blocked"]) :
          CASE a.id = "validation_blockers" -> a.count = Cardinality(Worklist(db, "blocked"))
            [] a.id = "processing_failed"   -> a.count <= Cardinality(all("needs_correction"))
            [] a.id = "export_blocked"      -> a.count = Cardinality(ExportList(db, "blocked"))
            [] a.id = "due_today"           -> a.count <= Cardinality(Worklist(db, "all"))

\* The export page offers an invoice as ready exactly when a batch of it alone,
\* made now, would pass every check of eligibility.py, unless a draft already
\* holds it; and the list calls "eligible" nothing the page refuses for want
\* of an approval.
ReadyInvoicesPassTheBatchChecks(db) ==
  \A d \in Rows(db) :
    LET checks == DocumentChecks(db, {d})
        passes == \A c \in DOMAIN checks : checks[c]
    IN /\ ExportView(db, d) = "ready" => passes /\ ListItem(db, d).export = "eligible"
       /\ passes => ExportView(db, d) \in {"ready", "drafts"}
=============================================================================
