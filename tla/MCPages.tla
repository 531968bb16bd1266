------------------------------ MODULE MCPages ------------------------------
(* An instance for TLC of the modules without a state of their own, of the      *)
(* evaluation runs and of the gateway.  The variable about says which of them a *)
(* behaviour looks at, and input is what its operators are applied to; the steps *)
(* complete the input part by part.                                            *)
EXTENDS InvoiceViews, Telemetry, AgentOps, Evidence

CONSTANTS d1, d2, alice, bob, acme, street, Thread, NoThread, Documents, MaxAttempts, MaxFaults,
          Client, Cookie, MaxClock,
          GateEnv, GateRequests, GateWindow, GateTtl

ASSUME EvaluationAssumption == NoThread \notin Thread /\ Documents \in Nat

\* The limits and the time to live are numbers, whatever their sign.
ASSUME GateAssumption ==
  /\ GateRequests \in Int /\ GateWindow \in Int /\ GateTtl \in Int
  /\ "no cookie" \notin Cookie

\* The documents of the instance are documents, and no document is none.
ASSUME DocumentAssumption == {d1, d2} \subseteq Doc /\ NoDocument \notin Doc

VARIABLES about, input

\* The evaluation runs and the gateway have a state of their own.
VARIABLES lock, ongoing, attempts, history, faults
Evaluations == INSTANCE Evaluation WITH run <- ongoing
evaluation == <<lock, ongoing, attempts, history, faults>>

(* Settings: one source names the credentials, the other the backends.         *)
Start == INSTANCE Startup

Strong(n) == Start!Token(<<"first", "second", "third", "fourth">>[n], TRUE)
Short(n)  == [Strong(n) EXCEPT !.strong = FALSE]

Credentials(env, admin, uploader, reviewer, metrics) ==
  [APP_ENV |-> env, APP_ADMIN_TOKEN |-> admin, APP_UPLOADER_TOKEN |-> uploader,
   APP_REVIEWER_TOKEN |-> reviewer, APP_METRICS_TOKEN |-> metrics]

NameCredentials ==
  /\ about = "startup" /\ input = << >>
  /\ \E env \in {Unset, "production", "portfolio"}, admin \in {Unset, Strong(1), Short(1)},
     uploader \in {Unset, Strong(2), Strong(1)},
     others \in {<<Unset, Unset>>, <<Strong(3), Strong(4)>>, <<Strong(2), Strong(4)>>, <<Strong(3), Strong(3)>>} :
       input' = [process |-> Credentials(env, admin, uploader, others[1], others[2])]

Stored == [STORAGE_BACKEND |-> "sqlite"]
Scanned == [MALWARE_SCANNER_BACKEND |-> "clamav"]
Backends ==
  {rows @@ reads @@ scans : rows \in {[APP_ENV |-> "local"], Stored, [STORAGE_BACKEND |-> "postgres"],
                                     [STORAGE_BACKEND |-> "postgres", DATABASE_URL |-> "url"]},
     reads \in {<< >>, [PARSER_PROVIDER |-> "mistral_ocr", MISTRAL_API_KEY |-> "key"],
               [EXTRACTOR_PROVIDER |-> "llm_json"]},
     scans \in {<< >>, Scanned, [MALWARE_SCANNER_BACKEND |-> "other"]}}
  \union {Stored @@ Scanned @@ more : more \in
            {[DOCUMENT_STORAGE_BACKEND |-> "s3"], [DOCUMENT_STORAGE_BACKEND |-> "azure"],
             [DOCUMENT_STORAGE_BACKEND |-> "azure", AZURE_STORAGE_ACCOUNT_URL |-> "url"],
             [PROCESSING_QUEUE_BACKEND |-> "azure"], [DOCUMENT_RETENTION_DAYS |-> 0],
             [PROCESSING_QUEUE_BACKEND |-> "azure", AZURE_SERVICE_BUS_NAMESPACE |-> "bus"],
             [MALWARE_SCANNING_ENABLED |-> FALSE]}}
  \union {Stored @@ Scanned @@ [ACCOUNTING_PROVIDER |-> "erpnext", ERPNEXT_API_KEY |-> key,
             ERPNEXT_API_SECRET |-> "secret", ERPNEXT_BASE_URL |-> Start!Url(scheme, listed, loopback, TRUE)] :
            key \in {Unset, "key"}, scheme \in {"http", "https"}, listed, loopback \in BOOLEAN}

ChooseBackends ==
  /\ about = "startup" /\ input # << >> /\ DOMAIN input = {"process"}
  /\ \E backends \in Backends, tokens \in {<< >>, [APP_METRICS_TOKEN |-> Strong(4), APP_ADMIN_TOKEN |-> Strong(4)]} :
       input' = [process |-> input.process, file |-> backends @@ tokens]

VARIABLES clock, hits, sessions, served, issued, reply
Demo ==
  Start!Load(Credentials(GateEnv, Strong(1), Strong(2), Strong(3), Strong(4)),
             [STORAGE_BACKEND |-> "sqlite", RATE_LIMIT_REQUESTS |-> GateRequests,
              RATE_LIMIT_WINDOW_SECONDS |-> GateWindow, SESSION_TTL_SECONDS |-> GateTtl])
Gates == INSTANCE Gateway WITH Settings <- Demo
gates == <<clock, hits, sessions, served, issued, reply>>

(* A snapshot of the database, whose rows are written one after the other.     *)
NoInvoice ==
  [vendor_name |-> None, invoice_number |-> None, invoice_date |-> None, due_date |-> None,
   subtotal |-> None, tax |-> None, total |-> None, currency |-> None, line_items |-> << >>]

Clean == [NoInvoice EXCEPT !.vendor_name = acme, !.invoice_number = "INV-1", !.invoice_date = 1,
                           !.total = 1000, !.currency = "USD"]
Late  == [Clean EXCEPT !.vendor_name = None, !.invoice_date = 2, !.due_date = 1]
Alien == [Clean EXCEPT !.currency = "INR", !.line_items =
            <<[description |-> "work", quantity |-> 2 * Whole, unit_price |-> 100, amount |-> 300]>>]

Row(status, user, report, date) ==
  [status |-> status, user |-> user, report |-> report, date |-> date,
   assigned |-> "nobody", due |-> 1, day |-> 1]

Read(status, user, invoice, others) ==
  Row(status, user, ValidateDocumentInvoice(invoice, others), invoice.invoice_date)

NoRow == Row(Absent, alice, NoReport, None)

\* A document without a report has not been extracted yet.
Unread == {"uploaded", "queued", "processing", "failed", "cancelled"}
FirstRows ==
  {Read(s, alice, i, {}) : s \in Status, i \in {Clean, Late, Alien}}
  \union {Read(s, alice, [Clean EXCEPT !.invoice_date = None], {}) : s \in {"needs_review", "approved"}}
  \union {Read(s, alice, Clean, {Clean}) : s \in Status}
  \union {Row(s, alice, NoReport, None) : s \in Unread}

OtherRows ==
  {Read(s, bob, Clean, o) : s \in {"needs_review", "approved"}, o \in {{}, {Clean}}}
  \union {Row("queued", bob, NoReport, None), Read("exported", alice, Clean, {})}

Item(id, docs, updated, correction, status, pending) ==
  [id |-> id, docs |-> docs, updated |-> updated, correction |-> correction,
   status |-> status, pending |-> pending]

\* Two items on one document, the older or the newer with a requested correction.
SomeItems ==
  {{Item(1, {d1}, 1, c, s[1], s[2])} : c \in Correction,
     s \in {<<"new", FALSE>>, <<"awaiting_human", FALSE>>, <<"awaiting_human", TRUE>>, <<"resolved", TRUE>>}}
  \union {{Item(1, {d1, d2}, u, "requested", "new", FALSE), Item(2, {d1}, 3 - u, c, "failed", FALSE)} :
            u \in {1, 2}, c \in {"none", "submitted"}}

SomeBatches ==
  {<<[status |-> s, docs |-> {d1}], [status |-> t, docs |-> {d1, d2}]>> :
     s \in {"draft", "ready"}, t \in {"completed", "running"}}

NoSnapshot == [doc |-> [d \in Doc |-> NoRow], items |-> {}, batches |-> << >>]

WriteFirst ==
  /\ about = "snapshot" /\ input.doc[d1] = NoRow
  /\ \E row \in FirstRows : input' = [input EXCEPT !.doc[d1] = row]
WriteOther ==
  /\ about = "snapshot" /\ input.doc[d2] = NoRow
  /\ \E row \in OtherRows : input' = [input EXCEPT !.doc[d2] = row]
WriteItems ==
  /\ about = "snapshot" /\ input.doc[d1] # NoRow /\ input.items = {}
  /\ \E items \in SomeItems : input' = [input EXCEPT !.items = items]
WriteBatches ==
  /\ about = "snapshot" /\ input.doc[d1] # NoRow /\ input.batches = << >>
  /\ \E batches \in SomeBatches : input' = [input EXCEPT !.batches = batches]

(* An invoice, for the validator and the accounting mapping.                   *)
Work(quantity, price, amount) ==
  [description |-> "work", quantity |-> quantity, unit_price |-> price, amount |-> amount]

\* Amounts in cents and in parts of one, and a tax near a rate with a template.
Subtotals == {None, 0, 1000, 1004, 1010, 500000}
Taxes == {None, 0, 100, 104, 110, 200, 0 - 10, 50000, 50020, 50200}
Totals == {None, 0, 1000, 1010, 1095, 1100, 1110, 1120, 1200, 550000, 550020, 550200}

EnterAmounts ==
  /\ about = "invoice" /\ input = Clean
  /\ \E sub \in Subtotals, tax \in Taxes, total \in Totals :
       input' = [input EXCEPT !.subtotal = sub, !.tax = tax, !.total = total, !.due_date = 1]

\* Quantities are in tenths: of one, one and a half, two or three.
WorkItemLists ==
  {<< >>, <<Work(20, 500, 1000)>>, <<Work(10, 1000, 1000), Work(None, 10, 0)>>,
   <<Work(30, 333, 1000)>>, <<Work(10, 505, 510), Work(10, 500, 500)>>, <<Work(15, 670, 1010)>>,
   <<Work(30, 66667, 200000), Work(30, 66667, 200000), Work(10, 100000, 100000)>>}

EnterDetails ==
  /\ about = "invoice" /\ input # Clean /\ input.invoice_date = 1
  /\ \E currency \in {None, "USD", "EUR", "INR"}, due \in {None, 1, 2}, date \in {None, 2},
     items \in WorkItemLists :
       input' = [input EXCEPT !.currency = currency, !.due_date = due,
                              !.invoice_date = date, !.line_items = items]

(* The text of a PDF, and what a language model answers about it.              *)
Line(label, numbers, currency, name, names, says) ==
  [label |-> label, numbers |-> numbers, currency |-> currency, name |-> name, names |-> names,
   says |-> says, days |-> {}, part_days |-> {}]
Plain(name, says) == Line(None, << >>, None, name, {name} \ {None}, says)
Number(digits, length, marks) == [digits |-> digits, length |-> length, marks |-> marks]

\* 15, 15.00, 1,50 and 1,5; and 1.234.5, which is no amount but has parts that are.
TotalNumbers ==
  {Number(15, 2, << >>), Number(1500, 4, 2 :> "."), Number(150, 3, 2 :> ","), Number(15, 2, 1 :> ","),
   Number(12345, 5, (1 :> ".") @@ (4 :> "."))}

SellerLines == {Plain(acme, {"seller"}), Plain(acme, {"buyer"}), Plain(acme, {"seller", "instruction"})}
InvoiceLine == Line(None, <<Number(10, 2, << >>)>>, None, None, {"INV-10", "INV-1"}, {"invoice"})
DateLine == [Line(None, << >>, None, None, {}, {}) EXCEPT !.days = {2}, !.part_days = {1}]
TotalLines == {Line(l, <<n>>, None, None, {}, {}) : l \in {"total", "subtotal"}, n \in TotalNumbers}
LastLines ==
  {Line("tax", <<Number(1, 1, << >>)>>, None, None, {}, {}),
   Line("amount_due", <<Number(10, 2, << >>), Number(25, 2, 1 :> ".")>>, "EUR", None, {"EUR"}, {}),
   Line("currency", << >>, "USD", None, {"USD"}, {}),
   Line("currency", << >>, "USD", None, {}, {}),
   Plain(street, {"address"}), Plain(None, {})}

PrintPages ==
  /\ about = "text" /\ input = << >>
  /\ \E x \in SellerLines, y \in TotalLines, z \in LastLines :
       input' = [text |-> <<<<x, InvoiceLine, DateLine, y>>, <<z>>>>]

Quote(field, page, line, shows) == [field |-> field, page |-> page, line |-> line, shows |-> shows]
Says(vendor, named, currency, dated, summed) ==
  [data |-> [NoInvoice EXCEPT !.vendor_name = vendor, !.invoice_number = named, !.invoice_date = dated[1],
                              !.tax = 20, !.total = summed[1], !.currency = currency],
   evidence |-> {Quote("vendor_name", 1, 1, {acme}), Quote("invoice_number", 1, 2, {"INV-10", "INV-1"}),
                 Quote("invoice_date", 1, dated[2], {dated[1]}), Quote("total", summed[2], 4, summed[3])}]

\* Totals in full, cut out of a number, quoted from elsewhere, and without a page.
Five == Number(5, 1, << >>)
Answers ==
  {Says(vendor, named[1], named[2], dated, summed) :
     vendor \in {None, acme, street}, named \in {<<None, None>>, <<"INV-1", None>>, <<"INV-2", "USD">>},
     dated \in {<<1, 3>>, <<2, 3>>, <<Garbled, 3>>, <<1, 9>>},
     summed \in {<<None, 1, {}>>, <<15000, None, {}>>, <<15000, 2, {Number(15, 2, << >>)}>>,
                 <<15000, 1, {Number(1500, 4, 2 :> "."), Five}>>, <<5000, 1, {Five}>>,
                 <<1200, 1, {Number(12, 2, 1 :> ".")}>>, <<Garbled, 1, {}>>}}

Answer ==
  /\ about = "text" /\ input # << >> /\ DOMAIN input = {"text"}
  /\ \E answer \in Answers : input' = [text |-> input.text, answer |-> answer]

(* The job ledger of a workspace at minute Now.  Only a success names its      *)
(* provider, and only a failure has an error.                                  *)
Now == 8

Job(status, provider, error, started, finished, updated) ==
  [id |-> 0, status |-> status, provider |-> provider, error |-> error,
   started |-> started, finished |-> finished, updated |-> updated]

SomeJobs ==
  {Job(s, Unset, Unset, Unset, Unset, 1) : s \in {"queued", "retrying", "cancelled"}}
  \union {Job("running", Unset, Unset, t, Unset, t) : t \in {2, 3}}
  \union {Job("succeeded", p, Unset, t, 2, 2) : p \in {"mock", "llm_json"}, t \in {1, 3}}
  \union {Job(s, Unset, e, 1, t, t) : s \in {"failed", "dead_letter"},
                                     e \in {"mistral_ocr", "other"}, t \in {1, 3}}

SomeRuns ==
  {{}, {[status |-> "failed", updated |-> 1]},
   {[status |-> "failed", updated |-> 1], [status |-> "succeeded", updated |-> 2]}}

RecordRuns == /\ about = "jobs" /\ input.jobs = {}
              /\ \E runs \in SomeRuns \ {input.runs} : input' = [input EXCEPT !.runs = runs]

RecordJob ==
  /\ about = "jobs" /\ Cardinality(input.jobs) < 3
  /\ \E job \in SomeJobs :
       input' = [input EXCEPT !.jobs = @ \union
                   {[job EXCEPT !.id = Cardinality(input.jobs) + 1]}]

Service(runtime, configured) == [runtime |-> runtime, configured |-> configured]

(* Documents at rest, a caller who talks to the copilot, and a work item.      *)
File(status, home, user, extraction) ==
  [status |-> status, home |-> home, user |-> user, extraction |-> extraction]
NoFile == File(Absent, "here", alice, "none")

RestingFiles ==
  {File(s, h, u, "none") : s \in {"queued", "processing", "failed", "cancelled"},
                           h \in {"here", "elsewhere"}, u \in {alice, bob}}
  \union {File(s, h, alice, e) : s \in {"queued", "needs_review"}, h \in {"here", "elsewhere"},
                                 e \in {"clean", "errors"}}
  \union {File(s, "here", alice, "clean") : s \in {"approved", "rejected", "exported"}}

StoreFiles ==
  /\ about = "copilot" /\ input = << >>
  /\ \E f \in RestingFiles, g \in {NoFile, File("approved", "here", bob, "clean"),
                                File("needs_review", "elsewhere", bob, "errors")}, ready \in BOOLEAN :
    /\ f.status \in {"approved", "exported"} \/ ready
    /\ input' = [doc |-> [d \in Doc |-> IF d = d1 THEN f ELSE g], ready |-> ready]

\* The three principals, an operator, and a caller whose admin role is only claimed.
SignIn ==
  /\ about = "copilot" /\ DOMAIN input = {"doc", "ready"}
  /\ \E caller \in {Principal(alice, r) : r \in {"admin", "uploader", "reviewer", "operator"}}
                \union {[Principal(alice, "admin") EXCEPT !.is_admin = FALSE]} :
       input' = [doc |-> input.doc, ready |-> input.ready, caller |-> caller]

Requests ==
  [topics : {{}, {"review", "documents"}, {"readiness", "mutation"}, {"metrics", "documents"}, {"documents"}},
   document : {NoDocument, d1, d2}, execute : AgentTools \union {NoTool}, confirmed : BOOLEAN]

\* Recorded runs of the copilot, of its tools and of the planner.
Run(expected, selected, failure, escalated, confidence, blocked, traces, version) ==
  [intent |-> selected, expected |-> expected, selected |-> selected, failure |-> failure,
   escalated |-> escalated, confidence |-> confidence, blocked |-> blocked, traces |-> traces, version |-> version]
SomeAgentRuns ==
  {Run(end[1], "get_document_detail", end[2], end[2] # NoFailure, risk[2], risk[1],
       <<[risk |-> "read_only", failure |-> end[2], escalated |-> end[2] # NoFailure]>>, "deterministic-v1") :
     end \in {<<NoTool, NoFailure>>, <<NoTool, "insufficient_evidence">>, <<"list_documents", NoFailure>>,
              <<"get_document_detail", NoFailure>>, <<"get_document_detail", "insufficient_evidence">>},
     risk \in {<<0, "high">>, <<1, "low">>}}
  \union {Run(NoTool, "list_documents", "permission_denied", TRUE, "medium", 0,
              <<[risk |-> "read_only", failure |-> "insufficient_evidence", escalated |-> TRUE]>>, "deterministic-v1"),
          Run(NoTool, NoTool, NoFailure, TRUE, "low", 1, << >>, "deterministic-backoffice-v1")}

RecordAgentRun ==
  /\ about = "runs" /\ Len(input) < 3
  /\ \E run \in SomeAgentRuns : input' = <<run>> \o input

WorkItems ==
  [home : {"here", "elsewhere"}, docs : {<< >>, <<d1>>, <<d2>>}, topics : {{}, {"invoice"}},
   type : {NoType, "invoice_export", "accounting_note", "exception_handling"}]

(* Documents of the evaluation dataset, and what the providers read of them.    *)
Named(vendor, number, total, due) ==
  [Clean EXCEPT !.vendor_name = vendor, !.invoice_number = Written(number, "plain"),
                !.total = total, !.due_date = due]
Case(invoice, group) ==
  [invoice |-> invoice, group |-> group, codes |-> {issue.code : issue \in ValidateInvoice(invoice)}]
Acme == Written(acme, "plain")

\* No text, and no name written in one, is none.
SomeTexts == {acme, street, "INV-1", "INV-2"}
ASSUME TextAssumption == None \notin SomeTexts /\ None \notin [text : SomeTexts, form : Form]

SomeCases ==
  {<<Case(Named(Acme, "INV-1", 1000, None), "pair"), Case(Named(Acme, "INV-1", 1000, 2), "pair")>>,
   <<Case(Named(Acme, "INV-1", 1000, None), None), Case(Named(None, "INV-1", 1000, None), None)>>,
   <<Case([Named(Acme, "INV-1", 1000, 2) EXCEPT !.subtotal = 1000, !.tax = 100], None),
     Case(Named(Acme, "INV-2", 0 - 10, None), "pair")>>}

Page == [failed |-> FALSE, text |-> {"Acme", "INV-1"}, pages |-> <<{"Acme"}, {"INV-1"}>>, usage |-> 2]
Parsed == {Page, [Page EXCEPT !.pages = << >>], [Page EXCEPT !.text = {}], [Page EXCEPT !.failed = TRUE]}
Confidence(page) == {[field |-> "vendor_name", page |-> 1, excerpt |-> "Acme"],
                     [field |-> "invoice_number", page |-> page, excerpt |-> "INV-1"],
                     [field |-> "total", page |-> 1, excerpt |-> None]}
Reads(vendors, forms, totals, dues) ==
  {[failed |-> FALSE, confidence |-> Confidence(p), usage |-> [input |-> 3, cached |-> k, output |-> 1],
    invoice |-> [Named(v, "INV-1", t, d) EXCEPT !.invoice_number.form = f]] :
     v \in vendors, f \in forms, t \in totals, d \in dues, p \in {1, 2}, k \in {0, 2}}
Answered1 == Reads({None, Acme, [Acme EXCEPT !.form = "upper"], [Acme EXCEPT !.form = "dashed"]},
                   {"plain", "padded", "dashed"}, {None, 1000, 1005}, {None, 2})
Answered2 == {[a EXCEPT !.failed = fails] : fails \in BOOLEAN,
                a \in Reads({Acme, Written(street, "plain")}, {"plain"}, {1000}, {2})}

ChooseCases == /\ about = "scores" /\ input = << >>
               /\ \E cases \in SomeCases : input' = [cases |-> cases, seen |-> << >>]
ReadCase ==
  /\ about = "scores" /\ input # << >> /\ Len(input.seen) < Len(input.cases)
  /\ \E parsed \in Parsed, answer \in (IF input.seen = << >> THEN Answered1 ELSE Answered2) :
    /\ parsed # Page => answer.usage.cached = 0
    /\ input' = [input EXCEPT !.seen = Append(@, RunDocument(parsed, answer))]

(* Recorded evaluation runs: public ones, and those of two workspaces.          *)
Report(id, workspace, version, fingerprint, observed, scores, byField) ==
  [id |-> id, workspace |-> workspace, dataset |-> "invoices", version |-> version, split |-> "diagnostic",
   fingerprint |-> fingerprint, observed |-> observed, scores |-> scores, by_field |-> byField,
   documents |-> 20, failures |-> observed]
Judged(field) == [field |-> field, validation |-> 9500]
Fields(vendor, total) == [vendor_name |-> vendor, total |-> total]
SomeReports ==
  {Report(n, None, v, None, o, Judged(9600), Fields(9500, n * 500 + 8500)) :
     n \in {1, 2, 3}, v \in {"1", "2"}, o \in {1, 2}}
  \union {Report(n, "here", "1", None, o, Judged(9600), Fields(9500, n * 500 + 8500)) :
            n \in {1, 2}, o \in {1, 2}}
  \union {Report(1, "elsewhere", "1", None, 2, Judged(9600), Fields(9500, 9000))}
  \union {Report(n, "here", "1", "f", n, [field |-> 9400], << >>) : n \in {1, 2}}
  \union {Report(3, None, "1", "f", o, Judged(9400), [vendor_name |-> 10000]) : o \in {1, 3}}

RecordReport ==
  /\ about = "evidence" /\ Len(input.public) + Len(input.history) < 3
  /\ \E report \in SomeReports, place \in {"public", "history"} :
    /\ place = "public" => report.workspace = None
    /\ input' = [input EXCEPT ![place] = Append(@, report)]

----------------------------------------------------------------------------
About ==
  \/ about = "snapshot" /\ input = NoSnapshot
  \/ about = "invoice" /\ input = Clean
  \/ about = "text" /\ input = << >>
  \/ about \in {"copilot", "runs", "scores", "evaluation", "startup", "gateway"} /\ input = << >>
  \/ about = "jobs" /\ input = [jobs |-> {}, runs |-> {}]
  \/ about = "evidence" /\ input = [public |-> << >>, history |-> << >>]

Init == About /\ Evaluations!Init /\ Gates!Init

Look ==
  /\ \/ WriteFirst \/ WriteOther \/ WriteItems \/ WriteBatches
     \/ EnterAmounts \/ EnterDetails
     \/ PrintPages \/ Answer
     \/ RecordRuns \/ RecordJob
     \/ StoreFiles \/ SignIn \/ RecordAgentRun
     \/ ChooseCases \/ ReadCase
     \/ RecordReport
     \/ NameCredentials \/ ChooseBackends
  /\ UNCHANGED <<about, evaluation, gates>>

Evaluate == about = "evaluation" /\ Evaluations!Next /\ UNCHANGED <<about, input, gates>>

Enter == about = "gateway" /\ Gates!Next /\ UNCHANGED <<about, input, evaluation>>

Next == Look \/ Evaluate \/ Enter

Spec == Init /\ [][Next]_<<about, input, evaluation, gates>>

Answered == about = "text" /\ DOMAIN input = {"text", "answer"}

\* What a page offers for export, the batch accepts.
ReadyMeansReady == about = "snapshot" => ReadyInvoicesPassTheBatchChecks(input)

\* What the accounting mapping accepts is valid, and its draft posts what was approved.
SoundDeliveries == about = "invoice" => DeliverableInvoicesAreSound(input)

\* A reading without issues is printed in the PDF.
PrintedReadings ==
  Answered => /\ CleanReadingsArePrinted(input.answer, input.text, {})
              /\ PrintedAmountsAreEvident(input.answer, input.text)

\* The stores answer a query alike, and what several pages show of one thing
\* is the same on all of them.
PagesAgree ==
  /\ about = "snapshot" => StoresAnswerAlike(input) /\ CountsMatchTheirPages(input)
  /\ about = "jobs" =>
       /\ DashboardsAgree(input, Now)
       /\ \A ready \in {{"storage", "database", "queue"}, {"storage", "database"}, {"database"}},
             configured \in {"mock", "real"}, accounting \in {"csv_download", "erpnext", "none"} :
            OperationalIsEarned(input, ready,
              [reader |-> Service("mistral_ocr", configured), extractor |-> Service("llm_json", configured)],
              accounting)
  /\ about = "runs" =>
       /\ SummaryAddsUp(input)
       /\ \A previous, current \in 0..3 : RegressionTurnsRound(input, previous, current)

\* What starts, starts as its settings promise; a request is let in as the caller
\* it comes from; the copilot, the policy, the planner and the services behind
\* their tools agree on who may do what, and to which documents.
GatesAgree ==
  /\ about = "startup" /\ "file" \in DOMAIN input =>
       /\ Start!SettingsAreLayered(input.process, input.file)
       /\ Start!StartedAppsAreSound(Start!Load(input.process, input.file))
  /\ about = "gateway" => Gates!CallersAreKnown
  /\ about = "copilot" /\ "caller" \in DOMAIN input =>
        LET caller == input.caller IN
        /\ \A request \in Requests :
             /\ WordsMoveNothing(request, caller, input)
             /\ WorkspaceIsKept(request, caller, input)
             /\ TableMatchesServices(request, caller, input)
             /\ caller.role # "operator" => AdviceCanBeFollowed(request, caller, input)
             /\ RunsTellWhatHappened(request, caller, input)
        /\ ScenariosAreMet(d1, caller, input)
        /\ \A item \in WorkItems, topics \in {{}, {"missing"}, {"export"}, {"note"}} :
             \/ item.docs # << >> /\ input.doc[item.docs[1]].home # item.home
             \/ LET inputs == PlanningInput(item, topics, input)
                IN /\ PolicyMatchesTools(item, caller)
                   /\ PlansAskFirst(item, inputs, caller, input)
                   /\ NoEvidenceNoAction(item, inputs, caller)
                   /\ PlanContainsItsSteps(item, inputs, caller)
                   /\ PlanRunsTell(item, inputs, caller)

\* The attempts, reports and comparisons of the evaluations tell what happened.
EvaluationsAddUp ==
  /\ about = "evaluation" => Evaluations!AttemptsTellWhatHappened
  /\ (about = "scores" /\ input # << >> /\ Len(input.seen) = Len(input.cases)) =>
       ReportsAddUp(input.cases, input.seen) /\ CallsAddUp(input.seen)
  /\ about = "evidence" =>
       /\ \A asked \in {0, 1}, limit \in {1, 20} :
            ComparisonsAddUp(input.public, input.history, "here", asked, limit)
       /\ input.public = << >> => ScoresTellCounts(Len(input.history) + 18)
=============================================================================
