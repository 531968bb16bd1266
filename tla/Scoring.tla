------------------------------- MODULE Scoring -------------------------------
(***************************************************************************)
(* How one evaluated document is read and how a set of them is scored      *)
(* against its expected records (evaluation/invoice.py,                    *)
(* external_holdout.py, provider_costs.py, and _run_document of            *)
(* evaluation/dashboard.py).                                               *)
(*                                                                         *)
(* A case is an expected record: its invoice, the validation codes it      *)
(* should get and its duplicate group.  A name or number is a text and the *)
(* form it is written in; the other values are those of InvoiceRules.      *)
(***************************************************************************)
EXTENDS Reading, FiniteSetsExt, Functions

EvaluatedFields == {"vendor_name", "invoice_number", "invoice_date", "due_date",
                    "subtotal", "tax", "total", "currency"}
MoneyFields == {"subtotal", "tax", "total"}

Form == {"plain", "upper", "padded", "dashed"}
Written(text, form) == [text |-> text, form |-> form]

\* Decimal.quantize rounds halves to even, the validators do not (Money).
QuantizedHalfEven(x) ==
  LET low == (x \div Cent) * Cent
  IN CASE x - low < Cent \div 2 -> low
       [] x - low > Cent \div 2 -> low + Cent
       [] OTHER -> IF (low \div Cent) % 2 = 0 THEN low ELSE low + Cent

\* Dates and currencies are written in one form only.
Normalized(field, value) ==
  CASE value = None                -> None
    [] value # None /\ field \in MoneyFields -> QuantizedHalfEven(value)
    [] value # None /\ field = "vendor_name" /\ value.form \in {"upper", "padded"} -> [value EXCEPT !.form = "plain"]
    [] value # None /\ field = "invoice_number" /\ value.form = "padded" -> [value EXCEPT !.form = "plain"]
    [] OTHER -> value

\* _ratio, in ten-thousandths.
Rate(part, whole) ==
  IF whole = 0 THEN 0
  ELSE LET low == (part * 10000) \div whole
           rest == 2 * ((part * 10000) % whole)
       IN IF rest > whole \/ (rest = whole /\ low % 2 = 1) THEN low + 1 ELSE low

----------------------------------------------------------------------------
(* One document: the parser reads pages (sets of excerpts), the extractor      *)
(* answers with an invoice and with the confidence it has in some fields;      *)
(* either may fail with a ProviderError.                                       *)
Attempt(stage, status, usage) == [stage |-> stage, status |-> status, usage |-> usage]

\* An observation whose provider failed has nothing of an invoice.
NotRead(attempts) ==
  [invoice |-> [f \in {} |-> None], codes |-> {}, confident |-> {}, evident |-> {},
   error |-> TRUE, attempts |-> attempts]

EvidenceExists(parsed, page, excerpt) ==
  IF parsed.pages # << >> THEN page \in DOMAIN parsed.pages /\ excerpt \in parsed.pages[page]
  ELSE page = 1 /\ excerpt \in parsed.text

\* A confidence is [field, page, excerpt]; None stands for a page or excerpt not given.
\* A PDF without text is a failed parser call on top of the one that succeeded.
RunDocument(parsed, answer) ==
  LET parser == Attempt("parser", "succeeded", parsed.usage)
  IN CASE parsed.failed -> NotRead(<<Attempt("parser", "failed", 0)>>)
       [] ~parsed.failed /\ parsed.text = {} -> NotRead(<<parser, Attempt("parser", "failed", 0)>>)
       [] ~parsed.failed /\ parsed.text # {} /\ answer.failed ->
            NotRead(<<parser, Attempt("extractor", "failed", 0)>>)
       [] OTHER ->
            [invoice   |-> answer.invoice,
             codes     |-> {issue.code : issue \in ValidateInvoice(answer.invoice)},
             confident |-> {c.field : c \in answer.confidence},
             evident   |-> {c.field : c \in {e \in answer.confidence :
                              /\ None \notin {e.page, e.excerpt}
                              /\ EvidenceExists(parsed, e.page, e.excerpt)}},
             error     |-> FALSE,
             attempts  |-> <<parser, Attempt("extractor", "succeeded", answer.usage)>>]

----------------------------------------------------------------------------
(* Scores: cases is a sequence of expected records, seen one of observations of *)
(* the same documents in the same order.                                        *)
Value(observed, field) == IF observed.error THEN None ELSE observed.invoice[field]

Matches(expected, observed, field) ==
  /\ ~observed.error
  /\ Normalized(field, expected.invoice[field]) = Normalized(field, observed.invoice[field])

Scored(cases) == (DOMAIN cases) \X EvaluatedFields
Matched(cases, seen) == {p \in Scored(cases) : Matches(cases[p[1]], seen[p[1]], p[2])}

ByField(cases, seen) ==
  [f \in EvaluatedFields |-> Rate(Cardinality({p \in Matched(cases, seen) : p[2] = f}), Len(cases))]

ExactDocuments(cases, seen) ==
  {i \in DOMAIN cases : \A f \in EvaluatedFields : <<i, f>> \in Matched(cases, seen)}

ExactCodes(cases, seen)   == {i \in DOMAIN cases : cases[i].codes = seen[i].codes}
ExactBlocker(cases, seen) == {i \in DOMAIN cases : (cases[i].codes = {}) = (seen[i].codes = {})}

CorrectNonNull(cases, seen) ==
  {p \in Matched(cases, seen) : cases[p[1]].invoice[p[2]] # None}

\* _identity keeps letters and digits only, in one case.
AlnumText(value) == IF value = None THEN None ELSE value.text

PairsOf(n, same(_, _)) == {p \in (1..n) \X (1..n) : p[1] < p[2] /\ same(p[1], p[2])}

ExpectedPairs(cases) ==
  PairsOf(Len(cases), LAMBDA i, j : cases[i].group # None /\ cases[i].group = cases[j].group)

PredictedPairs(cases, seen) ==
  LET identity(i) == <<AlnumText(Value(seen[i], "vendor_name")), AlnumText(Value(seen[i], "invoice_number"))>>
  IN PairsOf(Len(cases), LAMBDA i, j :
       None \notin {identity(i)[1], identity(i)[2]} /\ identity(i) = identity(j))

\* The failure taxonomy, as the places each kind of failure is counted at.
Taxonomy(cases, seen) ==
  LET missed == Scored(cases) \ Matched(cases, seen)
      read   == {p \in missed : ~seen[p[1]].error}
      wanted(p) == Normalized(p[2], cases[p[1]].invoice[p[2]])
      given(p)  == Normalized(p[2], Value(seen[p[1]], p[2]))
  IN [provider_error   |-> {i \in DOMAIN cases : seen[i].error},
      unscored         |-> missed \ read,
      hallucinated     |-> {p \in read : wanted(p) = None /\ given(p) # None},
      missing          |-> {p \in read : wanted(p) # None /\ given(p) = None},
      incorrect        |-> {p \in read : wanted(p) # None /\ given(p) # None},
      code_mismatch    |-> DOMAIN cases \ ExactCodes(cases, seen),
      missing_evidence |-> {p \in Scored(cases) : /\ Value(seen[p[1]], p[2]) # None
                                                  /\ p[2] \notin seen[p[1]].evident}]

ReadOnes(seen) == {i \in DOMAIN seen : ~seen[i].error}

\* Places in an order, and what a sequence has at some of its places.
InOrder(places, before) ==
  [k \in 1..Cardinality(places) |->
     CHOOSE i \in places : Cardinality({j \in places : <<j, i>> \in before}) = k - 1]
Upwards(places) == InOrder(places, {p \in places \X places : p[1] < p[2]})
OfThose(sequence, places) == LET order == Upwards(places) IN [k \in DOMAIN order |-> sequence[order[k]]]

Scores(cases, seen) ==
  [field_accuracy  |-> Rate(Cardinality(Matched(cases, seen)), Cardinality(Scored(cases))),
   document_exact  |-> Rate(Cardinality(ExactDocuments(cases, seen)), Len(cases)),
   validation      |-> Rate(Cardinality(ExactCodes(cases, seen)), Len(cases)),
   blocker         |-> Rate(Cardinality(ExactBlocker(cases, seen)), Len(cases))]

Summary(cases, seen) ==
  LET correct == CorrectNonNull(cases, seen)
      expected == ExpectedPairs(cases)
      predicted == PredictedPairs(cases, seen)
  IN [scores      |-> Scores(cases, seen),
      conditional |-> Scores(OfThose(cases, ReadOnes(seen)), OfThose(seen, ReadOnes(seen))),
      by_field    |-> ByField(cases, seen),
      confidence  |-> Rate(Cardinality({p \in correct : p[2] \in seen[p[1]].confident}), Cardinality(correct)),
      evidence    |-> Rate(Cardinality({p \in correct : p[2] \in seen[p[1]].evident}), Cardinality(correct)),
      pairs       |-> [hit |-> expected \intersect predicted, wrong |-> predicted \ expected,
                       lost |-> expected \ predicted],
      taxonomy    |-> Taxonomy(cases, seen)]

----------------------------------------------------------------------------
(* What the providers reported, and what it costs at list price.               *)
Events(seen) == UNION {{i} \X DOMAIN seen[i].attempts : i \in DOMAIN seen}
Event(seen, place) == seen[place[1]].attempts[place[2]]
Succeeded(seen) == {p \in Events(seen) : Event(seen, p).status = "succeeded"}
SucceededIn(seen, stage) == {p \in Succeeded(seen) : Event(seen, p).stage = stage}

\* The parser reports pages, the extractor tokens [input, cached, output].
Usage(seen) ==
  LET tokens(kind) == SumFunction([p \in SucceededIn(seen, "extractor") |-> Event(seen, p).usage[kind]])
  IN [pages  |-> SumFunction([p \in SucceededIn(seen, "parser") |-> Event(seen, p).usage]),
      input  |-> tokens("input"), cached |-> tokens("cached"), output |-> tokens("output")]

\* In thousandths of a cent per page and ten-millionths of a cent per token.
PageCost == 400
TokenCost(usage) ==
  LET cached == IF usage.cached <= usage.input THEN usage.cached ELSE usage.input
  IN [input |-> (usage.input - cached) * 750, cached |-> cached * 75, output |-> usage.output * 4500]

Economics(seen, priced) ==
  LET total == Cardinality(Events(seen))
      usage == Usage(seen)
  IN [total     |-> total,
      succeeded |-> Cardinality(Succeeded(seen)),
      failed    |-> total - Cardinality(Succeeded(seen)),
      usage     |-> usage,
      cost      |-> IF priced THEN [known |-> TRUE, pages |-> usage.pages * PageCost, tokens |-> TokenCost(usage)]
                    ELSE [known |-> FALSE]]

----------------------------------------------------------------------------
\* The report of a run accounts for every field once: it matched or it failed in
\* one of the counted ways, an unread document failing in all its fields. Reading
\* only some of the documents never improves a field score or the exact documents
\* over the score on those, an exact document whose codes are the expected ones is
\* graded so, and duplicates are found where both of a pair were read. About
\* evaluation/external_holdout.py and evaluation/invoice.py.
ReportsAddUp(cases, seen) ==
  LET report == Summary(cases, seen)
      failed == report.taxonomy
      missed == Scored(cases) \ Matched(cases, seen)
      kinds  == {"unscored", "hallucinated", "missing", "incorrect"}
  IN /\ UNION {failed[kind] : kind \in kinds} = missed
     /\ SumFunction([kind \in kinds |-> Cardinality(failed[kind])]) = Cardinality(missed)
     /\ Cardinality(failed.unscored) = 8 * Cardinality(failed.provider_error)
     /\ report.scores.field_accuracy <= report.conditional.field_accuracy
     /\ report.scores.document_exact <= report.conditional.document_exact
     /\ report.scores.validation <= report.scores.blocker
     /\ report.scores.field_accuracy = 10000 <=> ExactDocuments(cases, seen) = DOMAIN cases
     /\ \A i \in ExactDocuments(cases, seen) :
          cases[i].codes = {issue.code : issue \in ValidateInvoice(cases[i].invoice)}
            => i \in ExactCodes(cases, seen)
     /\ \A p \in report.pairs.lost :
          \/ seen[p[1]].error \/ seen[p[2]].error
          \/ \E i \in {p[1], p[2]}, f \in {"vendor_name", "invoice_number"} : <<i, f>> \notin Matched(cases, seen)
             \/ cases[i].invoice[f] = None

\* The provider calls of a run are those of its documents: each was parsed, and
\* extracted when it had text; a failed call has no usage and no cost, and cached
\* tokens are charged once. About evaluation/provider_costs.py.
CallsAddUp(seen) ==
  LET economics == Economics(seen, TRUE)
      usage     == economics.usage
      tokens    == economics.cost.tokens
  IN /\ economics.total = economics.succeeded + economics.failed
     /\ economics.failed = Cardinality(DOMAIN seen \ ReadOnes(seen))
     /\ Len(seen) <= economics.total /\ economics.total <= 2 * Len(seen)
     /\ economics.failed = 0 => economics.total = 2 * Len(seen)
     /\ tokens.input + 10 * tokens.cached = 750 * usage.input
=============================================================================
