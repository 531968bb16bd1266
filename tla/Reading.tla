------------------------------ MODULE Reading ------------------------------
(***************************************************************************)
(* From the answer of a language model to a validated invoice: the model's *)
(* values are grounded in the text of the PDF, and what the text does not  *)
(* support becomes an issue.  A text is a sequence of pages, a page a      *)
(* sequence of lines.  Of a line the code looks at:                        *)
(*   label     the money or currency label it starts with,                 *)
(*   numbers   the numbers printed on it,                                  *)
(*   currency  the currency it names, by code or by symbol,                *)
(*   name      the party it names and nothing else, and says, the words    *)
(*             around a party,                                             *)
(*   names     what occurs in it, comparing letters and digits only: its   *)
(*             names and codes, parts of them, and what goes on below,     *)
(*   days      the dates printed on it, and part_days, those that a part   *)
(*             of one reads as: 2/03/2026 within 12/03/2026.               *)
(* A number is its digits, how many they are, and its separators: the kind *)
(* of each by the number of digits after it.  1,234.50 is [digits |->      *)
(* 123450, length |-> 6, marks |-> (2 :> ".") @@ (5 :> ",")].  Signs, and  *)
(* markup within a number, are left out.                                   *)
(***************************************************************************)
EXTENDS InvoiceRules

CONSTANTS Garbled,           \* a value that is no number, or no date
          PostalAddresses    \* the names that look like a postal address

EvidenceRequired == {"vendor_name", "invoice_number", "invoice_date", "total", "currency"}

\* A number with its last tail digits after the decimal point, in tenths of
\* a cent.
Shifted(digits, tail) == (digits * 1000) \div 10^tail

\* With both separators the last one is the decimal point.  A dot alone is one, and
\* a comma alone if one of tails digits follow it.  It may occur once.
DecimalOf(n, tails) ==
  LET tail   == Min(DOMAIN n.marks)
      points == {m \in DOMAIN n.marks : n.marks[m] = n.marks[tail]}
  IN IF DOMAIN n.marks = {} \/ (Range(n.marks) = {","} /\ tail \notin tails)
     THEN Shifted(n.digits, 0)
     ELSE IF Cardinality(points) = 1 THEN Shifted(n.digits, tail) ELSE Garbled

\* _source_decimal reads amounts, and _decimals_in_text those of an excerpt again.
SourceDecimal(n)  == DecimalOf(n, {1, 2})
ExcerptDecimal(n) == DecimalOf(n, {2})

\* What parts of a number read as: without its last r digits, the last l.
Cuts(n) ==
  {n} \union
  {[digits |-> (n.digits \div 10^c[1]) % 10^c[2], length |-> c[2],
    marks  |-> [m \in {k - c[1] : k \in {j \in DOMAIN n.marks : c[1] < j /\ j < c[1] + c[2]}}
                  |-> n.marks[m + c[1]]]] :
     c \in {d \in (0..n.length) \X (1..n.length) : d[1] + d[2] <= n.length}}

Places(text) == UNION {{p} \X DOMAIN text[p] : p \in DOMAIN text}
LineAt(text, place) == text[place[1]][place[2]]
Before(a, b) == a[1] < b[1] \/ (a[1] = b[1] /\ a[2] < b[2])
FirstOf(places) == CHOOSE a \in places : \A b \in places : a = b \/ Before(a, b)

MoneyLabels(field) ==
  CASE field = "subtotal" -> <<"subtotal">>
    [] field = "tax"      -> <<"tax", "vat", "gst">>
    [] field = "total"    -> <<"balance_due", "amount_due", "grand_total", "invoice_total", "total">>

\* The last number of a line is its amount.
Amount(text, place) == SourceDecimal(Last(LineAt(text, place).numbers))

\* The first label that is printed with an amount anywhere wins, then the first
\* place it is printed at.  What does not read as an amount is skipped.
LabelledMoney(text, field) ==
  LET labels == MoneyLabels(field)
      found(k) == {a \in Places(text) : /\ LineAt(text, a).label = labels[k]
                                        /\ LineAt(text, a).numbers # << >>
                                        /\ Amount(text, a) # Garbled}
      hits == {k \in DOMAIN labels : found(k) # {}}
  IN IF hits = {} THEN None ELSE FirstOf(found(Min(hits)))

LabelledCurrency(text) ==
  LET found == {a \in Places(text) : /\ LineAt(text, a).label = "currency"
                                     /\ LineAt(text, a).currency # None}
  IN IF found = {} THEN None ELSE FirstOf(found)

\* The vendor is kept if a line that names it stands in the context of a seller
\* and not of a buyer.  Contexts run over the lines of the whole text.
HasVendorContext(text, vendor) ==
  LET lines == FlattenSeq(text)
      said(from, to) == UNION {lines[k].says : k \in {j \in DOMAIN lines : j \in from..to}}
  IN vendor \notin PostalAddresses /\ \E k \in DOMAIN lines :
       /\ lines[k].name = vendor /\ "url" \notin lines[k].says
       /\ "buyer" \notin said(k - 1, k)
       /\ \/ "seller" \in said(k - 6, k)
          \/ "address" \in said(k, k + 6)
          \/ "invoice" \in said(k - 6, k) /\ "buyer" \in said(k, k + 6)

\* Evidence names a page and quotes an excerpt, any piece of the page's text.  It is
\* the line it starts on and what it shows for its field: the numbers, dates or
\* names that the whole line shows, or that parts of it read as.
InFull(line, field) ==
  CASE field \in {"subtotal", "tax", "total"}   -> Range(line.numbers)
    [] field \in {"invoice_date", "due_date"}   -> line.days
    [] OTHER -> line.names

InParts(line, field) ==
  CASE field \in {"subtotal", "tax", "total"}   -> UNION {Cuts(n) : n \in Range(line.numbers)}
    [] field \in {"invoice_date", "due_date"}   -> line.days \union line.part_days
    [] OTHER -> line.names

OnPage(evidence, text) ==
  /\ <<evidence.page, evidence.line>> \in Places(text)
  /\ evidence.shows \subseteq InParts(LineAt(text, <<evidence.page, evidence.line>>), evidence.field)

\* An excerpt that is not on its page is dropped.
Grounded(evidence, text) ==
  IF None \in {evidence.page, evidence.line} \/ OnPage(evidence, text) THEN evidence
  ELSE [field |-> evidence.field, page |-> None, line |-> None, shows |-> {}]

\* What was read from a line quotes the line.
Evidence(field, place, text) ==
  [field |-> field, page |-> place[1], line |-> place[2], shows |-> InFull(LineAt(text, place), field)]

\* The fields of the answer are null, a value or garbled; an answer without any
\* invoice field, or with a garbled date or amount, fails the extraction.
Readable(answer) ==
  /\ \E f \in {"vendor_name", "invoice_number", "invoice_date", "due_date",
               "subtotal", "tax", "total", "currency"} : answer.data[f] # None
  /\ \A f \in {"invoice_date", "due_date", "subtotal", "tax", "total"} : answer.data[f] # Garbled
  /\ \A k \in DOMAIN answer.data.line_items :
       \A f \in {"quantity", "unit_price", "amount"} : answer.data.line_items[k][f] # Garbled

\* The printed amounts replace the model's, a tax that is not printed is dropped,
\* and what was replaced brings its own evidence.
WithPrinted(answer, text, place, spot) ==
  LET money(f, otherwise) == IF place[f] # None THEN Amount(text, place[f]) ELSE otherwise
      invoice == [answer.data EXCEPT
        !.vendor_name = IF @ # None /\ ~HasVendorContext(text, @) THEN None ELSE @,
        !.subtotal = money("subtotal", @),
        !.tax      = money("tax", None),
        !.total    = money("total", @),
        !.currency = IF spot # None THEN LineAt(text, spot).currency ELSE @]
      replaced == {"tax", "currency"} \union {f \in {"subtotal", "total"} : place[f] # None}
  IN [data |-> invoice,
      evidence |-> {Grounded(e, text) : e \in {x \in answer.evidence : x.field \notin replaced}}
                   \union {Evidence(f, place[f], text) : f \in {g \in DOMAIN place : place[g] # None}}
                   \union (IF spot = None THEN {} ELSE {Evidence("currency", spot, text)})]

\* _ground_extraction: a currency without a label is that of the total, of the
\* subtotal or of the tax.
GroundExtraction(answer, text) ==
  LET place == [f \in {"subtotal", "tax", "total"} |-> LabelledMoney(text, f)]
      priced == {f \in {"subtotal", "tax", "total"} :
                   place[f] # None /\ LineAt(text, place[f]).currency # None}
      first == IF "total" \in priced THEN place["total"]
               ELSE IF "subtotal" \in priced THEN place["subtotal"]
               ELSE IF "tax" \in priced THEN place["tax"] ELSE None
  IN WithPrinted(answer, text, place,
                 IF LabelledCurrency(text) # None THEN LabelledCurrency(text) ELSE first)

\* Mutant: any excerpt that is on its page counts as evidence.
SupportsAnything(evidence, value, text) == OnPage(evidence, text)

\* The excerpt is on its page and the value is found in it.
Supports(evidence, value, text) ==
  /\ OnPage(evidence, text)
  /\ value \in IF evidence.field = "total" THEN {ExcerptDecimal(n) : n \in evidence.shows}
               ELSE evidence.shows

UntrustedIssues(read, text, provider) ==
  {Error("potential_prompt_injection", "document") : a \in
     {b \in Places(text) : "instruction" \in LineAt(text, b).says}}
  \union
  IF provider # "llm_json" THEN {}
  ELSE {Error("missing_field_evidence", f) : f \in
          {g \in EvidenceRequired :
             /\ read.data[g] # None
             /\ ~\E e \in read.evidence : e.field = g /\ Supports(e, read.data[g], text)}}

\* DocumentExtractionPipeline.extract with the language model: a failure, or
\* the stored data with its report.
Extracted(answer, text, others) ==
  LET read == GroundExtraction(answer, text)
  IN [data |-> read.data,
      issues |-> ValidateDocumentInvoice(read.data, others)
                 \union UntrustedIssues(read, text, "llm_json")]

----------------------------------------------------------------------------
\* What can be approved without a correction was not made up: its vendor stands
\* alone on a line, as a seller; its vendor, number, date and currency occur in the
\* text; where a total is labelled it is the total, and both readings of that line
\* agree; a total without a label occurs in a printed number; a tax has a label.
\* About providers/llm_json.py and validation/untrusted_content.py, whatever the
\* language model answers.
CleanReadingsArePrinted(answer, text, others) ==
  LET printed(P(_)) == \E a \in Places(text) : P(LineAt(text, a))
      reads(numbers, amount) == \E n \in numbers : ExcerptDecimal(n) = amount
  IN Readable(answer) =>
     \A r \in {Extracted(answer, text, others)}, total \in {LabelledMoney(text, "total")} :
     r.issues = {} =>
     /\ HasVendorContext(text, r.data.vendor_name)
     /\ \A f \in {"vendor_name", "invoice_number"} : printed(LAMBDA line : r.data[f] \in line.names)
     /\ printed(LAMBDA line : r.data.invoice_date \in line.days \union line.part_days)
     /\ r.data.currency # None =>
          printed(LAMBDA line : line.currency = r.data.currency /\ r.data.currency \in line.names)
     /\ total # None => /\ r.data.total = Amount(text, total)
                        /\ reads(Range(LineAt(text, total).numbers), r.data.total)
     /\ total = None => printed(LAMBDA line : reads(InParts(line, "total"), r.data.total))
     /\ r.data.tax # None => LabelledMoney(text, "tax") # None

\* The second reading of an amount agrees with the first: what was taken from a
\* labelled line is not then reported to lack evidence.  True but for amounts
\* with one digit after a comma (1,5 is read as 1.5 and judged as 15) and for
\* currencies printed as a symbol.
PrintedAmountsAreEvident(answer, text) ==
  LET oneDigit(n) == Range(n.marks) = {","} /\ Min(DOMAIN n.marks) = 1
  IN Readable(answer) =>
     \A issues \in {UntrustedIssues(GroundExtraction(answer, text), text, "llm_json")},
        total \in {LabelledMoney(text, "total")}, currency \in {LabelledCurrency(text)} :
     /\ total # None /\ ~oneDigit(Last(LineAt(text, total).numbers))
          => Error("missing_field_evidence", "total") \notin issues
     /\ currency # None /\ LineAt(text, currency).currency \in LineAt(text, currency).names
          => Error("missing_field_evidence", "currency") \notin issues

\* An accepted total or date was printed as one.  It fails: the text of a page is
\* searched for the excerpt (llm_json.py:363), which may begin or end within a
\* number or a date (see the README).
CleanValuesArePrintedWhole(answer, text, others) ==
  Readable(answer) => \A r \in {Extracted(answer, text, others)} :
     r.issues = {} =>
     /\ \E a \in Places(text) : \E n \in Range(LineAt(text, a).numbers) : ExcerptDecimal(n) = r.data.total
     /\ \E a \in Places(text) : r.data.invoice_date \in LineAt(text, a).days
=============================================================================
