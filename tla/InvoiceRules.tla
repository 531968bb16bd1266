---------------------------- MODULE InvoiceRules ----------------------------
(***************************************************************************)
(* What makes an invoice valid, and what makes it deliverable.  Money is   *)
(* counted in tenths of a cent, quantities in tenths of a unit, dates are  *)
(* days, and a name that differs only in case or punctuation is the same.  *)
(***************************************************************************)
EXTENDS Integers, Sequences, FiniteSets, SequencesExt

CONSTANT None      \* a field that is null or empty

Cent == 10         \* in tenths of a cent
Whole == 10        \* one unit, in tenths
SupportedCurrencies == {"IDR", "USD", "EUR", "GBP", "SGD", "AUD", "JPY", "MYR"}
CriticalFields == {"vendor_name", "invoice_number", "invoice_date", "total"}

Distance(a, b) == IF a > b THEN a - b ELSE b - a

\* x in units, to the nearest one: ROUND_HALF_UP rounds halves away from zero.
HalfUp(x, unit) ==
  IF x < 0 THEN 0 - ((unit \div 2 - x) \div unit) ELSE (x + unit \div 2) \div unit

\* quantize(0.01), of an amount and of a quantity times a price.
Money(x) == Cent * HalfUp(x, Cent)
Cost(quantity, price) == Cent * HalfUp(quantity * price, Whole * Cent)

\* Every validator reports errors; no code reports a warning.  An issue of a line
\* item says at which one.
Error(code, field) == [code |-> code, field |-> field, at |-> 0, severity |-> "error"]

MissingFields(invoice) ==
  {Error("missing_critical_field", f) : f \in {c \in CriticalFields : invoice[c] = None}}

TotalIssues(invoice) ==
  (IF invoice.total # None /\ invoice.total <= 0
   THEN {Error("invalid_total", "total")} ELSE {})
  \union
  (IF /\ None \notin {invoice.subtotal, invoice.tax, invoice.total}
      /\ Distance(invoice.subtotal + invoice.tax, invoice.total) > Cent
   THEN {Error("total_mismatch", "total")} ELSE {})

DateIssues(invoice) ==
  IF /\ None \notin {invoice.invoice_date, invoice.due_date}
     /\ invoice.invoice_date > invoice.due_date
  THEN {Error("invalid_date_order", "due_date")} ELSE {}

CurrencyIssues(invoice) ==
  IF invoice.currency \notin SupportedCurrencies \union {None}
  THEN {Error("unsupported_currency", "currency")} ELSE {}

ItemIssues(invoice) ==
  {[Error("line_item_amount_mismatch", "line_items") EXCEPT !.at = k] :
     k \in {j \in DOMAIN invoice.line_items :
       LET item == invoice.line_items[j]
       IN /\ None \notin {item.quantity, item.unit_price, item.amount}
          /\ Distance(item.quantity * item.unit_price, Whole * item.amount) > Whole * Cent}}

ValidateInvoice(invoice) ==
  MissingFields(invoice) \union TotalIssues(invoice) \union DateIssues(invoice)
  \union CurrencyIssues(invoice) \union ItemIssues(invoice)

\* others are the invoices stored for the other documents of the workspace.
Identity(invoice) == <<invoice.vendor_name, invoice.invoice_number>>

ValidateDocumentInvoice(invoice, others) ==
  ValidateInvoice(invoice) \union
  (IF /\ None \notin {invoice.vendor_name, invoice.invoice_number}
      /\ \E other \in others : Identity(other) = Identity(invoice)
   THEN {Error("duplicate_invoice", "invoice_number")} ELSE {})

----------------------------------------------------------------------------
(* The mapping to an ERPNext purchase invoice.                              *)

CONSTANTS MappedVendors, FixedRateDate

\* A null is no amount and no date, and the mapping names vendors.
ASSUME NullAssumption == None \notin Int /\ None \notin MappedVendors

PayableCurrencies == {"USD", "EUR"}

ConversionKnown(currency, date) == currency = "USD" \/ (currency = "EUR" /\ date = FixedRateDate)

\* Mutant: the nearest whole percent.
TaxRateInPercent(subtotal, tax) == IF tax = 0 THEN 0 ELSE 100 * HalfUp(100 * tax, subtotal)

\* The rate in hundredths of a percent, to the nearest one.
TaxRate(subtotal, tax) == IF tax = 0 THEN 0 ELSE HalfUp(10000 * tax, subtotal)

SumOf(amounts) == FoldLeft(+, 0, amounts)

TaxTemplates == {0, 1000, 2000}

ItemsMap(invoice, subtotal) ==
  \/ invoice.line_items = << >>
  \/ /\ \A k \in DOMAIN invoice.line_items :
          LET item == invoice.line_items[k]
          IN /\ None \notin {item.description, item.quantity, item.unit_price, item.amount}
             /\ item.quantity > 0 /\ item.unit_price >= 0 /\ Money(item.amount) >= 0
             /\ Cost(item.quantity, item.unit_price) = Money(item.amount)
     /\ Money(SumOf([k \in DOMAIN invoice.line_items |-> Money(invoice.line_items[k].amount)])) = subtotal

AmountsMap(invoice) ==
  /\ None \notin {invoice.subtotal, invoice.tax, invoice.total}
  /\ Money(invoice.subtotal) > 0 /\ Money(invoice.tax) >= 0 /\ Money(invoice.total) > 0
  /\ Money(Money(invoice.subtotal) + Money(invoice.tax)) = Money(invoice.total)

\* map_invoice raises unless all of these hold.
Maps(invoice) ==
  /\ invoice.vendor_name \in MappedVendors
  /\ None \notin {invoice.invoice_number, invoice.invoice_date, invoice.due_date, invoice.currency}
  /\ invoice.due_date >= invoice.invoice_date
  /\ AmountsMap(invoice)
  /\ ConversionKnown(invoice.currency, invoice.invoice_date)
  /\ invoice.currency \in PayableCurrencies
  /\ TaxRate(Money(invoice.subtotal), Money(invoice.tax)) \in TaxTemplates
  /\ ItemsMap(invoice, Money(invoice.subtotal))

\* What ERPNext makes of the mapped rows and the template: the rate of a row was
\* rounded to cents, and its amount and the tax are rounded in turn.
MappedNet(invoice) ==
  IF invoice.line_items = << >> THEN Money(invoice.subtotal)
  ELSE SumOf([k \in DOMAIN invoice.line_items |->
                Cost(invoice.line_items[k].quantity, Money(invoice.line_items[k].unit_price))])

DraftTax(invoice) ==
  Money((MappedNet(invoice) * TaxRate(Money(invoice.subtotal), Money(invoice.tax))) \div 10000)
DraftTotal(invoice) == MappedNet(invoice) + DraftTax(invoice)

\* The draft exists already when its total is compared with the approved one.
Verified(invoice) == DraftTotal(invoice) = Money(invoice.total)

----------------------------------------------------------------------------
WholeAmounts(invoice) == \A f \in {"subtotal", "tax", "total"} : invoice[f] % Cent = 0
WholePrices(invoice) == \A k \in DOMAIN invoice.line_items : invoice.line_items[k].unit_price % Cent = 0

\* Three judges of one invoice, each with its own rounding: the validator a
\* reviewer relies on, the mapping, and the provider whose draft is refused after
\* it was made (_verified_result).  Of an invoice that maps, the validator reports
\* nothing but a sum whose terms have parts of a cent.  Unless a price has, the
\* draft posts the approved subtotal; its tax is off by less than the rounding of
\* the rate, is the approved tax when the draft is verified, and a draft is only
\* refused for a subtotal above 100.00.  About validation/invoice.py,
\* integrations/erpnext_mapping.py and erpnext_adapter.py.
DeliverableInvoicesAreSound(invoice) ==
  Maps(invoice) =>
    /\ \A issue \in ValidateInvoice(invoice) :
         issue = Error("total_mismatch", "total") /\ ~WholeAmounts(invoice)
    /\ WholePrices(invoice) =>
         /\ MappedNet(invoice) = Money(invoice.subtotal)
         /\ 20000 * Distance(DraftTax(invoice), Money(invoice.tax))
              <= 10000 * Cent + Money(invoice.subtotal)
         /\ Verified(invoice) => DraftTax(invoice) = Money(invoice.tax)
         /\ ~Verified(invoice) => Money(invoice.subtotal) > 10000 * Cent

\* docs/erpnext-integration-design.md: "Exact 10% and 20% cases use their Assisted
\* Benchmark templates. A missing, negative, or unsupported rate blocks delivery."
\* It fails: a rate that rounds to one of them is taken for it (see the README).
MappedTaxIsExact(invoice) ==
  Maps(invoice) => 100 * Money(invoice.tax) \in {p * Money(invoice.subtotal) : p \in {0, 10, 20}}

\* docs/erpnext-integration-design.md: items "must reconcile exactly to subtotal."
\* It fails even for a verified draft: only the grand total is compared (see the
\* README).
VerifiedDraftsPostTheSubtotal(invoice) ==
  Maps(invoice) /\ Verified(invoice) => MappedNet(invoice) = Money(invoice.subtotal)
=============================================================================
