----------------------------- MODULE PagesProofs -----------------------------
(***************************************************************************)
(* Proofs about the rules of an invoice, for every invoice, text and       *)
(* snapshot: how near the draft of what the accounting mapping accepts is  *)
(* to what was approved, whatever its lines; a reading without issues is   *)
(* found in the PDF, whatever the model answers; what a page offers for    *)
(* export passes the checks of a batch.  Then they are carried over to the *)
(* instance that TLC checks.  Next, that what starts, starts as its        *)
(* settings promise; that the gateway knows its callers; and that the      *)
(* copilot, the policy, the planner and the services behind their tools    *)
(* agree.  Last, that the stores answer a query alike, and that lists,     *)
(* counts, dashboards and summaries say the same of one snapshot, ledger   *)
(* or sequence of recorded runs.                                           *)
(***************************************************************************)
EXTENDS MCPages, WellFoundedInduction, FiniteSetTheorems, SequenceTheorems, TLAPS

-----------------------------------------------------------------------------
(* Smallest numbers, by which the proofs below go through data.              *)

\* A set of natural numbers has a smallest one.
LEMMA Smallest ==
  ASSUME NEW S \in SUBSET Nat, S # {}
  PROVE  \E n \in S : \A m \in S : n <= m
<1>1. IsWellFoundedOn(OpToRel(<,Nat), Nat)
  BY NatLessThanWellFounded
<1>2. PICK n \in S : \A m \in S : ~ (<<m, n>> \in OpToRel(<,Nat))
  BY <1>1, WFMin
<1>3. \A m \in S : ~(m < n)
  BY <1>2 DEF OpToRel
<1>4. QED
  BY <1>3

-----------------------------------------------------------------------------
(* Amounts in cents.                                                         *)

\* _money leaves an amount in whole cents as it is.
LEMMA MoneyOfCents == ASSUME NEW x \in Int, x % Cent = 0 PROVE Money(x) = x
BY DEF Money, HalfUp, Cent

\* What _money returns is in whole cents, and half a cent away at most.
LEMMA MoneyIsCents ==
  ASSUME NEW x \in Int
  PROVE  Money(x) \in Int /\ Money(x) % Cent = 0 /\ Distance(Money(x), x) <= 5
BY DEF Money, HalfUp, Cent, Distance

\* A quantity times a price that rounds to the same cents as an amount is within a
\* cent of it.
LEMMA CostIsNear ==
  ASSUME NEW q \in Int, NEW x \in Int, NEW a \in Int, Cost(q, x) = Money(a)
  PROVE  ~(Distance(q * x, Whole * a) > Whole * Cent)
<1>1. PICK c \in Int : c = q * x
  OBVIOUS
<1>2. 10 * HalfUp(c, 100) = Money(a)
  BY <1>1 DEF Cost, Whole, Cent
<1>3. HalfUp(c, 100) \in Int /\ Distance(100 * HalfUp(c, 100), c) <= 50
  BY DEF HalfUp, Distance
<1>4. Money(a) \in Int /\ Distance(Money(a), a) <= 5
  BY MoneyIsCents
<1>5. ASSUME Distance(c, 10 * a) > 100 PROVE FALSE
  BY <1>2, <1>3, <1>4, <1>5 DEF Distance
<1>6. QED
  BY <1>1, <1>5 DEF Whole, Cent

\* Where _tax_rate finds a template, its rate on the subtotal is the tax but for
\* half a hundredth of a percent and half a cent, and exactly the tax up to 100.00.
LEMMA TemplateRate ==
  ASSUME NEW s \in Int, NEW t \in Int, s > 0, t >= 0, s % Cent = 0, t % Cent = 0,
         TaxRate(s, t) \in TaxTemplates
  PROVE  LET d == Money((s * TaxRate(s, t)) \div 10000)
         IN /\ d \in Int
            /\ 20000 * Distance(d, t) <= 10000 * Cent + s
            /\ s <= 10000 * Cent => d = t
<1> DEFINE r == TaxRate(s, t)
           d == Money((s * r) \div 10000)
<1>1. CASE t = 0
  BY <1>1 DEF TaxRate, Money, HalfUp, Cent, Distance
<1>2. CASE t # 0
  <2>1. r = (10000 * t + s \div 2) \div s /\ r \in {0, 1000, 2000}
    BY <1>2 DEF TaxRate, TaxTemplates, HalfUp
  <2>2. 2 * s * r <= 20000 * t + s /\ 20000 * t < 2 * s * r + s
    <3>1. PICK h \in Int : h = s \div 2 /\ s = 2 * h
      BY DEF Cent
    <3>2. PICK n \in Int : n = 10000 * t + h /\ n >= 0
      BY <3>1
    <3>3. r = n \div s
      BY <2>1, <3>1, <3>2
    <3>4. s * r <= n /\ n < s * r + s
      <4>1. CASE r = 0
        BY <2>1, <3>2, <3>3, <4>1
      <4>2. CASE r = 1000
        BY <2>1, <3>2, <3>3, <4>2
      <4>3. CASE r = 2000
        BY <2>1, <3>2, <3>3, <4>3
      <4>4. QED
        BY <2>1, <4>1, <4>2, <4>3
    <3>5. s * r \in Int /\ 2 * s * r = 2 * (s * r)
      BY <2>1
    <3>6. QED
      BY <3>1, <3>2, <3>4, <3>5
  <2>3. CASE r = 0
    BY <2>2, <2>3, <1>2 DEF Cent, Money, HalfUp, Distance
  <2>4. CASE r = 1000
    <3>1. d = Money(s \div 10)
      BY <2>4
    <3>2. 20000 * t <= 2000 * s + s /\ 2000 * s <= 20000 * t + s
      BY <2>2, <2>4
    <3>3. QED
      BY <2>2, <2>4, <3>1, <3>2 DEF Cent, Money, HalfUp, Distance
  <2>5. CASE r = 2000
    <3>1. d = Money(s \div 5)
      BY <2>5
    <3>2. 20000 * t <= 4000 * s + s /\ 4000 * s <= 20000 * t + s
      BY <2>2, <2>5
    <3>3. QED
      BY <2>2, <2>5, <3>1, <3>2 DEF Cent, Money, HalfUp, Distance
  <2>6. QED
    BY <2>1, <2>3, <2>4, <2>5
<1>3. QED
  BY <1>1, <1>2

\* Max, by which a fold picks the next number, is in the set and bounds it.
LEMMA Largest ==
  ASSUME NEW n \in Nat, NEW S \in SUBSET (1..n), S # {}
  PROVE  Max(S) \in S /\ \A m \in S : m <= Max(S)
<1> DEFINE gaps == {d \in Nat : \E m \in S : d = n - m}
<1>0. /\ gaps \in SUBSET Nat /\ gaps # {}
      /\ \A m \in S : n - m \in gaps /\ m \in Nat
  <2>1. \A m \in S : m \in Nat /\ n - m \in Nat
    OBVIOUS
  <2>2. \A m \in S : n - m \in gaps
    BY <2>1
  <2>3. QED
    BY <2>1, <2>2
<1>1. PICK d \in gaps : \A e \in gaps : d <= e
  <2> HIDE DEF gaps
  <2> QED
    BY <1>0, Smallest
<1>2. PICK k \in S : d = n - k
  OBVIOUS
<1>3. \A m \in S : k >= m
  <2> TAKE m \in S
  <2>1. n - k <= n - m
    BY <1>0, <1>1, <1>2
  <2>2. QED
    BY <1>0, <2>1
<1>4. QED
  BY <1>3 DEF Max

\* f is the recursive function behind FoldLeft(+, 0, amounts), on the indices up to n.
Folds(f, n, amounts) ==
  f = [S \in SUBSET (1..n) |-> IF S = {} THEN 0 ELSE f[S \ {Max(S)}] + amounts[Max(S)]]

\* It can be continued by one index,
LEMMA FoldsOneMore ==
  ASSUME NEW amounts, NEW n \in Nat, NEW f, Folds(f, n, amounts)
  PROVE  \E g : Folds(g, n + 1, amounts)
<1> DEFINE last == n + 1
           g == [S \in SUBSET (1..last) |-> IF last \in S THEN f[S \ {last}] + amounts[last] ELSE f[S]]
<1>0. last \in Nat
  OBVIOUS
<1>1. ASSUME NEW S \in SUBSET (1..last), S # {}
      PROVE  g[S] = g[S \ {Max(S)}] + amounts[Max(S)]
  <2>1. Max(S) \in S /\ \A m \in S : m <= Max(S)
    <3> HIDE DEF last
    <3> QED
      BY <1>0, <1>1, Largest
  <2>2. CASE last \in S
    <3>1. Max(S) = last
      <4>1. Max(S) \in 1..last /\ last <= Max(S)
        BY <2>1, <2>2
      <4>2. QED
        BY <4>1
    <3>2. g[S] = f[S \ {last}] + amounts[last] /\ g[S \ {last}] = f[S \ {last}]
      BY <2>2
    <3>3. QED
      BY <3>1, <3>2
  <2>3. CASE last \notin S
    <3>1. S \in SUBSET (1..n)
      BY <2>3
    <3>2. f[S] = f[S \ {Max(S)}] + amounts[Max(S)]
      BY <1>1, <3>1 DEF Folds
    <3>3. g[S] = f[S] /\ g[S \ {Max(S)}] = f[S \ {Max(S)}]
      BY <2>3
    <3>4. QED
      BY <3>2, <3>3
  <2>4. QED
    BY <2>2, <2>3
<1>2. g[{}] = 0
  BY DEF Folds
<1>3. Folds(g, last, amounts)
  BY <1>1, <1>2 DEF Folds
<1>4. QED
  BY <1>3

\* so it exists for every length: the smallest without one would be a next one,
LEMMA FoldExists ==
  ASSUME NEW amounts, NEW n \in Nat
  PROVE  \E f : Folds(f, n, amounts)
<1> DEFINE bad == {m \in Nat : ~\E f : Folds(f, m, amounts)}
<1>1. SUFFICES ASSUME bad # {} PROVE FALSE
  OBVIOUS
<1>2. PICK m \in bad : \A k \in bad : m <= k
  BY <1>1, Smallest
<1>3. m # 0
  <2>1. Folds([S \in {{}} |-> 0], 0, amounts)
    BY DEF Folds
  <2>2. QED
    BY <1>2, <2>1
<1>4. PICK f : Folds(f, m - 1, amounts)
  BY <1>2, <1>3
<1>5. QED
  BY <1>2, <1>3, <1>4, FoldsOneMore

\* and it never leaves a set of numbers that is closed under addition.
LEMMA FoldStays ==
  ASSUME NEW n \in Nat, NEW W \in SUBSET Int, 0 \in W, \A x, y \in W : x + y \in W,
         NEW amounts, \A k \in 1..n : amounts[k] \in W,
         NEW f, Folds(f, n, amounts), NEW S \in SUBSET (1..n)
  PROVE  f[S] \in W
<1> DEFINE bad == {m \in Nat : m <= n /\ \E R \in SUBSET (1..m) : f[R] \notin W}
<1>1. SUFFICES ASSUME f[S] \notin W PROVE FALSE
  OBVIOUS
<1>2. PICK m \in bad : \A k \in bad : m <= k
  <2>1. n \in bad
    BY <1>1
  <2>2. bad \in SUBSET Nat
    OBVIOUS
  <2> HIDE DEF bad
  <2>3. QED
    BY <2>1, <2>2, Smallest
<1>3. PICK R \in SUBSET (1..m) : f[R] \notin W
  BY <1>2
<1>4. R # {}
  BY <1>2, <1>3 DEF Folds
<1>5. Max(R) \in R /\ \A k \in R : k <= Max(R)
  BY <1>4, Largest
<1>6. m # 0 /\ m - 1 \in Nat /\ m - 1 < m /\ m - 1 <= n
      /\ R \ {Max(R)} \in SUBSET (1..(m - 1)) /\ Max(R) \in 1..n /\ R \in SUBSET (1..n)
  <2>1. m \in Nat /\ m <= n /\ Max(R) \in 1..m
    BY <1>2, <1>5
  <2>2. \A k \in R \ {Max(R)} : k \in 1..(m - 1)
    <3> TAKE k \in R \ {Max(R)}
    <3>1. k \in 1..m /\ k <= Max(R) /\ k # Max(R)
      BY <1>5
    <3>2. QED
      BY <2>1, <3>1
  <2>3. R \in SUBSET (1..n)
    BY <2>1
  <2>4. m # 0 /\ m - 1 \in Nat /\ m - 1 < m /\ m - 1 <= n /\ Max(R) \in 1..n
    <3> DEFINE top == Max(R)
    <3>1. top \in 1..m /\ m \in Nat /\ m <= n
      BY <2>1
    <3> HIDE DEF top
    <3>2. m # 0 /\ m - 1 \in Nat /\ m - 1 < m /\ m - 1 <= n /\ top \in 1..n
      BY <3>1
    <3>3. QED
      BY <3>2 DEF top
  <2>5. QED
    BY <2>2, <2>3, <2>4
<1>7. f[R \ {Max(R)}] \in W /\ amounts[Max(R)] \in W
  <2>1. m - 1 \notin bad
    <3>1. m \in Nat /\ ~(m <= m - 1)
      BY <1>6
    <3> HIDE DEF bad
    <3>2. QED
      BY <1>2, <3>1
  <2>2. QED
    BY <1>6, <2>1
<1>8. f[R] = f[R \ {Max(R)}] + amounts[Max(R)]
  BY <1>6, <1>4 DEF Folds
<1> HIDE DEF bad
<1>9. QED
  BY <1>3, <1>7, <1>8

\* Over equal numbers it counts them.
LEMMA FoldCounts ==
  ASSUME NEW n \in Nat, NEW amounts, \A k \in 1..n : amounts[k] = 2, NEW f, Folds(f, n, amounts)
  PROVE  f[1..n] = 2 * n
<1> DEFINE bad == {m \in Nat : m <= n /\ f[1..m] # 2 * m}
<1>1. SUFFICES ASSUME n \in bad PROVE FALSE
  OBVIOUS
<1>2. PICK m \in bad : \A k \in bad : m <= k
  <2> HIDE DEF bad
  <2>1. bad \in SUBSET Nat
    BY DEF bad
  <2>2. QED
    BY <1>1, <2>1, Smallest
<1>3. m \in Nat /\ m <= n /\ f[1..m] # 2 * m
  BY <1>2
<1>4. m # 0
  BY <1>3 DEF Folds
<1>5. Max(1..m) = m
  <2> DEFINE all == 1..m
  <2>1. all \in SUBSET (1..m) /\ m \in all
    BY <1>3, <1>4
  <2> HIDE DEF all
  <2>2. Max(all) \in all /\ m <= Max(all)
    BY <1>3, <2>1, Largest
  <2>3. Max(all) \in 1..m
    BY <2>1, <2>2
  <2>4. Max(all) = m
    BY <1>3, <2>2, <2>3
  <2>5. QED
    BY <2>4 DEF all
<1>6. (1..m) \ {m} = 1..(m - 1) /\ m - 1 \in Nat /\ m - 1 <= n /\ ~(m <= m - 1)
      /\ 1..m \in SUBSET (1..n) /\ 1..m # {} /\ m \in 1..n
  <2>1. m \in Nat /\ n \in Nat /\ m <= n /\ m # 0
    BY <1>3, <1>4
  <2>2. (1..m) \ {m} = 1..(m - 1)
    BY <2>1
  <2>3. m - 1 \in Nat /\ m - 1 <= n /\ ~(m <= m - 1)
    BY <2>1
  <2>4. 1..m \in SUBSET (1..n) /\ m \in 1..m /\ m \in 1..n
    BY <2>1
  <2>5. QED
    BY <2>2, <2>3, <2>4
<1>7. f[1..m] = f[1..(m - 1)] + 2
  BY <1>5, <1>6, ZenonT(60) DEF Folds
<1>8. m - 1 \notin bad
  <2> HIDE DEF bad
  <2> QED
    BY <1>2, <1>6
<1>9. f[1..(m - 1)] = 2 * (m - 1)
  BY <1>6, <1>8
<1>10. QED
  BY <1>3, <1>7, <1>9

\* A sum is a fold.
LEMMA SumIsFold ==
  ASSUME NEW n \in Nat, NEW amounts, DOMAIN amounts = 1..n
  PROVE  \E f : Folds(f, n, amounts) /\ SumOf(amounts) = f[1..n]
<1> DEFINE f == CHOOSE g : Folds(g, n, amounts)
<1>1. Folds(f, n, amounts)
  BY FoldExists
<1>2. SumOf(amounts) = f[1..n]
  BY DEF SumOf, FoldLeft, MapThenFoldSet, Folds
<1>3. QED
  BY <1>1, <1>2

\* A sum stays in every set of numbers that has 0, the amounts and their sums.
LEMMA SumStays ==
  ASSUME NEW n \in Nat, NEW amounts, DOMAIN amounts = 1..n,
         NEW W \in SUBSET Int, 0 \in W, \A x, y \in W : x + y \in W, \A k \in 1..n : amounts[k] \in W
  PROVE  SumOf(amounts) \in W
<1>1. PICK f : Folds(f, n, amounts) /\ SumOf(amounts) = f[1..n]
  BY SumIsFold
<1> DEFINE all == 1..n
<1>2. all \in SUBSET (1..n)
  OBVIOUS
<1> HIDE DEF all
<1>3. f[all] \in W
  BY <1>1, <1>2, FoldStays
<1>4. QED
  BY <1>1, <1>3 DEF all

\* Whole cents add up to whole cents.
LEMMA SumOfCents ==
  ASSUME NEW n \in Nat, NEW amounts, DOMAIN amounts = 1..n,
         \A k \in 1..n : amounts[k] \in Int /\ amounts[k] % Cent = 0
  PROVE  SumOf(amounts) \in Int /\ SumOf(amounts) % Cent = 0
<1> DEFINE W == {x \in Int : x % Cent = 0}
<1>1. 0 \in W /\ W \in SUBSET Int
  BY DEF Cent
<1>2. \A x, y \in W : x + y \in W
  BY DEF Cent
<1>3. \A k \in 1..n : amounts[k] \in W
  OBVIOUS
<1> HIDE DEF W
<1>4. SumOf(amounts) \in W
  BY <1>1, <1>2, <1>3, SumStays
<1>5. QED
  BY <1>4 DEF W

IsInvoice(invoice) ==
  /\ \A f \in {"subtotal", "tax", "total", "invoice_date", "due_date"} : invoice[f] \in Int \union {None}
  /\ \E n \in Nat : DOMAIN invoice.line_items = 1..n
  /\ \A k \in DOMAIN invoice.line_items : \A f \in {"quantity", "unit_price", "amount"} :
       invoice.line_items[k][f] \in Int \union {None}

\* What _line_items accepts of a line: its amounts are given, and the amount is the
\* quantity times the price to the cent.
LEMMA ItemsAdd ==
  ASSUME NEW invoice, IsInvoice(invoice), NEW k \in DOMAIN invoice.line_items,
         ItemsMap(invoice, Money(invoice.subtotal))
  PROVE  LET item == invoice.line_items[k] IN
         /\ item.quantity \in Int /\ item.unit_price \in Int /\ item.amount \in Int
         /\ Cost(item.quantity, item.unit_price) = Money(item.amount)
         /\ Money(item.amount) \in Int /\ Money(item.amount) % Cent = 0
<1> DEFINE item == invoice.line_items[k]
<1>1. /\ None \notin {item.quantity, item.unit_price, item.amount}
      /\ Cost(item.quantity, item.unit_price) = Money(item.amount)
  BY DEF ItemsMap
<1>2. item.quantity \in Int /\ item.unit_price \in Int /\ item.amount \in Int
  BY <1>1 DEF IsInvoice
<1>3. QED
  BY <1>1, <1>2, MoneyIsCents

\* The rows of the draft add up to the subtotal, unless a rate was rounded.
LEMMA NetIsSubtotal ==
  ASSUME NEW invoice, IsInvoice(invoice), WholePrices(invoice), invoice.subtotal \in Int,
         ItemsMap(invoice, Money(invoice.subtotal))
  PROVE  MappedNet(invoice) = Money(invoice.subtotal)
<1>1. CASE invoice.line_items = << >>
  BY <1>1 DEF MappedNet
<1>2. CASE invoice.line_items # << >>
  <2> DEFINE items == invoice.line_items
             amounts == [k \in DOMAIN items |-> Money(items[k].amount)]
             prices == [k \in DOMAIN items |-> Cost(items[k].quantity, Money(items[k].unit_price))]
  <2>1. amounts = prices
    <3>1. \A k \in DOMAIN items : Money(items[k].unit_price) = items[k].unit_price
      BY ItemsAdd, MoneyOfCents DEF WholePrices
    <3>2. QED
      BY <3>1, ItemsAdd
  <2>2. PICK n \in Nat : DOMAIN amounts = 1..n
    BY DEF IsInvoice
  <2>3. \A k \in 1..n : amounts[k] \in Int /\ amounts[k] % Cent = 0
    BY <2>2, ItemsAdd
  <2>4. SumOf(amounts) \in Int /\ SumOf(amounts) % Cent = 0
    BY <2>2, <2>3, SumOfCents
  <2>5. Money(SumOf(amounts)) = Money(invoice.subtotal)
    BY <1>2 DEF ItemsMap
  <2>6. MappedNet(invoice) = SumOf(prices)
    BY <1>2 DEF MappedNet
  <2>7. QED
    BY <2>1, <2>4, <2>5, <2>6, MoneyOfCents
<1>3. QED
  BY <1>1, <1>2

\* Whatever the lines, quantities, dates and amounts of an invoice: the validator
\* finds nothing in what the mapping accepts but a sum of amounts with parts of a
\* cent; and where no rate was rounded, the draft posts the approved subtotal, its
\* tax is as near as the rounded rate lets it be, and is the approved one if the
\* draft is verified or the subtotal is at most 100.00.
THEOREM EveryDeliveryIsSound ==
  ASSUME NEW invoice, IsInvoice(invoice)
  PROVE  DeliverableInvoicesAreSound(invoice)
<1> DEFINE sub == invoice.subtotal
           tax == invoice.tax
           total == invoice.total
           s == Money(sub)
           t == Money(tax)
<1> SUFFICES ASSUME Maps(invoice)
             PROVE  /\ \A issue \in ValidateInvoice(invoice) :
                         issue = Error("total_mismatch", "total") /\ ~WholeAmounts(invoice)
                    /\ WholePrices(invoice) =>
                         /\ MappedNet(invoice) = s
                         /\ 20000 * Distance(DraftTax(invoice), t) <= 10000 * Cent + s
                         /\ Verified(invoice) => DraftTax(invoice) = t
                         /\ ~Verified(invoice) => s > 10000 * Cent
  BY DEF DeliverableInvoicesAreSound
<1>1. sub \in Int /\ tax \in Int /\ total \in Int
  BY DEF Maps, AmountsMap, IsInvoice
<1>2. /\ s \in Int /\ s % Cent = 0 /\ Distance(s, sub) <= 5
      /\ t \in Int /\ t % Cent = 0 /\ Distance(t, tax) <= 5
      /\ Money(total) \in Int /\ Distance(Money(total), total) <= 5
  BY <1>1, MoneyIsCents
<1>3. s > 0 /\ t >= 0 /\ Money(total) > 0 /\ Money(total) % Cent = 0 /\ s + t = Money(total)
  <2>1. s > 0 /\ t >= 0 /\ Money(total) > 0 /\ Money(s + t) = Money(total)
    BY DEF Maps, AmountsMap
  <2>2. s + t \in Int /\ (s + t) % Cent = 0
    BY <1>2 DEF Cent
  <2>3. QED
    BY <1>1, <2>1, <2>2, MoneyOfCents, MoneyIsCents
<1>4. ValidateInvoice(invoice) = TotalIssues(invoice)
  <2>1. MissingFields(invoice) = {}
    BY NullAssumption, <1>1 DEF MissingFields, CriticalFields, Maps
  <2>2. DateIssues(invoice) = {}
    BY NullAssumption DEF DateIssues, Maps, IsInvoice
  <2>3. CurrencyIssues(invoice) = {}
    BY DEF CurrencyIssues, Maps, PayableCurrencies, SupportedCurrencies
  <2>4. ItemIssues(invoice) = {}
    <3>1. \A k \in DOMAIN invoice.line_items :
            ~(Distance(invoice.line_items[k].quantity * invoice.line_items[k].unit_price,
                       Whole * invoice.line_items[k].amount) > Whole * Cent)
      BY ItemsAdd, CostIsNear DEF Maps
    <3>2. QED
      BY <3>1, Zenon DEF ItemIssues
  <2>5. QED
    BY <2>1, <2>2, <2>3, <2>4 DEF ValidateInvoice
<1>5. ASSUME NEW issue \in TotalIssues(invoice)
      PROVE  issue = Error("total_mismatch", "total") /\ ~WholeAmounts(invoice)
  <2>1. ~(total <= 0)
    BY <1>1, <1>3 DEF Money, HalfUp, Cent
  <2>2. issue = Error("total_mismatch", "total") /\ Distance(sub + tax, total) > Cent
    BY <1>5, <2>1 DEF TotalIssues
  <2>3. ASSUME WholeAmounts(invoice) PROVE FALSE
    <3>1. sub % Cent = 0 /\ tax % Cent = 0 /\ total % Cent = 0
      BY <2>3 DEF WholeAmounts
    <3>2. s = sub /\ t = tax /\ Money(total) = total
      BY <1>1, <3>1, MoneyOfCents
    <3>3. QED
      BY <1>1, <1>3, <2>2, <3>2 DEF Distance, Cent
  <2>4. QED
    BY <2>2, <2>3
<1>6. ASSUME WholePrices(invoice)
      PROVE  /\ MappedNet(invoice) = s
             /\ 20000 * Distance(DraftTax(invoice), t) <= 10000 * Cent + s
             /\ Verified(invoice) => DraftTax(invoice) = t
             /\ ~Verified(invoice) => s > 10000 * Cent
  <2>1. MappedNet(invoice) = s
    BY <1>1, <1>6, NetIsSubtotal DEF Maps
  <2>2. DraftTax(invoice) = Money((s * TaxRate(s, t)) \div 10000)
    BY <2>1 DEF DraftTax
  <2>3. /\ DraftTax(invoice) \in Int
        /\ 20000 * Distance(DraftTax(invoice), t) <= 10000 * Cent + s
        /\ s <= 10000 * Cent => DraftTax(invoice) = t
    <3> HIDE DEF s, t
    <3>1. TaxRate(s, t) \in TaxTemplates
      BY DEF Maps, s, t
    <3>2. QED
      BY <1>2, <1>3, <2>2, <3>1, TemplateRate
  <2>4. Verified(invoice) <=> s + DraftTax(invoice) = s + t
    BY <1>3, <2>1 DEF Verified, DraftTotal
  <2>5. QED
    BY <1>2, <2>1, <2>3, <2>4 DEF Cent
<1>7. QED
  BY <1>4, <1>5, <1>6

-----------------------------------------------------------------------------
(* Readings of a PDF.                                                        *)

InvoiceFields ==
  {"vendor_name", "invoice_number", "invoice_date", "due_date", "subtotal", "tax", "total",
   "currency", "line_items"}

\* What a PDF prints, whatever its lines are: each has some numbers.
IsText(text, Lines, Numbers) ==
  text \in Seq(Seq(Lines)) /\ \A line \in Lines : line.numbers \in Seq(Numbers)

\* The place that is read is one of those that match.
LEMMA FirstPlace ==
  ASSUME NEW Lines, NEW text \in Seq(Seq(Lines)), NEW places \in SUBSET Places(text), places # {}
  PROVE  FirstOf(places) \in places
<1> DEFINE pages == {a[1] : a \in places}
<1>0. \A a \in places : a = <<a[1], a[2]>> /\ a[1] \in Nat /\ a[2] \in Nat
  BY DEF Places
<1>1. PICK p \in pages : \A q \in pages : p <= q
  BY <1>0, Smallest, ZenonT(60)
<1> DEFINE lines == {a[2] : a \in {b \in places : b[1] = p}}
<1>2. PICK l \in lines : \A k \in lines : l <= k
  BY <1>0, <1>1, Smallest, ZenonT(60)
<1>3. <<p, l>> \in places
  BY <1>0, <1>2
<1>4. \A b \in places : <<p, l>> = b \/ Before(<<p, l>>, b)
  <2> SUFFICES ASSUME NEW b \in places PROVE <<p, l>> = b \/ Before(<<p, l>>, b)
    OBVIOUS
  <2>1. p <= b[1] /\ p \in Nat
    BY <1>0, <1>1
  <2>2. p = b[1] => l <= b[2]
    BY <1>2
  <2>3. l \in Nat
    BY <1>0, <1>2
  <2>4. b = <<b[1], b[2]>> /\ b[1] \in Nat /\ b[2] \in Nat
    BY <1>0
  <2>5. QED
    BY <2>1, <2>2, <2>3, <2>4 DEF Before
<1>5. QED
  BY <1>3, <1>4 DEF FirstOf

\* An amount is read where its label is printed with one.
LEMMA MoneyPlace ==
  ASSUME NEW Lines, NEW text \in Seq(Seq(Lines)), NEW field \in {"subtotal", "tax", "total"},
         LabelledMoney(text, field) # None
  PROVE  /\ LabelledMoney(text, field) \in Places(text)
         /\ LineAt(text, LabelledMoney(text, field)).numbers # << >>
<1> DEFINE labels == MoneyLabels(field)
           found(k) == {a \in Places(text) : /\ LineAt(text, a).label = labels[k]
                                             /\ LineAt(text, a).numbers # << >>
                                             /\ Amount(text, a) # Garbled}
           printed == {k \in DOMAIN labels : found(k) # {}}
<1>1. printed # {} /\ LabelledMoney(text, field) = FirstOf(found(Min(printed)))
  BY DEF LabelledMoney
<1>2. DOMAIN labels \subseteq Nat
  BY DEF MoneyLabels
<1>3. PICK k \in printed : \A j \in printed : k <= j
  BY <1>1, <1>2, Smallest
<1>4. Min(printed) \in printed
  BY <1>3 DEF Min
<1>5. FirstOf(found(Min(printed))) \in found(Min(printed))
  BY <1>4, FirstPlace
<1>6. QED
  BY <1>1, <1>5

\* The same of a currency.
LEMMA CurrencyPlace ==
  ASSUME NEW Lines, NEW text \in Seq(Seq(Lines)), LabelledCurrency(text) # None
  PROVE  /\ LabelledCurrency(text) \in Places(text)
         /\ LineAt(text, LabelledCurrency(text)).currency # None
<1> DEFINE found == {a \in Places(text) : /\ LineAt(text, a).label = "currency"
                                          /\ LineAt(text, a).currency # None}
<1>1. found # {} /\ LabelledCurrency(text) = FirstOf(found)
  BY DEF LabelledCurrency
<1>2. FirstOf(found) \in found
  BY <1>1, FirstPlace
<1>3. QED
  BY <1>1, <1>2

\* What a reading says of the vendor, of amounts, tax and currency: the only
\* evidence of a labelled total is its line, and that of a currency a line that
\* names it.
LEMMA ReadingIs ==
  ASSUME NEW Values, NEW answer, answer.data \in [InvoiceFields -> Values], NEW text
  PROVE  LET read == GroundExtraction(answer, text)
             total == LabelledMoney(text, "total")
             currency == LabelledCurrency(text) IN
         /\ read.data.vendor_name # None => HasVendorContext(text, read.data.vendor_name)
         /\ total # None => /\ read.data.total = Amount(text, total)
                            /\ Evidence("total", total, text) \in read.evidence
                            /\ \A e \in read.evidence :
                                 e.field = "total" => e = Evidence("total", total, text)
         /\ LabelledMoney(text, "tax") = None => read.data.tax = None
         /\ currency # None => /\ read.data.currency = LineAt(text, currency).currency
                               /\ Evidence("currency", currency, text) \in read.evidence
         /\ \A e \in read.evidence : e.field = "currency" =>
              \E spot : /\ e = Evidence("currency", spot, text)
                        /\ read.data.currency = LineAt(text, spot).currency
<1> DEFINE read == GroundExtraction(answer, text)
           total == LabelledMoney(text, "total")
           currency == LabelledCurrency(text)
<1>1. total # None => read.data.total = Amount(text, total)
  BY DEF GroundExtraction, WithPrinted, InvoiceFields
<1>2. total # None => Evidence("total", total, text) \in read.evidence
  BY DEF GroundExtraction, WithPrinted
<1>3. LabelledMoney(text, "tax") = None => read.data.tax = None
  BY DEF GroundExtraction, WithPrinted, InvoiceFields
<1>4. currency # None => read.data.currency = LineAt(text, currency).currency
  BY DEF GroundExtraction, WithPrinted, InvoiceFields
<1>5. currency # None => Evidence("currency", currency, text) \in read.evidence
  BY DEF GroundExtraction, WithPrinted
<1>6. read.data.vendor_name # None => HasVendorContext(text, read.data.vendor_name)
  BY DEF GroundExtraction, WithPrinted, InvoiceFields
<1> DEFINE place == [f \in {"subtotal", "tax", "total"} |-> LabelledMoney(text, f)]
           replaced == {"tax", "currency"} \union {f \in {"subtotal", "total"} : place[f] # None}
           priced == {f \in {"subtotal", "tax", "total"} :
                        place[f] # None /\ LineAt(text, place[f]).currency # None}
           first == IF "total" \in priced THEN place["total"]
                    ELSE IF "subtotal" \in priced THEN place["subtotal"]
                    ELSE IF "tax" \in priced THEN place["tax"] ELSE None
           spot == IF LabelledCurrency(text) # None THEN LabelledCurrency(text) ELSE first
<1>7. /\ place = [f \in {"subtotal", "tax", "total"} |-> LabelledMoney(text, f)]
      /\ replaced = {"tax", "currency"} \union {f \in {"subtotal", "total"} : place[f] # None}
      /\ read.data.currency = IF spot # None THEN LineAt(text, spot).currency
                              ELSE answer.data.currency
      /\ read.evidence =
           {Grounded(e, text) : e \in {x \in answer.evidence : x.field \notin replaced}}
           \union {Evidence(f, place[f], text) : f \in {g \in DOMAIN place : place[g] # None}}
           \union (IF spot = None THEN {} ELSE {Evidence("currency", spot, text)})
  <2>1. read.data.currency = IF spot # None THEN LineAt(text, spot).currency
                             ELSE answer.data.currency
    BY DEF GroundExtraction, WithPrinted, InvoiceFields
  <2>2. read.evidence =
          {Grounded(e, text) : e \in {x \in answer.evidence : x.field \notin replaced}}
          \union {Evidence(f, place[f], text) : f \in {g \in DOMAIN place : place[g] # None}}
          \union (IF spot = None THEN {} ELSE {Evidence("currency", spot, text)})
    BY Zenon DEF GroundExtraction, WithPrinted
  <2>3. QED
    BY <2>1, <2>2
<1> HIDE DEF place, replaced, spot
<1>8. \A e : Grounded(e, text).field = e.field
  BY DEF Grounded
<1>9. \A f, a : Evidence(f, a, text).field = f
  BY DEF Evidence
<1>10. ASSUME total # None, NEW e \in read.evidence, e.field = "total"
       PROVE  e = Evidence("total", total, text)
  <2>1. "total" \in replaced /\ place["total"] = total
    BY <1>7, <1>10
  <2>2. e \notin {Grounded(x, text) : x \in {y \in answer.evidence : y.field \notin replaced}}
    BY <1>8, <1>10, <2>1
  <2>3. spot # None => e # Evidence("currency", spot, text)
    BY <1>9, <1>10
  <2>4. PICK f \in {g \in DOMAIN place : place[g] # None} : e = Evidence(f, place[f], text)
    <3>1. e \notin (IF spot = None THEN {} ELSE {Evidence("currency", spot, text)})
      BY <2>3
    <3>2. QED
      BY <1>7, <1>10, <2>2, <3>1, Zenon
  <2>5. f = "total"
    BY <1>9, <1>10, <2>4
  <2>6. QED
    BY <2>1, <2>4, <2>5
<1>11. ASSUME NEW e \in read.evidence, e.field = "currency"
       PROVE  \E a : e = Evidence("currency", a, text) /\ read.data.currency = LineAt(text, a).currency
  <2>1. "currency" \in replaced /\ "currency" \notin DOMAIN place
    BY <1>7
  <2>2. e \notin {Grounded(x, text) : x \in {y \in answer.evidence : y.field \notin replaced}}
    BY <1>8, <1>11, <2>1
  <2>3. e \notin {Evidence(f, place[f], text) : f \in {g \in DOMAIN place : place[g] # None}}
    BY <1>9, <1>11, <2>1
  <2>4. spot # None /\ e = Evidence("currency", spot, text)
    BY <1>7, <1>11, <2>2, <2>3
  <2>5. QED
    BY <1>7, <2>4
<1>12. QED
  BY <1>1, <1>2, <1>3, <1>4, <1>5, <1>6, <1>10, <1>11

\* Evidence of a place that prints the value leaves nothing missing.
LEMMA EvidenceSuffices ==
  ASSUME NEW read, NEW text, NEW field, NEW e \in read.evidence, e.field = field,
         Supports(e, read.data[field], text)
  PROVE  Error("missing_field_evidence", field) \notin UntrustedIssues(read, text, "llm_json")
BY DEF UntrustedIssues, Error

\* Without that issue, there is evidence of a field that was read.
LEMMA EvidenceNeeded ==
  ASSUME NEW read, NEW text, NEW field \in EvidenceRequired, read.data[field] # None,
         UntrustedIssues(read, text, "llm_json") = {}
  PROVE  \E e \in read.evidence : e.field = field /\ Supports(e, read.data[field], text)
BY DEF UntrustedIssues

\* Whatever the text of the PDF, the answer of the model and the invoices it is
\* compared with: in a reading without issues the vendor stands alone on a line as a
\* seller; the vendor, the number, the date, the currency and a total without a label
\* occur in the text; a labelled total is the one read, and the second reading of its
\* line finds it too; a tax that no line labels is not made up.
THEOREM EveryCleanReadingIsPrinted ==
  ASSUME NEW Values, NEW answer, answer.data \in [InvoiceFields -> Values], NEW text, NEW others
  PROVE  CleanReadingsArePrinted(answer, text, others)
<1> DEFINE read == GroundExtraction(answer, text)
           data == read.data
           line(a) == LineAt(text, a)
           total == LabelledMoney(text, "total")
<1> SUFFICES ASSUME Extracted(answer, text, others).issues = {}
             PROVE  /\ HasVendorContext(text, data.vendor_name)
                    /\ \A f \in {"vendor_name", "invoice_number"} :
                         \E a \in Places(text) : data[f] \in line(a).names
                    /\ \E a \in Places(text) : data.invoice_date \in line(a).days \union line(a).part_days
                    /\ data.currency # None =>
                         \E a \in Places(text) : line(a).currency = data.currency /\ data.currency \in line(a).names
                    /\ total # None => /\ data.total = Amount(text, total)
                                       /\ \E n \in Range(line(total).numbers) : ExcerptDecimal(n) = data.total
                    /\ total = None => \E a \in Places(text) : \E n \in InParts(line(a), "total") :
                                         ExcerptDecimal(n) = data.total
                    /\ data.tax # None => LabelledMoney(text, "tax") # None
  <2>1. Extracted(answer, text, others).data = data
    BY DEF Extracted
  <2> HIDE DEF read
  <2>2. QED
    BY <2>1, Zenon DEF CleanReadingsArePrinted
<1>1. ValidateInvoice(data) = {} /\ UntrustedIssues(read, text, "llm_json") = {}
  BY DEF Extracted, ValidateDocumentInvoice
<1>2. \A f \in CriticalFields : data[f] # None
  BY <1>1 DEF ValidateInvoice, MissingFields
<1>3. \A f \in EvidenceRequired :
        data[f] # None => \E e \in read.evidence : e.field = f /\ Supports(e, data[f], text)
  BY <1>1, EvidenceNeeded
<1>4. ASSUME NEW e, Supports(e, data[e.field], text)
      PROVE  \E a \in Places(text) :
               /\ e.shows \subseteq InParts(line(a), e.field) /\ a = <<e.page, e.line>>
               /\ e.field # "total" => data[e.field] \in InParts(line(a), e.field)
               /\ e.field = "total" => \E n \in e.shows : ExcerptDecimal(n) = data.total
  BY <1>4 DEF Supports, OnPage
<1>5. ASSUME NEW f \in {"vendor_name", "invoice_number"}
      PROVE  \E a \in Places(text) : data[f] \in line(a).names
  <2>1. PICK e \in read.evidence : e.field = f /\ Supports(e, data[f], text)
    BY <1>2, <1>3 DEF CriticalFields, EvidenceRequired
  <2>2. PICK a \in Places(text) : data[f] \in InParts(line(a), f)
    BY <1>4, <2>1
  <2>3. InParts(line(a), f) = line(a).names
    BY DEF InParts
  <2>4. QED
    BY <2>2, <2>3
<1>6. \E a \in Places(text) : data.invoice_date \in line(a).days \union line(a).part_days
  <2>1. PICK e \in read.evidence : e.field = "invoice_date" /\ Supports(e, data["invoice_date"], text)
    BY <1>2, <1>3 DEF CriticalFields, EvidenceRequired
  <2>2. PICK a \in Places(text) : data["invoice_date"] \in InParts(line(a), "invoice_date")
    BY <1>4, <2>1
  <2>3. InParts(line(a), "invoice_date") = line(a).days \union line(a).part_days
    BY DEF InParts
  <2>4. QED
    BY <2>2, <2>3
<1>7. ASSUME data.currency # None
      PROVE  \E a \in Places(text) : line(a).currency = data.currency /\ data.currency \in line(a).names
  <2>1. PICK e \in read.evidence : e.field = "currency" /\ Supports(e, data["currency"], text)
    BY <1>3, <1>7 DEF EvidenceRequired
  <2>2. PICK spot : e = Evidence("currency", spot, text) /\ data.currency = line(spot).currency
    BY <2>1, ReadingIs
  <2>3. <<e.page, e.line>> \in Places(text) /\ data["currency"] \in e.shows
    BY <2>1 DEF Supports, OnPage
  <2>4. /\ e.page = spot[1] /\ e.line = spot[2]
        /\ e.shows = InFull(LineAt(text, spot), "currency")
    BY <2>2 DEF Evidence
  <2>5. InFull(LineAt(text, spot), "currency") = LineAt(text, spot).names
    BY DEF InFull
  <2>6. LineAt(text, <<e.page, e.line>>) = LineAt(text, spot)
    BY <2>4 DEF LineAt
  <2>7. QED
    BY <2>2, <2>3, <2>4, <2>5, <2>6
<1>8. PICK e \in read.evidence : e.field = "total" /\ Supports(e, data["total"], text)
  BY <1>2, <1>3 DEF CriticalFields, EvidenceRequired
<1>9. PICK b \in Places(text) :
        e.shows \subseteq InParts(line(b), "total") /\ \E n \in e.shows : ExcerptDecimal(n) = data.total
  BY <1>4, <1>8
<1>10. ASSUME total # None
       PROVE  /\ data.total = Amount(text, total)
              /\ \E n \in Range(line(total).numbers) : ExcerptDecimal(n) = data.total
  <2>1. data.total = Amount(text, total) /\ e = Evidence("total", total, text)
    BY <1>8, <1>10, ReadingIs
  <2>2. e.shows = InFull(line(total), "total")
    BY <2>1 DEF Evidence
  <2>3. InFull(line(total), "total") = Range(line(total).numbers)
    BY DEF InFull
  <2>4. QED
    BY <1>9, <2>1, <2>2, <2>3
<1>11. /\ HasVendorContext(text, data.vendor_name)
       /\ data.tax # None => LabelledMoney(text, "tax") # None
  BY <1>2, ReadingIs DEF CriticalFields
<1>12. QED
  BY <1>5, <1>6, <1>7, <1>9, <1>10, <1>11

\* Both readings of a number are one, but for a single digit after the comma.
LEMMA ReadTwice ==
  ASSUME NEW n, ~(Range(n.marks) = {","} /\ Min(DOMAIN n.marks) = 1)
  PROVE  SourceDecimal(n) = ExcerptDecimal(n)
<1> DEFINE kinds == Range(n.marks)
           tail == Min(DOMAIN n.marks)
<1>1. (kinds = {","} /\ tail \notin {1, 2}) <=> (kinds = {","} /\ tail \notin {2})
  OBVIOUS
<1>2. QED
  BY <1>1, Zenon DEF SourceDecimal, ExcerptDecimal, DecimalOf

\* Whatever the text and the answer: a total or a currency taken from a labelled
\* line is not then reported to lack evidence, but for the two spellings that the
\* property excludes.
THEOREM EveryPrintedAmountIsEvident ==
  ASSUME NEW Lines, NEW Numbers, NEW text, IsText(text, Lines, Numbers),
         NEW Values, NEW answer, answer.data \in [InvoiceFields -> Values]
  PROVE  PrintedAmountsAreEvident(answer, text)
<1> DEFINE read == GroundExtraction(answer, text)
           issues == UntrustedIssues(read, text, "llm_json")
           total == LabelledMoney(text, "total")
           currency == LabelledCurrency(text)
           oneDigit(n) == Range(n.marks) = {","} /\ Min(DOMAIN n.marks) = 1
<1>a. total # None => /\ read.data.total = Amount(text, total)
                      /\ Evidence("total", total, text) \in read.evidence
  BY ReadingIs
<1>b. currency # None => /\ read.data.currency = LineAt(text, currency).currency
                         /\ Evidence("currency", currency, text) \in read.evidence
  BY ReadingIs
<1>1. ASSUME total # None, ~oneDigit(Last(LineAt(text, total).numbers))
      PROVE  Error("missing_field_evidence", "total") \notin issues
  <2> DEFINE numbers == LineAt(text, total).numbers
             e == Evidence("total", total, text)
  <2>1. total \in Places(text) /\ numbers # << >>
    BY <1>1, MoneyPlace, Zenon DEF IsText
  <2>2. LineAt(text, total) \in Lines
    BY <2>1 DEF IsText, Places, LineAt
  <2>3. Last(numbers) \in Range(numbers)
    BY <2>1, <2>2 DEF IsText, Last, Range
  <2>4. SourceDecimal(Last(numbers)) = ExcerptDecimal(Last(numbers))
    BY <1>1, ReadTwice
  <2>5. /\ e.field = "total" /\ e.page = total[1] /\ e.line = total[2]
        /\ e.shows = InFull(LineAt(text, total), "total")
    BY DEF Evidence
  <2>6. e.shows = Range(numbers)
    BY <2>5 DEF InFull
  <2>7. OnPage(e, text)
    <3>1. total = <<total[1], total[2]>>
      BY <2>1 DEF Places
    <3>2. \A n : n \in Cuts(n)
      BY DEF Cuts
    <3>3. Range(numbers) \subseteq InParts(LineAt(text, total), "total")
      BY <3>2 DEF InParts
    <3>4. QED
      BY <2>1, <2>5, <2>6, <3>1, <3>3 DEF OnPage
  <2>8. read.data.total \in {ExcerptDecimal(n) : n \in e.shows}
    BY <1>1, <1>a, <2>3, <2>4, <2>6, Zenon DEF Amount
  <2>9. Supports(e, read.data.total, text)
    BY <2>5, <2>7, <2>8, Zenon DEF Supports
  <2>10. QED
    BY <1>1, <1>a, <2>5, <2>9, EvidenceSuffices
<1>2. ASSUME currency # None, LineAt(text, currency).currency \in LineAt(text, currency).names
      PROVE  Error("missing_field_evidence", "currency") \notin issues
  <2> DEFINE e == Evidence("currency", currency, text)
  <2>1. currency \in Places(text)
    BY <1>2, CurrencyPlace DEF IsText
  <2>2. /\ e.field = "currency" /\ e.page = currency[1] /\ e.line = currency[2]
        /\ e.shows = InFull(LineAt(text, currency), "currency")
    BY DEF Evidence
  <2>3. /\ e.shows = LineAt(text, currency).names
        /\ InParts(LineAt(text, currency), "currency") = LineAt(text, currency).names
    BY <2>2 DEF InFull, InParts
  <2>4. OnPage(e, text)
    <3>1. currency = <<currency[1], currency[2]>>
      BY <2>1 DEF Places
    <3>2. QED
      BY <2>1, <2>2, <2>3, <3>1 DEF OnPage
  <2>5. Supports(e, read.data.currency, text)
    BY <1>2, <1>b, <2>2, <2>3, <2>4 DEF Supports
  <2>6. QED
    BY <1>2, <1>b, <2>2, <2>5, EvidenceSuffices
<1>3. QED
  BY <1>1, <1>2, Zenon DEF PrintedAmountsAreEvident

-----------------------------------------------------------------------------
(* Pages.                                                                    *)

\* In every database: what the export page offers as ready passes the checks of a
\* batch and is listed as eligible, and a document that passes them is offered, or
\* is in a draft.
THEOREM EveryReadyInvoicePasses ==
  ASSUME NEW db PROVE ReadyInvoicesPassTheBatchChecks(db)
<1> SUFFICES ASSUME NEW d \in Rows(db)
    PROVE LET checks == DocumentChecks(db, {d})
        passes == \A c \in DOMAIN checks : checks[c]
    IN /\ ExportView(db, d) = "ready" => passes /\ ListItem(db, d).export = "eligible"
       /\ passes => ExportView(db, d) \in {"ready", "drafts"}
  BY DEF ReadyInvoicesPassTheBatchChecks
<1>1. /\ DocumentChecks(db, {d}).all_approved <=> db.doc[d].status = "approved"
      /\ DocumentChecks(db, {d}).no_blockers <=> ~ExportBlocked(db, d)
      /\ DocumentChecks(db, {d}).not_exported <=> db.doc[d].status # "exported"
      /\ DocumentChecks(db, {d}).no_other_batch <=> ~Member(db, d, ActiveBatch)
  BY DEF DocumentChecks
<1>2. DOMAIN DocumentChecks(db, {d}) = {"all_approved", "no_blockers", "not_exported", "no_other_batch"}
  BY DEF DocumentChecks
<1>3. ExportView(db, d) = "ready" =>
   db.doc[d].status = "approved" /\ ~ExportBlocked(db, d) /\ ~Member(db, d, ActiveBatch)
  BY DEF ExportView
<1>4. db.doc[d].status = "approved" => ListItem(db, d).export = "eligible"
  BY DEF ListItem
<1>5. db.doc[d].status = "approved" /\ ~ExportBlocked(db, d) /\ ~Member(db, d, ActiveBatch)
   => ExportView(db, d) \in {"ready", "drafts"}
  BY DEF ExportView
<1> QED
 BY <1>1, <1>2, <1>3, <1>4, <1>5

-----------------------------------------------------------------------------
(* The instance.                                                             *)

\* The invoice that is looked at is one.
EnteredInv == about = "invoice" => IsInvoice(input) /\ DOMAIN input = InvoiceFields

\* The invoice that the amounts are entered into is one.
LEMMA CleanIs == IsInvoice(Clean) /\ DOMAIN Clean = InvoiceFields
<1>1. /\ Clean.subtotal = None /\ Clean.tax = None /\ Clean.total = 1000
      /\ Clean.invoice_date = 1 /\ Clean.due_date = None /\ Clean.line_items = << >>
      /\ DOMAIN Clean = InvoiceFields
  BY DEF Clean, NoInvoice, InvoiceFields
<1>2. DOMAIN << >> = 1..0
  OBVIOUS
<1>3. QED
  BY <1>1, <1>2 DEF IsInvoice

\* Nothing is entered yet.
LEMMA InitEntered == Init => EnteredInv
BY CleanIs DEF Init, About, EnteredInv

\* The lines that EnterDetails chooses from.
LEMMA EnteredItems ==
  ASSUME NEW items \in WorkItemLists
  PROVE  /\ \E n \in Nat : DOMAIN items = 1..n
         /\ \A k \in DOMAIN items : \A f \in {"quantity", "unit_price", "amount"} :
              items[k][f] \in Int \union {None}
<1> DEFINE IsItem(item) == \A f \in {"quantity", "unit_price", "amount"} : item[f] \in Int \union {None}
           w1 == Work(20, 500, 1000)
           w2 == Work(10, 1000, 1000)
           w3 == Work(None, 10, 0)
           w4 == Work(30, 333, 1000)
           w5 == Work(10, 505, 510)
           w6 == Work(10, 500, 500)
           w7 == Work(15, 670, 1010)
           w8 == Work(30, 66667, 200000)
           w9 == Work(10, 100000, 100000)
<1>0. \/ items = << >> \/ items = <<w1>> \/ items = <<w4>> \/ items = <<w7>>
      \/ items = <<w2, w3>> \/ items = <<w5, w6>> \/ items = <<w8, w8, w9>>
  BY DEF WorkItemLists
<1>1. /\ IsItem(w1) /\ IsItem(w2) /\ IsItem(w3) /\ IsItem(w4) /\ IsItem(w5)
      /\ IsItem(w6) /\ IsItem(w7) /\ IsItem(w8) /\ IsItem(w9)
  BY DEF Work
<1> HIDE DEF IsItem, w1, w2, w3, w4, w5, w6, w7, w8, w9
<1>2. \A x : DOMAIN <<x>> = 1..1 /\ <<x>>[1] = x
  OBVIOUS
<1>3. \A x, y : DOMAIN <<x, y>> = 1..2 /\ <<x, y>>[1] = x /\ <<x, y>>[2] = y
  OBVIOUS
<1>4. \E n \in Nat : DOMAIN items = 1..n
  <2>1. CASE items = << >>
    BY <2>1
  <2>2. CASE \E x : items = <<x>>
    BY <2>2, <1>2
  <2>3. CASE \E x, y : items = <<x, y>>
    BY <2>3, <1>3
  <2>4. CASE \E x, y, z : items = <<x, y, z>>
    <3>1. \A x, y, z : DOMAIN <<x, y, z>> = 1..3
      OBVIOUS
    <3>2. QED
      BY <2>4, <3>1
  <2>5. QED
    BY <1>0, <2>1, <2>2, <2>3, <2>4, Zenon
<1>5. \A k \in DOMAIN items : IsItem(items[k])
  <2>1. CASE items = << >>
    BY <2>1
  <2>2. ASSUME NEW x, IsItem(x), items = <<x>> PROVE \A k \in DOMAIN items : IsItem(items[k])
    BY <2>2
  <2>3. ASSUME NEW x, NEW y, IsItem(x), IsItem(y), items = <<x, y>>
        PROVE  \A k \in DOMAIN items : IsItem(items[k])
    <3>1. DOMAIN items = {1, 2} /\ items[1] = x /\ items[2] = y
      BY <2>3
    <3>2. QED
      BY <2>3, <3>1
  <2>4. ASSUME NEW x, NEW y, NEW z, IsItem(x), IsItem(y), IsItem(z), items = <<x, y, z>>
        PROVE  \A k \in DOMAIN items : IsItem(items[k])
    <3>1. DOMAIN items = {1, 2, 3} /\ items[1] = x /\ items[2] = y /\ items[3] = z
      BY <2>4
    <3>2. QED
      BY <2>4, <3>1
  <2>5. QED
    BY <1>0, <1>1, <2>1, <2>2, <2>3, <2>4, Zenon
<1>6. QED
  BY <1>4, <1>5 DEF IsItem

\* Only EnterAmounts and EnterDetails change the invoice.
LEMMA NextEntered == EnteredInv /\ [Next]_<<about, input, evaluation, gates>> => EnteredInv'
<1> SUFFICES ASSUME EnteredInv, [Next]_<<about, input, evaluation, gates>>, about' = "invoice"
             PROVE  (IsInvoice(input) /\ DOMAIN input = InvoiceFields)'
  BY DEF EnteredInv
<1>1. about = "invoice" /\ IsInvoice(input) /\ DOMAIN input = InvoiceFields
  BY DEF Next, Look, Evaluate, Enter, EnteredInv
<1>2. CASE EnterAmounts
  <2>1. PICK sub \in Subtotals, tax \in Taxes, total \in Totals :
               input' = [input EXCEPT !.subtotal = sub, !.tax = tax, !.total = total, !.due_date = 1]
    BY <1>2, Zenon DEF EnterAmounts
  <2>2. /\ input'.subtotal = sub /\ input'.tax = tax /\ input'.total = total
        /\ input'.due_date = 1 /\ input'.invoice_date = input.invoice_date
        /\ input'.line_items = input.line_items /\ DOMAIN input' = InvoiceFields
    BY <1>1, <2>1 DEF InvoiceFields
  <2>3. {sub, tax, total} \subseteq Int \union {None}
    BY DEF Subtotals, Taxes, Totals
  <2>4. QED
    BY <1>1, <2>2, <2>3 DEF IsInvoice
<1>3. CASE EnterDetails
  <2>1. PICK currency \in {None, "USD", "EUR", "INR"}, due \in {None, 1, 2}, date \in {None, 2},
             items \in WorkItemLists :
               input' = [input EXCEPT !.currency = currency, !.due_date = due,
                                      !.invoice_date = date, !.line_items = items]
    BY <1>3, Zenon DEF EnterDetails
  <2>2. /\ input'.subtotal = input.subtotal /\ input'.tax = input.tax /\ input'.total = input.total
        /\ input'.due_date = due /\ input'.invoice_date = date
        /\ input'.line_items = items /\ DOMAIN input' = InvoiceFields
    BY <1>1, <2>1 DEF InvoiceFields
  <2>3. /\ \E n \in Nat : DOMAIN items = 1..n
        /\ \A k \in DOMAIN items : \A f \in {"quantity", "unit_price", "amount"} :
             items[k][f] \in Int \union {None}
    BY EnteredItems
  <2>4. \A f \in {"subtotal", "tax", "total", "invoice_date", "due_date"} : input'[f] \in Int \union {None}
    BY <1>1, <2>2 DEF IsInvoice
  <2>5. QED
    BY <2>2, <2>3, <2>4 DEF IsInvoice
<1>4. CASE UNCHANGED input
  BY <1>1, <1>4 DEF IsInvoice
<1>5. QED
  BY <1>1, <1>2, <1>3, <1>4 DEF Next, Look, Evaluate, Enter, WriteFirst, WriteOther, WriteItems,
     WriteBatches, PrintPages, Answer, RecordRuns, RecordJob, StoreFiles, SignIn, RecordAgentRun,
     ChooseCases, ReadCase, RecordReport, NameCredentials, ChooseBackends

\* What the mapping accepts is valid, and its draft has the approved total, on the
\* invoices that TLC checks.
THEOREM DeliveriesAreSound == Spec => []SoundDeliveries
<1>1. EnteredInv => SoundDeliveries
  BY EveryDeliveryIsSound DEF EnteredInv, SoundDeliveries
<1>2. QED
  BY <1>1, InitEntered, NextEntered, PTL DEF Spec

\* What a page offers for export, the batch accepts.
THEOREM ReadyIsReady == Spec => []ReadyMeansReady
<1>1. ReadyMeansReady
  BY EveryReadyInvoicePasses DEF ReadyMeansReady
<1>2. QED
  BY <1>1, PTL

PrintedNumbers ==
  TotalNumbers \union {Number(1, 1, << >>), Number(10, 2, << >>), Number(25, 2, 1 :> ".")}
PrintedLines == SellerLines \union TotalLines \union LastLines \union {InvoiceLine, DateLine}
AnsweredValues == {answer.data[f] : answer \in Answers, f \in InvoiceFields}

\* The text that is looked at is one, and the answer has the fields of an invoice.
PrintedInv ==
  about = "text" =>
    \/ input = << >>
    \/ /\ IsText(input.text, PrintedLines, PrintedNumbers)
       /\ DOMAIN input = {"text", "answer"} => input.answer.data \in [InvoiceFields -> AnsweredValues]

\* The lines of the instance are lines.
LEMMA LinesHaveNumbers == \A line \in PrintedLines : line.numbers \in Seq(PrintedNumbers)
<1> DEFINE ok(line) == line.numbers \in Seq(PrintedNumbers)
<1>1. \A l, c, name, names, says : ok(Line(l, << >>, c, name, names, says))
  BY DEF Line
<1>2. ASSUME NEW l, NEW c, NEW name, NEW names, NEW says, NEW n \in PrintedNumbers
      PROVE  ok(Line(l, <<n>>, c, name, names, says))
  BY DEF Line
<1>3. ASSUME NEW l, NEW c, NEW name, NEW names, NEW says, NEW n \in PrintedNumbers, NEW m \in PrintedNumbers
      PROVE  ok(Line(l, <<n, m>>, c, name, names, says))
  BY DEF Line
<1>4. \A name, says : ok(Plain(name, says))
  BY <1>1 DEF Plain
<1>5. /\ Number(1, 1, << >>) \in PrintedNumbers /\ Number(10, 2, << >>) \in PrintedNumbers
      /\ Number(25, 2, 1 :> ".") \in PrintedNumbers /\ TotalNumbers \subseteq PrintedNumbers
  BY Zenon DEF PrintedNumbers
<1>6. ok(DateLine)
  BY DEF DateLine, Line
<1> HIDE DEF ok
<1>7. \A line \in SellerLines : ok(line)
  BY <1>4 DEF SellerLines
<1>8. ASSUME NEW line \in TotalLines PROVE ok(line)
  <2>1. PICK l \in {"total", "subtotal"}, n \in TotalNumbers : line = Line(l, <<n>>, None, None, {}, {})
    BY <1>8 DEF TotalLines
  <2>2. QED
    BY <1>2, <1>5, <2>1, Zenon
<1>9. \A line \in LastLines : ok(line)
  <2>1. ok(Line("tax", <<Number(1, 1, << >>)>>, None, None, {}, {}))
    BY <1>2, <1>5, Zenon
  <2>2. ok(Line("amount_due", <<Number(10, 2, << >>), Number(25, 2, 1 :> ".")>>, "EUR", None, {"EUR"}, {}))
    BY <1>3, <1>5, Zenon
  <2>3. QED
    BY <1>1, <1>4, <2>1, <2>2, Zenon DEF LastLines
<1>10. ok(InvoiceLine)
  BY <1>2, <1>5, Zenon DEF InvoiceLine
<1>11. \A line \in PrintedLines : ok(line)
  BY <1>6, <1>7, <1>8, <1>9, <1>10 DEF PrintedLines
<1>12. QED
  BY <1>11 DEF ok

\* The answers of the instance have the fields of an invoice.
LEMMA AnswersHaveFields == \A answer \in Answers : answer.data \in [InvoiceFields -> AnsweredValues]
<1> SUFFICES ASSUME NEW answer \in Answers PROVE answer.data \in [InvoiceFields -> AnsweredValues]
  OBVIOUS
<1>1. DOMAIN NoInvoice = InvoiceFields
  BY DEF NoInvoice, InvoiceFields
<1>2. PICK vendor, named, currency, dated, summed : answer = Says(vendor, named, currency, dated, summed)
  BY DEF Answers
<1>3. answer.data = [f \in InvoiceFields |-> answer.data[f]]
  BY <1>1, <1>2 DEF Says
<1>4. \A f \in InvoiceFields : answer.data[f] \in AnsweredValues
  BY DEF AnsweredValues
<1>5. QED
  BY <1>3, <1>4

\* Nothing is printed yet.
LEMMA InitPrinted == Init => PrintedInv
BY DEF Init, About, PrintedInv

\* PrintPages prints a text and Answer answers it.
LEMMA NextPrinted == PrintedInv /\ [Next]_<<about, input, evaluation, gates>> => PrintedInv'
<1> SUFFICES ASSUME PrintedInv, [Next]_<<about, input, evaluation, gates>>, about' = "text"
             PROVE  (\/ input = << >>
                     \/ /\ IsText(input.text, PrintedLines, PrintedNumbers)
                        /\ DOMAIN input = {"text", "answer"} =>
                             input.answer.data \in [InvoiceFields -> AnsweredValues])'
  BY DEF PrintedInv
<1>1. about = "text"
  BY DEF Next, Look, Evaluate, Enter
<1>2. CASE PrintPages
  <2>1. PICK x \in SellerLines, y \in TotalLines, z \in LastLines :
          input' = [text |-> <<<<x, InvoiceLine, DateLine, y>>, <<z>>>>]
    BY <1>2 DEF PrintPages
  <2>2. /\ input'.text = <<<<x, InvoiceLine, DateLine, y>>, <<z>>>>
        /\ DOMAIN input' = {"text"}
    BY <2>1
  <2>3. \A u, v, w, q, r \in PrintedLines : <<<<u, v, w, q>>, <<r>>>> \in Seq(Seq(PrintedLines))
    OBVIOUS
  <2>4. IsText(input'.text, PrintedLines, PrintedNumbers)
    BY <2>2, <2>3, LinesHaveNumbers DEF IsText, PrintedLines
  <2>5. QED
    BY <2>2, <2>4
<1>3. CASE Answer
  <2>1. PICK answer \in Answers : input' = [text |-> input.text, answer |-> answer]
    BY <1>3 DEF Answer
  <2>2. input # << >>
    BY <1>3 DEF Answer
  <2>3. IsText(input.text, PrintedLines, PrintedNumbers)
    BY <1>1, <2>2 DEF PrintedInv
  <2>4. input'.text = input.text /\ input'.answer = answer
    BY <2>1
  <2>5. QED
    BY <2>3, <2>4, AnswersHaveFields
<1>4. CASE UNCHANGED input
  BY <1>1, <1>4 DEF PrintedInv
<1>5. QED
  BY <1>1, <1>2, <1>3, <1>4 DEF Next, Look, Evaluate, Enter, WriteFirst, WriteOther, WriteItems,
     WriteBatches, EnterAmounts, EnterDetails, RecordRuns, RecordJob, StoreFiles, SignIn, RecordAgentRun,
     ChooseCases, ReadCase, RecordReport, NameCredentials, ChooseBackends

\* What a reading without issues says is found in the PDF, on the texts and answers that
\* TLC checks.
THEOREM ReadingsArePrinted == Spec => []PrintedReadings
<1>1. PrintedInv => PrintedReadings
  <2> SUFFICES ASSUME PrintedInv, Answered PROVE PrintedReadings
    BY DEF PrintedReadings
  <2>1. input # << >>
    <3>1. DOMAIN << >> # {"text", "answer"}
      OBVIOUS
    <3>2. QED
      BY <3>1 DEF Answered
  <2>2. /\ IsText(input.text, PrintedLines, PrintedNumbers)
        /\ input.answer.data \in [InvoiceFields -> AnsweredValues]
    BY <2>1 DEF PrintedInv, Answered
  <2>3. QED
    BY <2>2, EveryCleanReadingIsPrinted, EveryPrintedAmountIsEvident DEF PrintedReadings
<1>2. QED
  BY <1>1, InitPrinted, NextPrinted, PTL DEF Spec

-----------------------------------------------------------------------------
(* Settings.                                                                 *)

\* What a source gives: its values but the empty ones.
LEMMA GivenValues ==
  ASSUME NEW source
  PROVE  /\ DOMAIN Start!Given(source) = {k \in DOMAIN source : source[k] # Unset}
         /\ \A k \in DOMAIN Start!Given(source) : Start!Given(source)[k] = source[k]
BY DEF Start!Given, Start!RestrictValues, Start!Restrict

\* A setting comes from the first source that gives it.
LEMMA LoadedFrom ==
  ASSUME NEW process, NEW file, NEW key \in DOMAIN Start!Default
  PROVE  Start!Load(process, file)[key] =
           IF key \in DOMAIN process /\ process[key] # Unset THEN process[key]
           ELSE IF key \in DOMAIN file /\ file[key] # Unset THEN file[key]
           ELSE Start!Default[key]
<1> DEFINE p == Start!Given(process)
           f == Start!Given(file)
           d == Start!Default
<1>1. /\ DOMAIN p = {k \in DOMAIN process : process[k] # Unset}
      /\ \A k \in DOMAIN p : p[k] = process[k]
  BY GivenValues
<1>2. /\ DOMAIN f = {k \in DOMAIN file : file[k] # Unset}
      /\ \A k \in DOMAIN f : f[k] = file[k]
  BY GivenValues
<1>3. Start!Load(process, file) = Start!Then(p, Start!Then(f, d))
  BY DEF Start!Load
<1>4. key \in DOMAIN d
  OBVIOUS
<1> HIDE DEF p, f, d
<1>5. Start!Then(p, Start!Then(f, d))[key] =
        IF key \in DOMAIN p THEN p[key] ELSE IF key \in DOMAIN f THEN f[key] ELSE d[key]
  BY <1>4 DEF Start!Then
<1>6. QED
  BY <1>1, <1>2, <1>3, <1>5 DEF d

\* The first of three sources that names a setting.
LEMMA FirstNaming ==
  ASSUME NEW values, NEW key, DOMAIN values = 1..3
  PROVE  LET naming == {i \in 1..3 : key \in DOMAIN values[i] /\ values[i][key] # Unset}
         IN (IF naming = {} THEN Unset ELSE values[CHOOSE i \in naming : \A j \in naming : i <= j][key])
            = IF 1 \in naming THEN values[1][key] ELSE IF 2 \in naming THEN values[2][key]
              ELSE IF 3 \in naming THEN values[3][key] ELSE Unset
<1> DEFINE naming == {i \in 1..3 : key \in DOMAIN values[i] /\ values[i][key] # Unset}
           first == CHOOSE i \in naming : \A j \in naming : i <= j
<1>1. naming \subseteq {1, 2, 3}
  OBVIOUS
<1> HIDE DEF naming
<1>2. ASSUME NEW k \in naming, \A j \in naming : k <= j PROVE first = k
  <2>1. \A i \in naming : i \in Int
    BY <1>1
  <2>2. QED
    BY <1>2, <2>1
<1>3. CASE 1 \in naming
  <2>1. first = 1
    BY <1>1, <1>2, <1>3
  <2>2. QED
    BY <1>3, <2>1 DEF naming
<1>4. CASE 1 \notin naming /\ 2 \in naming
  <2>1. first = 2
    BY <1>1, <1>2, <1>4
  <2>2. QED
    BY <1>4, <2>1 DEF naming
<1>5. CASE 1 \notin naming /\ 2 \notin naming /\ 3 \in naming
  <2>1. first = 3
    BY <1>1, <1>2, <1>5
  <2>2. QED
    BY <1>5, <2>1 DEF naming
<1>6. CASE 1 \notin naming /\ 2 \notin naming /\ 3 \notin naming
  <2>1. naming = {}
    BY <1>1, <1>6
  <2>2. QED
    BY <1>6, <2>1 DEF naming
<1>7. QED
  BY <1>3, <1>4, <1>5, <1>6

\* For every environment and file: a setting has the value of the first source that
\* names it, an empty value counting as none.
THEOREM EverySettingIsLayered ==
  ASSUME NEW process, NEW file
  PROVE  Start!SettingsAreLayered(process, file)
<1> SUFFICES ASSUME NEW key \in DOMAIN Start!Default
             PROVE  LET values == <<process, file, Start!Default>>
                        naming == {i \in 1..3 : key \in DOMAIN values[i] /\ values[i][key] # Unset}
                    IN Start!Load(process, file)[key] =
                         IF naming = {} THEN Unset ELSE values[CHOOSE i \in naming : \A j \in naming : i <= j][key]
  BY DEF Start!SettingsAreLayered
<1> DEFINE d == Start!Default
           values == <<process, file, d>>
           naming == {i \in 1..3 : key \in DOMAIN values[i] /\ values[i][key] # Unset}
<1>1. Start!Load(process, file)[key] =
        IF key \in DOMAIN process /\ process[key] # Unset THEN process[key]
        ELSE IF key \in DOMAIN file /\ file[key] # Unset THEN file[key] ELSE d[key]
  BY LoadedFrom
<1>2. key \in DOMAIN d
  OBVIOUS
<1> HIDE DEF d
<1>3. DOMAIN values = 1..3 /\ values[1] = process /\ values[2] = file /\ values[3] = d
  OBVIOUS
<1> HIDE DEF values
<1>4. (IF naming = {} THEN Unset ELSE values[CHOOSE i \in naming : \A j \in naming : i <= j][key])
      = IF 1 \in naming THEN values[1][key] ELSE IF 2 \in naming THEN values[2][key]
        ELSE IF 3 \in naming THEN values[3][key] ELSE Unset
  BY <1>3, FirstNaming
<1>5. QED
  BY <1>1, <1>2, <1>3, <1>4 DEF values, d

\* With tokens the start accepts, a secret belongs to one principal.
LEMMA TokensOfStarted ==
  ASSUME NEW c, Start!TokensAllowed(c), NEW p \in Start!Configured(c), NEW role \in Start!Configured(c),
         Start!Credentials(c)[role].secret = Start!Credentials(c)[p].secret
  PROVE  role = p
BY DEF Start!TokensAllowed, Start!IsInjective, IsInjective

\* For every configuration an application starts with: a token signs in the one
\* principal it was given to and the metrics token nobody; hosted, no built-in
\* credential is in use and the rows are stored; in production uploads are scanned for
\* viruses, a public demo reads nothing outside; what is called is listed and
\* protected; and the worker starts too.
THEOREM EveryStartIsSound ==
  ASSUME NEW c
  PROVE  Start!StartedAppsAreSound(c)
<1> SUFFICES ASSUME Start!WebStarts(c) PROVE Start!StartedAppsAreSound(c)
  BY DEF Start!StartedAppsAreSound
<1>1. /\ Start!TokensAllowed(c) /\ Start!ProvidersAllowed(c) /\ Start!ScanningAllowed(c)
      /\ Start!RetentionAllowed(c) /\ Start!EgressAllowed(c) /\ Start!ContainerBuilds(c)
  BY DEF Start!WebStarts
<1>2. \A p \in Start!Configured(c) : \A role :
        Start!Matches(Start!Credentials(c)[p], role, c) <=> role = p
  <2>1. \A p \in Start!Configured(c) : Start!Credentials(c)[p] # Unset
    BY DEF Start!Configured
  <2>2. QED
    BY <1>1, <2>1, TokensOfStarted DEF Start!Matches
<1>3. DOMAIN Start!Credentials(c) = {"admin", "uploader", "reviewer", "metrics"}
  BY DEF Start!Credentials
<1>4. Start!SignIns[1] = "admin" /\ Start!SignIns[2] = "uploader" /\ Start!SignIns[3] = "reviewer"
  BY DEF Start!SignIns
<1>5. \A p \in Start!Configured(c) \ {"metrics"} : Start!Authenticate(Start!Credentials(c)[p], c) = p
  <2> TAKE p \in Start!Configured(c) \ {"metrics"}
  <2> DEFINE fits == {i \in 1..3 : Start!Matches(Start!Credentials(c)[p], Start!SignIns[i], c)}
  <2>1. fits = {i \in 1..3 : Start!SignIns[i] = p}
    BY <1>2
  <2>2. p \in {"admin", "uploader", "reviewer"}
    BY <1>3 DEF Start!Configured
  <2>3. PICK k \in 1..3 : Start!SignIns[k] = p /\ fits = {k}
    BY <1>4, <2>1, <2>2
  <2>4. Start!Authenticate(Start!Credentials(c)[p], c) =
          IF fits = {} THEN Start!Nobody ELSE Start!SignIns[CHOOSE i \in fits : \A j \in fits : i <= j]
    BY DEF Start!Authenticate
  <2> HIDE DEF fits
  <2>5. (CHOOSE i \in fits : \A j \in fits : i <= j) = k
    BY <2>3
  <2>6. QED
    BY <2>3, <2>4, <2>5
<1>6. \A p \in Start!Configured(c) \ {"metrics"} : ~Start!AuthenticateMetrics(Start!Credentials(c)[p], c)
  BY <1>2 DEF Start!AuthenticateMetrics
<1>7. Start!Authenticate(c.APP_METRICS_TOKEN, c) = Start!Nobody
  <2>1. c.APP_METRICS_TOKEN = Start!Credentials(c)["metrics"]
    BY DEF Start!Credentials
  <2>2. \A i \in 1..3 : Start!SignIns[i] # "metrics"
    BY <1>4
  <2>3. \A i \in 1..3 : ~Start!Matches(c.APP_METRICS_TOKEN, Start!SignIns[i], c)
    <3>1. CASE c.APP_METRICS_TOKEN = Unset
      BY <3>1 DEF Start!Matches
    <3>2. CASE c.APP_METRICS_TOKEN # Unset
      <4>1. "metrics" \in Start!Configured(c)
        BY <1>3, <2>1, <3>2 DEF Start!Configured
      <4>2. QED
        BY <1>2, <2>1, <2>2, <4>1
    <3>3. QED
      BY <3>1, <3>2
  <2>4. QED
    BY <2>3 DEF Start!Authenticate
<1>8. ASSUME Start!IsHosted(c)
      PROVE  /\ Start!Persistence(c).rows = "stored" /\ Start!Persistence(c).transactions
             /\ Start!Authenticate(c.APP_ADMIN_TOKEN, c) = "admin"
             /\ \A p \in Start!Configured(c) : Start!Credentials(c)[p] # Start!Default.APP_METRICS_TOKEN
  <2>1. c.STORAGE_BACKEND # "memory"
    BY <1>1, <1>8 DEF Start!ContainerBuilds, Start!PersistenceBuilds
  <2>2. Start!Persistence(c).rows = "stored" /\ Start!Persistence(c).transactions
    BY <2>1 DEF Start!Persistence
  <2>3. "admin" \in Start!Configured(c) /\ \A p \in Start!Configured(c) : Start!Credentials(c)[p].strong
    BY <1>1, <1>8 DEF Start!TokensAllowed, Start!Required
  <2>4. c.APP_ADMIN_TOKEN = Start!Credentials(c)["admin"]
    BY DEF Start!Credentials
  <2>5. Start!Authenticate(c.APP_ADMIN_TOKEN, c) = "admin"
    BY <1>5, <2>3, <2>4
  <2>6. Start!Default.APP_METRICS_TOKEN.strong = FALSE
    BY DEF Start!Default, Start!Token
  <2>7. QED
    BY <2>2, <2>3, <2>5, <2>6
<1>9. Start!IsHosted(c) /\ ~Start!IsPublicDemo(c) => Start!Scanner(c) = "clamav"
  <2> SUFFICES ASSUME c.APP_ENV \in {"prod", "production"} PROVE Start!Scanner(c) = "clamav"
    BY DEF Start!IsHosted
  <2>0. Start!ScansForViruses(c)
    BY <1>1 DEF Start!ScanningAllowed
  <2>1. c.MALWARE_SCANNER_BACKEND = "clamav" /\ c.MALWARE_SCANNING_ENABLED
    BY <2>0 DEF Start!ScansForViruses
  <2>3. QED
    BY <2>1 DEF Start!Scanner
<1>10. Start!IsPublicDemo(c) => c.PARSER_PROVIDER = "mock" /\ c.EXTRACTOR_PROVIDER = "mock"
  BY <1>1 DEF Start!ProvidersAllowed
<1>11. /\ c.PARSER_PROVIDER # "mock" => Start!Protected(c.MISTRAL_OCR_ENDPOINT)
       /\ c.EXTRACTOR_PROVIDER # "mock" => Start!Protected(c.EXTRACTOR_ENDPOINT)
       /\ c.ACCOUNTING_PROVIDER = "erpnext" => Start!Protected(c.ERPNEXT_BASE_URL)
  <2>1. c.PARSER_PROVIDER # "mock" => Start!EndpointAllowed(c.MISTRAL_OCR_ENDPOINT)
    BY <1>1 DEF Start!ContainerBuilds, Start!ParserBuilds, Start!ReaderBuilds
  <2>2. c.EXTRACTOR_PROVIDER # "mock" => Start!EndpointAllowed(c.EXTRACTOR_ENDPOINT)
    BY <1>1 DEF Start!ContainerBuilds, Start!ExtractorBuilds, Start!ReaderBuilds
  <2>3. c.ACCOUNTING_PROVIDER = "erpnext" => Start!ErpAllowed(c.ERPNEXT_BASE_URL)
    BY <1>1 DEF Start!EgressAllowed
  <2>4. QED
    BY <2>1, <2>2, <2>3 DEF Start!EndpointAllowed, Start!ErpAllowed, Start!Protected
<1>12. Start!WorkerStarts(c)
  BY <1>1 DEF Start!WorkerStarts
<1>13. QED
  BY <1>5, <1>6, <1>7, <1>8, <1>9, <1>10, <1>11, <1>12 DEF Start!StartedAppsAreSound

-----------------------------------------------------------------------------
(* The gateway.                                                              *)

\* What the settings of the gateway come to.
LEMMA GateNumbers ==
  /\ Gates!Limit \in Nat \ {0} /\ Gates!Window \in Nat \ {0} /\ Gates!Ttl \in Int
<1> DEFINE process == Credentials(GateEnv, Strong(1), Strong(2), Strong(3), Strong(4))
           file == [STORAGE_BACKEND |-> "sqlite", RATE_LIMIT_REQUESTS |-> GateRequests,
                    RATE_LIMIT_WINDOW_SECONDS |-> GateWindow, SESSION_TTL_SECONDS |-> GateTtl]
           own == {"RATE_LIMIT_REQUESTS", "RATE_LIMIT_WINDOW_SECONDS", "SESSION_TTL_SECONDS"}
<1>1. \A key \in own : key \in DOMAIN Start!Default /\ Start!Default[key] \in Int
  BY DEF Start!Default
<1>2. \A key \in own : key \in DOMAIN file /\ file[key] \in Int /\ key \notin DOMAIN process
  <2>1. file.RATE_LIMIT_REQUESTS \in Int /\ file.RATE_LIMIT_WINDOW_SECONDS \in Int /\ file.SESSION_TTL_SECONDS \in Int
    BY GateAssumption, Zenon
  <2>2. own \subseteq DOMAIN file
    OBVIOUS
  <2>3. DOMAIN process = {"APP_ENV", "APP_ADMIN_TOKEN", "APP_UPLOADER_TOKEN", "APP_REVIEWER_TOKEN", "APP_METRICS_TOKEN"}
    BY DEF Credentials
  <2> HIDE DEF file, process
  <2>4. QED
    BY <2>1, <2>2, <2>3
<1>3. Demo = Start!Load(process, file)
  BY DEF Demo
<1> HIDE DEF process, file
<1>4. \A key \in own : Demo[key] \in Int
  BY <1>1, <1>2, <1>3, LoadedFrom
<1>5. Demo.RATE_LIMIT_REQUESTS \in Int /\ Demo.RATE_LIMIT_WINDOW_SECONDS \in Int /\ Demo.SESSION_TTL_SECONDS \in Int
  BY <1>4
<1>6. QED
  BY <1>5 DEF Gates!Limit, Gates!Window, Gates!Ttl

\* h is s without its first d members.
Suffix(h, s, d) ==
  d \in 0..Len(s) /\ Len(h) = Len(s) - d /\ \A i \in 1..Len(h) : h[i] = s[i + d]

\* The limiter at time now: h is held of the times s of a client's served requests.
Within(s, now) == {i \in DOMAIN s : s[i] > now - Gates!Window}
Limited(h, s, now) ==
  /\ h \in Seq(Nat) /\ s \in Seq(Nat)
  /\ \A i, j \in DOMAIN s : i <= j => s[i] <= s[j]
  /\ \A i \in DOMAIN s : s[i] <= now
  /\ \E d : Suffix(h, s, d) /\ \A i \in 1..d : s[i] <= now - Gates!Window
  /\ Cardinality(Within(s, now)) <= Gates!Limit

\* What is left after dropping old times is exactly the times within the window.
LEMMA RecentTimes ==
  ASSUME clock \in Nat, NEW h, NEW s, Limited(h, s, clock)
  PROVE  /\ Gates!Recent(h) \in Seq(Nat)
         /\ \E e \in Nat : Suffix(Gates!Recent(h), s, e) /\ Within(s, clock) = (e + 1)..Len(s)
<1> DEFINE from == clock - Gates!Window
           kept == {i \in DOMAIN h : h[i] > from}
<1>1. from \in Int /\ h \in Seq(Nat) /\ s \in Seq(Nat)
      /\ Len(h) \in Nat /\ DOMAIN h = 1..Len(h) /\ Len(s) \in Nat /\ DOMAIN s = 1..Len(s)
      /\ (\A i \in 1..Len(s) : s[i] \in Nat) /\ (\A i \in 1..Len(h) : h[i] \in Nat)
  BY GateNumbers DEF Limited
<1>2. PICK d : Suffix(h, s, d) /\ \A i \in 1..d : s[i] <= from
  BY DEF Limited
<1>3. \A i, j \in 1..Len(s) : i <= j => s[i] <= s[j]
  BY <1>1 DEF Limited
<1>4. d \in Nat /\ d <= Len(s) /\ Len(h) = Len(s) - d /\ \A i \in 1..Len(h) : h[i] = s[i + d]
  BY <1>1, <1>2 DEF Suffix
<1>0. /\ d \in Nat /\ Len(h) \in Nat /\ Len(s) \in Nat
      /\ d <= Len(s) /\ Len(h) = Len(s) - d
  BY <1>1, <1>4
<1>5. Gates!Recent(h) = IF kept = {} THEN << >> ELSE SubSeq(h, Gates!Min(kept), Len(h))
  BY DEF Gates!Recent
<1>6. Within(s, clock) = {i \in 1..Len(s) : s[i] > from}
  BY <1>1 DEF Within
<1> HIDE DEF from
<1>7. CASE kept = {}
  <2>1. Gates!Recent(h) = << >>
    BY <1>5, <1>7
  <2>2. \A i \in 1..Len(s) : ~(s[i] > from)
    <3> TAKE i \in 1..Len(s)
    <3>1. CASE i <= d
      <4>1. i \in 1..d /\ s[i] \in Nat
        BY <1>1, <1>4, <3>1
      <4>2. QED
        BY <1>1, <1>2, <4>1
    <3>2. CASE ~(i <= d)
      <4> DEFINE k == i - d
      <4>1. k \in 1..Len(h) /\ k + d = i
        BY <1>1, <1>4, <3>2
      <4> HIDE DEF k
      <4>2. k \in DOMAIN h /\ h[k] = s[i]
        BY <1>1, <1>4, <4>1
      <4>3. QED
        BY <1>7, <4>2
    <3>3. QED
      BY <3>1, <3>2
  <2>3. Within(s, clock) = {}
    BY <1>6, <2>2
  <2>4. Suffix(<< >>, s, Len(s)) /\ (Len(s) + 1)..Len(s) = {} /\ << >> \in Seq(Nat)
    BY <1>1 DEF Suffix
  <2>5. QED
    BY <1>1, <2>1, <2>3, <2>4
<1>8. CASE kept # {}
  <2>1. PICK m \in kept : \A k \in kept : m <= k
    <3>1. kept \in SUBSET Nat
      BY <1>1
    <3> HIDE DEF kept
    <3>2. QED
      BY <1>8, <3>1, Smallest
  <2>2. m \in 1..Len(h) /\ h[m] > from
    BY <1>1, <2>1
  <2>0. m \in Nat /\ 1 <= m /\ m <= Len(h)
    BY <1>0, <2>2
  <2>3. Gates!Min(kept) = m
    <3>1. \A x \in kept : x \in Nat
      BY <1>1
    <3> HIDE DEF kept
    <3>2. QED
      BY <2>1, <3>1 DEF Gates!Min
  <2>4. Gates!Recent(h) = SubSeq(h, m, Len(h))
    <3> HIDE DEF kept
    <3>1. QED
      BY <1>5, <1>8, <2>3
  <2> DEFINE r == SubSeq(h, m, Len(h))
             e == d + m - 1
  <2>5. r \in Seq(Nat) /\ Len(r) = Len(h) - m + 1 /\ \A i \in 1..Len(r) : r[i] = h[i + m - 1]
    <3> HIDE DEF kept
    <3>0. m \in Int /\ Len(h) \in Int /\ \A i \in m..Len(h) : i \in 1..Len(h)
      BY <1>0, <2>0
    <3>1. \A i \in m..Len(h) : h[i] \in Nat
      BY <1>1, <3>0
    <3>2. /\ r \in Seq(Nat)
          /\ Len(r) = IF m <= Len(h) THEN Len(h) - m + 1 ELSE 0
          /\ \A i \in 1..Len(h) - m + 1 : r[i] = h[m + i - 1]
      BY <3>0, <3>1, SubSeqProperties
    <3>3. QED
      BY <1>0, <2>0, <3>2
  <2>6. e \in Nat /\ e \in 0..Len(s) /\ Len(r) = Len(s) - e
    <3>1. Len(r) = Len(h) - m + 1
      BY <2>5
    <3> HIDE DEF r
    <3>2. QED
      BY <1>0, <2>0, <3>1
  <2>7. \A i \in 1..Len(r) : r[i] = s[i + e]
    <3> TAKE i \in 1..Len(r)
    <3> HIDE DEF r
    <3>0. Len(r) = Len(h) - m + 1
      BY <2>5
    <3>1. i + m - 1 \in 1..Len(h) /\ (i + m - 1) + d = i + e
      BY <1>0, <2>0, <3>0
    <3> HIDE DEF e
    <3>2. QED
      BY <1>4, <2>5, <3>1
  <2>8. \A i \in 1..Len(s) : s[i] > from <=> i \in (e + 1)..Len(s)
    <3> TAKE i \in 1..Len(s)
    <3>1. CASE i <= d
      <4>1. i \in 1..d /\ i \notin (e + 1)..Len(s)
        BY <1>0, <2>0, <3>1
      <4>2. s[i] \in Nat
        BY <1>1
      <4> HIDE DEF e
      <4>3. QED
        BY <1>1, <1>2, <4>1, <4>2
    <3>2. CASE ~(i <= d)
      <4> DEFINE k == i - d
      <4>1. k \in 1..Len(h) /\ k + d = i /\ k \in Nat /\ (i \in (e + 1)..Len(s) <=> m <= k)
        BY <1>0, <2>0, <3>2
      <4>2. m + d \in 1..Len(s) /\ h[m] = s[m + d] /\ (m <= k => m + d <= i)
        <5> HIDE DEF k, kept
        <5>1. m + d \in 1..Len(s) /\ (m <= k => m + d <= i)
          BY <1>0, <2>0, <4>1
        <5>2. h[m] = s[m + d]
          BY <1>4, <2>2
        <5>3. QED
          BY <5>1, <5>2
      <4> HIDE DEF k, e
      <4>3. k \in DOMAIN h /\ h[k] = s[i]
        BY <1>1, <1>4, <4>1
      <4>4. s[i] > from => m <= k
        BY <2>1, <4>3
      <4>5. m <= k => s[m + d] <= s[i]
        BY <1>3, <4>2
      <4>6. s[m + d] \in Nat /\ s[i] \in Nat
        BY <1>1, <4>2
      <4>7. m <= k => s[i] > from
        BY <1>1, <2>2, <4>2, <4>5, <4>6
      <4>8. QED
        BY <4>1, <4>4, <4>7
    <3>3. QED
      BY <3>1, <3>2
  <2>9. Within(s, clock) = (e + 1)..Len(s)
    <3>1. (e + 1)..Len(s) \subseteq 1..Len(s)
      BY <1>1, <2>6
    <3> HIDE DEF e
    <3>2. QED
      BY <1>6, <2>8, <3>1
  <2>10. Suffix(r, s, e)
    BY <2>6, <2>7 DEF Suffix
  <2>11. QED
    <3> HIDE DEF r, e
    <3>1. Gates!Recent(h) = r
      BY <2>4 DEF r
    <3>2. QED
      BY <2>5, <2>6, <2>9, <2>10, <3>1
<1>9. QED
  BY <1>7, <1>8

\* A count of an interval.
LEMMA IntervalCount ==
  ASSUME NEW e \in Nat, NEW n \in Nat, e <= n
  PROVE  Cardinality((e + 1)..n) = n - e
<1>1. e + 1 \in Int /\ n \in Int /\ (e + 1 > n => n - e = 0) /\ n - (e + 1) + 1 = n - e
  OBVIOUS
<1>2. QED
  BY <1>1, FS_Interval

\* A client that is turned away was served as often as the limit allows,
LEMMA TurnedAway ==
  ASSUME clock \in Nat, NEW h, NEW s, Limited(h, s, clock)
  PROVE  /\ Limited(Gates!Recent(h), s, clock)
         /\ Len(Gates!Recent(h)) = Cardinality(Within(s, clock))
<1> DEFINE r == Gates!Recent(h)
<1>1. r \in Seq(Nat)
  BY RecentTimes
<1>2. PICK e \in Nat : Suffix(r, s, e) /\ Within(s, clock) = (e + 1)..Len(s)
  BY RecentTimes
<1> HIDE DEF r
<1>3. Len(s) \in Nat /\ DOMAIN s = 1..Len(s) /\ \A i \in 1..Len(s) : s[i] \in Nat
  BY DEF Limited
<1>4. e <= Len(s) /\ Len(r) = Len(s) - e
  BY <1>2, <1>3 DEF Suffix
<1>5. Len(r) = Cardinality(Within(s, clock))
  BY <1>2, <1>3, <1>4, IntervalCount
<1>6. \A i \in 1..e : s[i] <= clock - Gates!Window
  <2> TAKE i \in 1..e
  <2>1. i \in 1..Len(s) /\ i \notin (e + 1)..Len(s)
    BY <1>3, <1>4
  <2>2. ~(s[i] > clock - Gates!Window)
    BY <1>2, <1>3, <2>1 DEF Within
  <2>3. s[i] \in Nat /\ clock - Gates!Window \in Int
    BY <1>3, <2>1, GateNumbers
  <2>4. QED
    BY <2>2, <2>3
<1>7. Limited(r, s, clock)
  BY <1>1, <1>2, <1>6 DEF Limited
<1>8. QED
  BY <1>5, <1>7 DEF r

\* one that is let through is served no more often,
LEMMA LetThrough ==
  ASSUME clock \in Nat, NEW h, NEW s, Limited(h, s, clock), Len(Gates!Recent(h)) < Gates!Limit
  PROVE  Limited(Append(Gates!Recent(h), clock), Append(s, clock), clock)
<1> DEFINE r == Gates!Recent(h)
           q == Append(r, clock)
           t == Append(s, clock)
<1>1. r \in Seq(Nat) /\ s \in Seq(Nat) /\ Limited(r, s, clock)
  BY RecentTimes, TurnedAway DEF Limited
<1>2. PICK e \in Nat : Suffix(r, s, e) /\ Within(s, clock) = (e + 1)..Len(s)
  BY RecentTimes
<1>0. Len(r) < Gates!Limit
  OBVIOUS
<1> HIDE DEF r
<1>3. Len(s) \in Nat /\ DOMAIN s = 1..Len(s) /\ (\A i \in 1..Len(s) : s[i] \in Nat) /\ Len(r) \in Nat
  BY <1>1
<1>4. e <= Len(s) /\ Len(r) = Len(s) - e
  BY <1>2, <1>3 DEF Suffix
<1>5. /\ q \in Seq(Nat) /\ Len(q) = Len(r) + 1
      /\ (\A i \in 1..Len(r) : q[i] = r[i]) /\ q[Len(r) + 1] = clock
  BY <1>1, AppendProperties
<1>6. /\ t \in Seq(Nat) /\ Len(t) = Len(s) + 1 /\ DOMAIN t = 1..Len(t)
      /\ (\A i \in 1..Len(s) : t[i] = s[i]) /\ t[Len(s) + 1] = clock
  BY <1>1, AppendProperties
<1> HIDE DEF q, t
<1>7. \A i \in DOMAIN t : t[i] \in Nat /\ t[i] <= clock /\ (i \in 1..Len(s) \/ i = Len(s) + 1)
  <2> TAKE i \in DOMAIN t
  <2>1. i \in 1..Len(s) \/ i = Len(s) + 1
    BY <1>3, <1>6
  <2>2. CASE i \in 1..Len(s)
    <3>1. t[i] = s[i] /\ s[i] <= clock /\ s[i] \in Nat
      BY <1>3, <1>6, <2>2 DEF Limited
    <3>2. QED
      BY <2>2, <3>1
  <2>3. QED
    BY <1>6, <2>1, <2>2
<1>8. \A i, j \in DOMAIN t : i <= j => t[i] <= t[j]
  <2> SUFFICES ASSUME NEW i \in DOMAIN t, NEW j \in DOMAIN t, i <= j PROVE t[i] <= t[j]
    OBVIOUS
  <2>1. CASE j = Len(s) + 1
    BY <1>6, <1>7, <2>1
  <2>2. CASE j \in 1..Len(s)
    <3>1. i \in 1..Len(s)
      BY <1>3, <1>7, <2>2
    <3>2. s[i] <= s[j]
      BY <1>3, <2>2, <3>1 DEF Limited
    <3>3. QED
      BY <1>6, <2>2, <3>1, <3>2
  <2>3. QED
    BY <1>7, <2>1, <2>2
<1>9. Suffix(q, t, e)
  <2>1. e \in 0..Len(t) /\ Len(q) = Len(t) - e
    BY <1>3, <1>4, <1>5, <1>6
  <2>2. \A i \in 1..Len(q) : q[i] = t[i + e]
    <3> TAKE i \in 1..Len(q)
    <3>1. CASE i = Len(r) + 1
      <4>1. i + e = Len(s) + 1
        BY <1>3, <1>4, <3>1
      <4>2. QED
        BY <1>5, <1>6, <3>1, <4>1
    <3>2. CASE i \in 1..Len(r)
      <4>1. i + e \in 1..Len(s)
        BY <1>3, <1>4, <3>2
      <4>2. r[i] = s[i + e]
        BY <1>2, <3>2 DEF Suffix
      <4>3. QED
        BY <1>5, <1>6, <3>2, <4>1, <4>2
    <3>3. QED
      BY <1>3, <1>5, <3>1, <3>2
  <2>3. QED
    BY <2>1, <2>2 DEF Suffix
<1>10. \A i \in 1..Len(s) : s[i] > clock - Gates!Window <=> i \in (e + 1)..Len(s)
  BY <1>2, <1>3 DEF Within
<1>11. \A i \in 1..e : t[i] <= clock - Gates!Window
  <2> TAKE i \in 1..e
  <2>1. i \in 1..Len(s) /\ i \notin (e + 1)..Len(s)
    BY <1>3, <1>4
  <2>2. s[i] \in Nat /\ clock - Gates!Window \in Int /\ t[i] = s[i]
    BY <1>3, <1>6, <2>1, GateNumbers
  <2>3. QED
    BY <1>10, <2>1, <2>2
<1>12. Within(t, clock) = (e + 1)..Len(t)
  <2>1. clock > clock - Gates!Window
    BY GateNumbers
  <2>2. \A i \in DOMAIN t : t[i] > clock - Gates!Window <=> i \in (e + 1)..Len(t)
    <3> TAKE i \in DOMAIN t
    <3>1. CASE i = Len(s) + 1
      <4>1. i \in (e + 1)..Len(t)
        BY <1>3, <1>4, <1>6, <3>1
      <4>2. QED
        BY <1>6, <2>1, <3>1, <4>1
    <3>2. CASE i \in 1..Len(s)
      <4>1. i \in (e + 1)..Len(t) <=> i \in (e + 1)..Len(s)
        BY <1>3, <1>4, <1>6, <3>2
      <4>2. QED
        BY <1>6, <1>10, <3>2, <4>1
    <3>3. QED
      BY <1>7, <3>1, <3>2
  <2>3. (e + 1)..Len(t) \subseteq DOMAIN t
    BY <1>3, <1>6
  <2>4. QED
    BY <2>2, <2>3 DEF Within
<1>13. Cardinality(Within(t, clock)) <= Gates!Limit
  <2>1. Len(t) \in Nat /\ e <= Len(t) /\ Len(t) - e = Len(r) + 1
    BY <1>3, <1>4, <1>6
  <2>2. Cardinality(Within(t, clock)) = Len(r) + 1
    BY <1>12, <2>1, IntervalCount
  <2>3. QED
    BY <1>0, <1>3, <2>2, GateNumbers
<1>14. Limited(q, t, clock)
  BY <1>5, <1>6, <1>7, <1>8, <1>9, <1>11, <1>13 DEF Limited
<1>15. QED
  BY <1>14 DEF q, t, r

\* and later the window holds less.
LEMMA TimePasses ==
  ASSUME NEW now \in Nat, NEW h, NEW s, Limited(h, s, now)
  PROVE  Limited(h, s, now + 1)
<1>1. /\ h \in Seq(Nat) /\ s \in Seq(Nat) /\ Len(s) \in Nat /\ DOMAIN s = 1..Len(s)
      /\ now - Gates!Window \in Int /\ (now + 1) - Gates!Window \in Int
      /\ now - Gates!Window <= (now + 1) - Gates!Window
  BY GateNumbers DEF Limited
<1>2. \A i \in DOMAIN s : s[i] \in Nat /\ s[i] <= now
  BY <1>1 DEF Limited
<1>3. Within(s, now + 1) \subseteq Within(s, now)
  BY <1>1, <1>2 DEF Within
<1>4. IsFiniteSet(Within(s, now))
  <2>1. IsFiniteSet(1..Len(s)) /\ Within(s, now) \in SUBSET (1..Len(s))
    BY <1>1, FS_Interval DEF Within
  <2>2. QED
    BY <2>1, FS_Subset
<1>5. Cardinality(Within(s, now + 1)) <= Gates!Limit
  <2>1. /\ Cardinality(Within(s, now + 1)) <= Cardinality(Within(s, now))
        /\ Cardinality(Within(s, now)) \in Nat /\ Cardinality(Within(s, now + 1)) \in Nat
    BY <1>3, <1>4, FS_Subset, FS_CardinalityType
  <2>2. Cardinality(Within(s, now)) <= Gates!Limit
    BY DEF Limited
  <2>3. QED
    BY <2>1, <2>2, GateNumbers
<1>6. PICK d : Suffix(h, s, d) /\ \A i \in 1..d : s[i] <= now - Gates!Window
  BY DEF Limited
<1>7. \A i \in 1..d : s[i] <= (now + 1) - Gates!Window
  <2> TAKE i \in 1..d
  <2>1. i \in DOMAIN s
    BY <1>1, <1>6 DEF Suffix
  <2>2. QED
    BY <1>1, <1>2, <1>6, <2>1
<1>8. \A i \in DOMAIN s : s[i] <= now + 1
  BY <1>2
<1>9. QED
  BY <1>1, <1>5, <1>6, <1>7, <1>8 DEF Limited

\* The principals that a session may be for.
LEMMA AuthenticatedIsPrincipal ==
  ASSUME NEW token
  PROVE  LET role == Gates!Authenticate(token, Demo) IN
         /\ role # Gates!Nobody => role \in Gates!Role /\ Gates!Matches(token, role, Demo)
         /\ role = Gates!Nobody => \A r \in Gates!Role : ~Gates!Matches(token, r, Demo)
<1> DEFINE fits == {i \in 1..3 : Gates!Matches(token, Gates!SignIns[i], Demo)}
<1>1. Gates!SignIns[1] = "admin" /\ Gates!SignIns[2] = "uploader" /\ Gates!SignIns[3] = "reviewer"
  BY DEF Gates!SignIns
<1>2. Gates!Authenticate(token, Demo) =
        IF fits = {} THEN Gates!Nobody ELSE Gates!SignIns[CHOOSE i \in fits : \A j \in fits : i <= j]
  BY DEF Gates!Authenticate
<1>3. Gates!Role = {"admin", "uploader", "reviewer"} /\ Gates!Nobody = "nobody"
  BY DEF Gates!Role, Gates!Nobody
<1>4. \A i \in 1..3 : Gates!SignIns[i] \in Gates!Role /\ Gates!SignIns[i] # Gates!Nobody
  BY <1>1, <1>3
<1>5. CASE fits = {}
  <2>1. \A r \in Gates!Role : \E i \in 1..3 : Gates!SignIns[i] = r
    BY <1>1, <1>3
  <2>2. Gates!Authenticate(token, Demo) = Gates!Nobody
    BY <1>2, <1>5
  <2>3. \A r \in Gates!Role : ~Gates!Matches(token, r, Demo)
    BY <1>5, <2>1
  <2>4. QED
    BY <2>2, <2>3
<1>6. CASE fits # {}
  <2>1. PICK k \in fits : \A j \in fits : k <= j
    <3>1. fits \in SUBSET Nat
      OBVIOUS
    <3> HIDE DEF fits
    <3>2. QED
      BY <1>6, <3>1, Smallest
  <2> DEFINE first == CHOOSE i \in fits : \A j \in fits : i <= j
  <2>2. first \in fits
    BY <2>1
  <2>3. Gates!Authenticate(token, Demo) = Gates!SignIns[first]
    BY <1>2, <1>6
  <2>4. first \in 1..3 /\ Gates!Matches(token, Gates!SignIns[first], Demo)
    BY <2>2
  <2> HIDE DEF first
  <2>5. QED
    BY <1>4, <2>3, <2>4
<1>7. QED
  BY <1>5, <1>6

\* The limiter follows what each client was served.
LimiterInv ==
  /\ clock \in Nat
  /\ hits = [c \in Client |-> hits[c]] /\ served = [c \in Client |-> served[c]]
  /\ \A c \in Client : Limited(hits[c], served[c], clock)

IssueRow == [role : Gates!Role \union {Gates!Nobody}, at : Nat, over : BOOLEAN]

\* The store holds what was issued and not ended, at least while its time runs.
SessionsInv ==
  /\ issued \in [Cookie -> IssueRow]
  /\ DOMAIN sessions \subseteq Cookie
  /\ \A k \in DOMAIN sessions :
       /\ sessions[k].role = issued[k].role /\ sessions[k].expires = issued[k].at + Gates!Ttl
       /\ issued[k].role \in Gates!Role /\ ~issued[k].over
  /\ \A k \in Cookie : ~issued[k].over /\ clock < issued[k].at + Gates!Ttl => k \in DOMAIN sessions

\* What the last answer says is so.
ReplyInv ==
  /\ reply.kind = "too many" => Gates!ServedWithin(reply.client, clock - Gates!Window) = Gates!Limit
  /\ reply.kind = "done" =>
       /\ reply.role \in reply.allowed
       /\ \/ Gates!InForce(reply.cookie, reply.role)
          \/ /\ ~\E role \in Gates!Role : Gates!InForce(reply.cookie, role)
             /\ Gates!Matches(reply.token, reply.role, Demo)
  /\ reply.kind = "unauthorized" =>
       \A role \in Gates!Role : ~Gates!InForce(reply.cookie, role) /\ ~Gates!Matches(reply.token, role, Demo)

GateInv == LimiterInv /\ SessionsInv /\ ReplyInv

\* A client without requests.
LEMMA NothingServed ==
  ASSUME NEW now \in Nat
  PROVE  Limited(<< >>, << >>, now)
<1>1. << >> \in Seq(Nat) /\ Len(<< >>) = 0 /\ DOMAIN << >> = {} /\ Suffix(<< >>, << >>, 0)
  BY DEF Suffix
<1>2. Within(<< >>, now) = {}
  BY DEF Within
<1>3. Cardinality(Within(<< >>, now)) <= Gates!Limit
  BY <1>2, FS_EmptySet, GateNumbers
<1>4. \A i \in 1..0 : << >>[i] <= now - Gates!Window
  OBVIOUS
<1>5. QED
  BY <1>1, <1>3, <1>4 DEF Limited

\* The gateway starts in the invariant.
LEMMA GateStart == Gates!Init => GateInv
<1> SUFFICES ASSUME Gates!Init PROVE GateInv
  OBVIOUS
<1>1. clock = 0 /\ reply = Gates!Quiet
      /\ hits = [c \in Client |-> << >>] /\ served = [c \in Client |-> << >>]
      /\ sessions = << >> /\ issued = [k \in Cookie |-> Gates!Never]
  BY DEF Gates!Init
<1>2. Limited(<< >>, << >>, 0)
  BY NothingServed
<1>3. LimiterInv
  BY <1>1, <1>2 DEF LimiterInv
<1>4. Gates!Never \in IssueRow /\ Gates!Never.over
  BY DEF IssueRow, Gates!Never
<1>5. DOMAIN sessions = {}
  BY <1>1
<1>6. SessionsInv
  BY <1>1, <1>4, <1>5 DEF SessionsInv
<1>7. ReplyInv
  BY <1>1 DEF ReplyInv, Gates!Quiet
<1>8. QED
  BY <1>3, <1>6, <1>7 DEF GateInv

\* The instance of Gateway counts as every module does, and its window is that of Within.
LEMMA ServedCount ==
  ASSUME NEW c
  PROVE  Gates!ServedWithin(c, clock - Gates!Window) = Cardinality(Within(served[c], clock))
<1>1. \A S : Gates!Cardinality(S) = Cardinality(S)
  BY DEF Gates!Cardinality, Cardinality, Gates!ExistsBijection, ExistsBijection,
         Gates!Bijection, Bijection, Gates!Injection, Injection, Gates!Surjection, Surjection,
         Gates!IsInjective, IsInjective
<1>2. QED
  BY <1>1 DEF Gates!ServedWithin, Within

\* The invariant says who the callers are.
LEMMA GateSays == GateInv => Gates!CallersAreKnown
<1> SUFFICES ASSUME GateInv PROVE Gates!CallersAreKnown
  OBVIOUS
<1>1. \A c \in Client : Gates!ServedWithin(c, clock - Gates!Window) <= Gates!Limit
  BY ServedCount DEF GateInv, LimiterInv, Limited
<1>2. \A k \in Cookie : ~issued[k].over /\ clock < issued[k].at + Gates!Ttl =>
        k \in DOMAIN sessions /\ sessions[k].role = issued[k].role
  BY DEF GateInv, SessionsInv
<1>3. QED
  BY <1>1, <1>2, Zenon DEF GateInv, ReplyInv, Gates!CallersAreKnown

\* A request that is counted keeps the limiter right;
LEMMA CountKeeps ==
  ASSUME LimiterInv, NEW client \in Client, Gates!Count(client), clock' = clock
  PROVE  LimiterInv'
<1> DEFINE h == Append(Gates!Recent(hits[client]), clock)
           s == Append(served[client], clock)
<1>1. /\ Len(Gates!Recent(hits[client])) < Gates!Limit
      /\ hits' = [hits EXCEPT ![client] = h] /\ served' = [served EXCEPT ![client] = s]
  BY DEF Gates!Count
<1>2. Limited(h, s, clock)
  BY <1>1, LetThrough DEF LimiterInv
<1> HIDE DEF h, s
<1>3. /\ hits' = [c \in Client |-> IF c = client THEN h ELSE hits[c]]
      /\ served' = [c \in Client |-> IF c = client THEN s ELSE served[c]]
  BY <1>1 DEF LimiterInv
<1>4. \A c \in Client : Limited(hits'[c], served'[c], clock)
  BY <1>2, <1>3 DEF LimiterInv
<1>5. clock' \in Nat /\ \A c \in Client : Limited(hits'[c], served'[c], clock')
  BY <1>4 DEF LimiterInv
<1>6. QED
  BY <1>3, <1>5 DEF LimiterInv

\* one that is turned away shows the limit.
LEMMA TooManyKeeps ==
  ASSUME GateInv, NEW client \in Client, Gates!TooMany(client)
  PROVE  GateInv'
<1> DEFINE h == Gates!Recent(hits[client])
<1>0. LimiterInv /\ SessionsInv
  BY DEF GateInv
<1>1. /\ Len(h) >= Gates!Limit /\ hits' = [hits EXCEPT ![client] = h]
      /\ reply' = [kind |-> "too many", client |-> client]
      /\ UNCHANGED <<clock, sessions, served, issued>>
  BY Zenon DEF Gates!TooMany
<1>2. Limited(hits[client], served[client], clock) /\ clock \in Nat
  BY <1>0 DEF LimiterInv
<1>3. Limited(h, served[client], clock) /\ Len(h) = Cardinality(Within(served[client], clock))
  BY <1>2, TurnedAway
<1>4. Cardinality(Within(served[client], clock)) <= Gates!Limit
  BY <1>2 DEF Limited
<1>5. Len(h) \in Nat
  BY <1>3 DEF Limited
<1>6. Cardinality(Within(served[client], clock)) = Gates!Limit
  <2> DEFINE n == Cardinality(Within(served[client], clock))
  <2>1. n \in Nat /\ n >= Gates!Limit /\ n <= Gates!Limit
    BY <1>1, <1>3, <1>4, <1>5, Zenon
  <2> HIDE DEF n
  <2>2. n = Gates!Limit
    BY <2>1, GateNumbers
  <2>3. QED
    BY <2>2 DEF n
<1> HIDE DEF h
<1>7. hits' = [c \in Client |-> IF c = client THEN h ELSE hits[c]]
  BY <1>0, <1>1, Zenon DEF LimiterInv
<1>8. \A c \in Client : Limited(hits'[c], served[c], clock)
  BY <1>0, <1>3, <1>7 DEF LimiterInv
<1>9. LimiterInv'
  BY <1>0, <1>1, <1>7, <1>8, Zenon DEF LimiterInv, Limited, Within
<1>10. SessionsInv'
  BY <1>0, <1>1, Zenon DEF SessionsInv
<1>11. Gates!ServedWithin(client, clock - Gates!Window) = Gates!Limit
  BY <1>6, ServedCount
<1>12. Gates!ServedWithin(client, clock - Gates!Window)' = Gates!ServedWithin(client, clock - Gates!Window)
  BY <1>1, Zenon DEF Gates!ServedWithin
<1>13. ReplyInv'
  <2>1. reply'.kind = "too many" /\ reply'.client = client
    BY <1>1, Zenon
  <2>2. QED
    BY <1>1, <1>11, <1>12, <2>1, Zenon DEF ReplyInv
<1>14. QED
  BY <1>9, <1>10, <1>13 DEF GateInv

\* A sign-in adds a session of an issued cookie, or is refused with a token of nobody.
LEMMA SignInKeeps ==
  ASSUME GateInv, NEW client \in Client, NEW token, Gates!SignIn(client, token)
  PROVE  GateInv'
<1> DEFINE role == Gates!Authenticate(token, Demo)
<1>0. LimiterInv /\ SessionsInv /\ clock \in Nat
  BY DEF GateInv, LimiterInv
<1>1. Gates!Count(client) /\ clock' = clock
  BY Zenon DEF Gates!SignIn
<1>2. LimiterInv'
  BY <1>0, <1>1, CountKeeps
<1>3. role # Gates!Nobody => role \in Gates!Role
  BY AuthenticatedIsPrincipal
<1>4. role = Gates!Nobody => \A r \in Gates!Role : ~Gates!Matches(token, r, Demo)
  BY AuthenticatedIsPrincipal
<1>5. CASE /\ role = Gates!Nobody /\ UNCHANGED <<sessions, issued>>
           /\ reply' = [kind |-> "unauthorized", cookie |-> Gates!NoCookie, token |-> token]
  <2>1. SessionsInv'
    BY <1>0, <1>1, <1>5 DEF SessionsInv
  <2>2. Gates!NoCookie \notin Cookie
    BY GateAssumption, Zenon DEF Gates!NoCookie
  <2>3. reply'.kind = "unauthorized" /\ reply'.cookie = Gates!NoCookie /\ reply'.token = token
    BY <1>5
  <2>4. ReplyInv'
    BY <1>4, <1>5, <2>2, <2>3 DEF ReplyInv, Gates!InForce
  <2>5. QED
    BY <1>2, <2>1, <2>4 DEF GateInv
<1>6. CASE /\ role # Gates!Nobody /\ reply' = [kind |-> "signed in"]
           /\ \E cookie \in Cookie :
                /\ issued[cookie] = Gates!Never
                /\ sessions' = [k \in DOMAIN sessions \union {cookie} |->
                                IF k = cookie THEN [role |-> role, expires |-> clock + Gates!Ttl] ELSE sessions[k]]
                /\ issued' = [issued EXCEPT ![cookie] = [role |-> role, at |-> clock, over |-> FALSE]]
  <2>1. PICK cookie \in Cookie :
           /\ sessions' = [k \in DOMAIN sessions \union {cookie} |->
                           IF k = cookie THEN [role |-> role, expires |-> clock + Gates!Ttl] ELSE sessions[k]]
           /\ issued' = [issued EXCEPT ![cookie] = [role |-> role, at |-> clock, over |-> FALSE]]
    BY <1>6, Zenon
  <2> HIDE DEF role
  <2> DEFINE new == [role |-> role, at |-> clock, over |-> FALSE]
  <2>2. new \in IssueRow /\ new.role = role /\ new.at = clock /\ new.over = FALSE
    BY <1>0, <1>3, <1>6, Zenon DEF IssueRow
  <2> HIDE DEF new
  <2>3. issued' = [issued EXCEPT ![cookie] = new]
    BY <2>1 DEF new
  <2>4. issued' \in [Cookie -> IssueRow] /\ issued'[cookie] = new /\ \A k \in Cookie \ {cookie} : issued'[k] = issued[k]
    BY <1>0, <2>2, <2>3 DEF SessionsInv
  <2>5. /\ DOMAIN sessions' = DOMAIN sessions \union {cookie}
        /\ sessions'[cookie].role = role /\ sessions'[cookie].expires = clock + Gates!Ttl
        /\ \A k \in DOMAIN sessions \ {cookie} : sessions'[k] = sessions[k]
    BY <2>1
  <2>6. SessionsInv'
    <3>1. DOMAIN sessions' \subseteq Cookie
      BY <1>0, <2>5 DEF SessionsInv
    <3>2. ASSUME NEW k \in DOMAIN sessions'
          PROVE  /\ sessions'[k].role = issued'[k].role /\ sessions'[k].expires = issued'[k].at + Gates!Ttl
                 /\ issued'[k].role \in Gates!Role /\ ~issued'[k].over
      <4>1. CASE k = cookie
        BY <1>3, <1>6, <2>2, <2>4, <2>5, <4>1, Zenon DEF role
      <4>2. CASE k # cookie
        <5>1. k \in DOMAIN sessions /\ k \in Cookie \ {cookie} /\ sessions'[k] = sessions[k] /\ issued'[k] = issued[k]
          BY <1>0, <2>4, <2>5, <3>1, <4>2
        <5>2. QED
          BY <1>0, <5>1 DEF SessionsInv
      <4>3. QED
        BY <4>1, <4>2
    <3>3. ASSUME NEW k \in Cookie, ~issued'[k].over, clock' < issued'[k].at + Gates!Ttl
          PROVE  k \in DOMAIN sessions'
      <4>1. CASE k = cookie
        BY <2>5, <4>1
      <4>2. CASE k # cookie
        <5>1. issued'[k] = issued[k] /\ k \in Cookie
          BY <2>4, <4>2
        <5>2. k \in DOMAIN sessions
          BY <1>0, <1>1, <3>3, <5>1 DEF SessionsInv
        <5>3. QED
          BY <2>5, <5>2
      <4>3. QED
        BY <4>1, <4>2
    <3>4. QED
      BY <2>4, <3>1, <3>2, <3>3 DEF SessionsInv
  <2>7. ReplyInv'
    BY <1>6, Zenon DEF ReplyInv
  <2>8. QED
    BY <1>2, <2>6, <2>7 DEF GateInv
<1>7. QED
  BY <1>5, <1>6, Zenon DEF Gates!SignIn

\* A sign-out ends what was issued and takes the session with it.
LEMMA SignOutKeeps ==
  ASSUME GateInv, NEW client \in Client, NEW cookie \in Cookie, NEW foreign, Gates!SignOut(client, cookie, foreign)
  PROVE  GateInv'
<1>0. LimiterInv /\ SessionsInv /\ clock \in Nat
  BY DEF GateInv, LimiterInv
<1>1. Gates!Count(client) /\ clock' = clock
  BY Zenon DEF Gates!SignOut
<1>2. LimiterInv'
  BY <1>0, <1>1, CountKeeps
<1>3. CASE ~Gates!OriginAccepted(cookie, foreign)
  <2>1. reply' = [kind |-> "not from here"] /\ UNCHANGED <<sessions, issued>>
    BY <1>3, Zenon DEF Gates!SignOut
  <2>2. SessionsInv' /\ ReplyInv'
    BY <1>0, <1>1, <2>1, Zenon DEF SessionsInv, ReplyInv
  <2>3. QED
    BY <1>2, <2>2 DEF GateInv
<1>4. CASE Gates!OriginAccepted(cookie, foreign)
  <2>1. /\ sessions' = [k \in DOMAIN sessions \ {cookie} |-> sessions[k]]
        /\ issued' = [k \in Cookie |-> IF k = cookie THEN [issued[k] EXCEPT !.over = TRUE] ELSE issued[k]]
        /\ reply' = Gates!Quiet
    BY <1>4 DEF Gates!SignOut, Gates!Restrict
  <2>2. \A k \in Cookie : issued[k] \in IssueRow
    BY <1>0 DEF SessionsInv
  <2>3. [issued[cookie] EXCEPT !.over = TRUE] \in IssueRow /\ [issued[cookie] EXCEPT !.over = TRUE].over = TRUE
    BY <2>2 DEF IssueRow
  <2>4. issued' \in [Cookie -> IssueRow] /\ issued'[cookie].over = TRUE /\ \A k \in Cookie \ {cookie} : issued'[k] = issued[k]
    BY <2>1, <2>2, <2>3
  <2>5. DOMAIN sessions' = DOMAIN sessions \ {cookie} /\ \A k \in DOMAIN sessions \ {cookie} : sessions'[k] = sessions[k]
    BY <2>1
  <2>6. SessionsInv'
    BY <1>0, <1>1, <2>4, <2>5 DEF SessionsInv
  <2>7. ReplyInv'
    BY <2>1 DEF ReplyInv, Gates!Quiet
  <2>8. QED
    BY <1>2, <2>6, <2>7 DEF GateInv
<1>5. QED
  BY <1>3, <1>4

\* A session is live exactly while it is in force.
LEMMA LiveInForce ==
  ASSUME SessionsInv, clock \in Nat, NEW cookie
  PROVE  /\ Gates!Live(cookie) => sessions[cookie].role \in Gates!Role /\ Gates!InForce(cookie, sessions[cookie].role)
         /\ ~Gates!Live(cookie) => \A role \in Gates!Role : ~Gates!InForce(cookie, role)
<1>1. \A k \in Cookie : issued[k].at + Gates!Ttl \in Int
  BY GateNumbers DEF SessionsInv, IssueRow
<1>2. ASSUME Gates!Live(cookie)
      PROVE  sessions[cookie].role \in Gates!Role /\ Gates!InForce(cookie, sessions[cookie].role)
  <2>1. cookie \in DOMAIN sessions /\ cookie \in Cookie /\ issued[cookie].at + Gates!Ttl > clock
    BY <1>2 DEF Gates!Live, SessionsInv
  <2>2. clock < issued[cookie].at + Gates!Ttl
    BY <1>1, <2>1
  <2>3. QED
    BY <2>1, <2>2 DEF SessionsInv, Gates!InForce
<1>3. ASSUME NEW role, Gates!InForce(cookie, role)
      PROVE  Gates!Live(cookie)
  <2>1. cookie \in Cookie /\ cookie \in DOMAIN sessions /\ clock < issued[cookie].at + Gates!Ttl
    BY <1>3 DEF Gates!InForce, SessionsInv
  <2>2. sessions[cookie].expires > clock
    BY <1>1, <2>1 DEF SessionsInv
  <2>3. QED
    BY <2>1, <2>2 DEF Gates!Live
<1>4. QED
  BY <1>2, <1>3

\* A call drops at most an expired session, and is answered as its caller.
LEMMA CallKeeps ==
  ASSUME GateInv, NEW client \in Client, NEW cookie, NEW token, NEW allowed \in Gates!Doors, NEW foreign,
         Gates!Call(client, cookie, token, allowed, foreign)
  PROVE  GateInv'
<1> DEFINE caller == Gates!Caller(cookie, token)
<1>0. LimiterInv /\ SessionsInv /\ clock \in Nat
  BY DEF GateInv, LimiterInv
<1>1. Gates!Count(client) /\ clock' = clock /\ issued' = issued
  BY Zenon DEF Gates!Call
<1>2. LimiterInv'
  BY <1>0, <1>1, CountKeeps
<1>3. CASE ~Gates!OriginAccepted(cookie, foreign)
  <2>1. reply' = [kind |-> "not from here"] /\ UNCHANGED <<sessions, issued>>
    BY <1>1, <1>3, Zenon DEF Gates!Call
  <2>2. SessionsInv' /\ ReplyInv'
    BY <1>0, <1>1, <2>1, Zenon DEF SessionsInv, ReplyInv
  <2>3. QED
    BY <1>2, <2>2 DEF GateInv
<1>4. CASE Gates!OriginAccepted(cookie, foreign)
  <2>1. /\ sessions' = [k \in {e \in DOMAIN sessions : e # cookie \/ Gates!Live(e)} |-> sessions[k]]
        /\ reply' = [kind |-> Gates!Outcome(caller, allowed), cookie |-> cookie,
                     token |-> token, role |-> caller, allowed |-> allowed]
    BY <1>4 DEF Gates!Call, Gates!Touch, Gates!RestrictDomain, Gates!Restrict
  <2>2. \A k \in Cookie : issued[k].at + Gates!Ttl \in Int
    BY <1>0, GateNumbers DEF SessionsInv, IssueRow
  <2>3. /\ DOMAIN sessions' \subseteq DOMAIN sessions /\ \A k \in DOMAIN sessions' : sessions'[k] = sessions[k]
        /\ \A k \in DOMAIN sessions : k \in DOMAIN sessions' \/ ~Gates!Live(k)
    BY <2>1
  <2>4. \A k \in Cookie : ~issued[k].over /\ clock < issued[k].at + Gates!Ttl => k \in DOMAIN sessions'
    <3> SUFFICES ASSUME NEW k \in Cookie, ~issued[k].over, clock < issued[k].at + Gates!Ttl
                 PROVE  k \in DOMAIN sessions'
      OBVIOUS
    <3>1. k \in DOMAIN sessions /\ sessions[k].expires = issued[k].at + Gates!Ttl
      BY <1>0 DEF SessionsInv
    <3>2. sessions[k].expires > clock
      BY <1>0, <2>2, <3>1
    <3>3. QED
      BY <2>3, <3>1, <3>2 DEF Gates!Live
  <2>5. SessionsInv'
    BY <1>0, <1>1, <2>3, <2>4 DEF SessionsInv
  <2>6. \A k, role : Gates!InForce(k, role)' <=> Gates!InForce(k, role)
    BY <1>1 DEF Gates!InForce
  <2>7. Gates!Nobody \notin Gates!Role
    BY DEF Gates!Nobody, Gates!Role
  <2>8. /\ caller # Gates!Nobody =>
             \/ Gates!InForce(cookie, caller)
             \/ /\ ~\E role \in Gates!Role : Gates!InForce(cookie, role)
                /\ Gates!Matches(token, caller, Demo)
        /\ caller = Gates!Nobody =>
             \A role \in Gates!Role : ~Gates!InForce(cookie, role) /\ ~Gates!Matches(token, role, Demo)
    <3>1. CASE Gates!Live(cookie)
      <4>1. caller = sessions[cookie].role
        BY <3>1 DEF Gates!Caller
      <4>2. caller \in Gates!Role /\ Gates!InForce(cookie, caller)
        BY <1>0, <3>1, <4>1, LiveInForce
      <4> HIDE DEF caller
      <4>3. QED
        BY <2>7, <4>2
    <3>2. CASE ~Gates!Live(cookie)
      <4>1. caller = Gates!Authenticate(token, Demo)
        BY <3>2 DEF Gates!Caller
      <4>2. \A role \in Gates!Role : ~Gates!InForce(cookie, role)
        BY <1>0, <3>2, LiveInForce
      <4> HIDE DEF caller
      <4>3. QED
        BY <4>1, <4>2, AuthenticatedIsPrincipal
    <3>3. QED
      BY <3>1, <3>2
  <2> HIDE DEF caller
  <2>9. /\ reply'.kind = Gates!Outcome(caller, allowed) /\ reply'.cookie = cookie
        /\ reply'.token = token /\ reply'.role = caller /\ reply'.allowed = allowed
    BY <2>1
  <2>10. /\ Gates!Outcome(caller, allowed) # "too many"
         /\ Gates!Outcome(caller, allowed) = "done" => caller # Gates!Nobody /\ caller \in allowed
         /\ Gates!Outcome(caller, allowed) = "unauthorized" => caller = Gates!Nobody
    BY DEF Gates!Outcome
  <2>11. ReplyInv'
    BY <2>6, <2>8, <2>9, <2>10, Zenon DEF ReplyInv
  <2>12. QED
    BY <1>2, <2>5, <2>11 DEF GateInv
<1>5. QED
  BY <1>3, <1>4

\* Time ends sessions and empties windows.
LEMMA TickKeeps ==
  ASSUME GateInv, Gates!Tick
  PROVE  GateInv'
<1>0. LimiterInv /\ SessionsInv /\ clock \in Nat
  BY DEF GateInv, LimiterInv
<1>1. clock' = clock + 1 /\ reply' = Gates!Quiet /\ UNCHANGED <<hits, sessions, served, issued>>
  BY DEF Gates!Tick
<1>2. \A c \in Client : Limited(hits[c], served[c], clock + 1)
  BY <1>0, TimePasses DEF LimiterInv
<1>3. LimiterInv'
  <2>1. clock' \in Nat
    BY <1>0, <1>1
  <2>2. \A c \in Client : Limited(hits'[c], served'[c], clock')
    BY <1>1, <1>2
  <2>3. QED
    BY <1>0, <1>1, <2>1, <2>2 DEF LimiterInv
<1>4. \A k \in Cookie : issued[k].at + Gates!Ttl \in Int
  BY <1>0, GateNumbers DEF SessionsInv, IssueRow
<1>5. \A k \in Cookie : clock + 1 < issued[k].at + Gates!Ttl => clock < issued[k].at + Gates!Ttl
  <2> TAKE k \in Cookie
  <2> DEFINE end == issued[k].at + Gates!Ttl
  <2>1. end \in Int
    BY <1>4
  <2> HIDE DEF end
  <2>2. clock + 1 < end => clock < end
    BY <1>0, <2>1
  <2>3. QED
    BY <2>2 DEF end
<1>6. SessionsInv'
  BY <1>0, <1>1, <1>5 DEF SessionsInv
<1>7. ReplyInv'
  BY <1>1 DEF ReplyInv, Gates!Quiet
<1>8. QED
  BY <1>3, <1>6, <1>7 DEF GateInv

\* A restart ends every session and forgets what was served.
LEMMA RestartKeeps ==
  ASSUME GateInv, Gates!RestartGateway
  PROVE  GateInv'
<1>0. LimiterInv /\ SessionsInv /\ clock \in Nat
  BY DEF GateInv, LimiterInv
<1>1. /\ hits' = [c \in Client |-> << >>] /\ served' = [c \in Client |-> << >>]
      /\ sessions' = << >> /\ reply' = Gates!Quiet /\ clock' = clock
      /\ issued' = [k \in Cookie |-> IF issued[k] = Gates!Never THEN Gates!Never ELSE [issued[k] EXCEPT !.over = TRUE]]
  BY DEF Gates!RestartGateway
<1>2. LimiterInv'
  BY <1>0, <1>1, NothingServed DEF LimiterInv, Limited, Within
<1>3. Gates!Never \in IssueRow /\ Gates!Never.over
  BY DEF IssueRow, Gates!Never
<1>4. \A k \in Cookie : [issued[k] EXCEPT !.over = TRUE] \in IssueRow /\ [issued[k] EXCEPT !.over = TRUE].over
  BY <1>0 DEF SessionsInv, IssueRow
<1>5. issued' \in [Cookie -> IssueRow] /\ \A k \in Cookie : issued'[k].over
  BY <1>1, <1>3, <1>4
<1>6. DOMAIN sessions' = {}
  BY <1>1
<1>7. SessionsInv'
  BY <1>5, <1>6 DEF SessionsInv
<1>8. ReplyInv'
  BY <1>1 DEF ReplyInv, Gates!Quiet
<1>9. QED
  BY <1>2, <1>7, <1>8 DEF GateInv

\* The other steps of the instance leave the gateway alone.
LEMMA GateStays ==
  ASSUME GateInv, UNCHANGED gates
  PROVE  GateInv'
BY Zenon DEF gates, GateInv, LimiterInv, Limited, Within, SessionsInv, ReplyInv, Gates!ServedWithin, Gates!InForce

\* Every step keeps the invariant.
LEMMA GateStep == GateInv /\ [Gates!Next]_gates => GateInv'
<1> SUFFICES ASSUME GateInv, [Gates!Next]_gates PROVE GateInv'
  OBVIOUS
<1>1. ASSUME NEW client \in Client, Gates!TooMany(client) PROVE GateInv'
  BY <1>1, TooManyKeeps
<1>2. ASSUME NEW client \in Client, NEW token, Gates!SignIn(client, token) PROVE GateInv'
  BY <1>2, SignInKeeps
<1>3. ASSUME NEW client \in Client, NEW cookie \in Cookie, NEW foreign, Gates!SignOut(client, cookie, foreign)
      PROVE  GateInv'
  BY <1>3, SignOutKeeps
<1>4. ASSUME NEW client \in Client, NEW cookie, NEW token, NEW allowed \in Gates!Doors, NEW foreign,
             Gates!Call(client, cookie, token, allowed, foreign)
      PROVE  GateInv'
  BY <1>4, CallKeeps
<1>5. CASE Gates!Tick
  BY <1>5, TickKeeps
<1>6. CASE Gates!RestartGateway
  BY <1>6, RestartKeeps
<1>7. CASE UNCHANGED gates
  BY <1>7, GateStays
<1>8. QED
  BY <1>1, <1>2, <1>3, <1>4, <1>5, <1>6, <1>7 DEF Gates!Next

\* For any clients, cookies, environment, limit, window and time to live, at any time:
\* no client is served more often than the limit in a window, and one that is turned
\* away was served that often; a call is done as the principal of the session in force,
\* or of the token without one, and unauthorized with neither; and a session lasts
\* until its time is over, it is signed out of, or the process restarts.
THEOREM CallersKnown == Spec => []Gates!CallersAreKnown
<1>1. Init => GateInv
  BY GateStart DEF Init
<1>2. GateInv /\ [Next]_<<about, input, evaluation, gates>> => GateInv'
  <2>1. [Next]_<<about, input, evaluation, gates>> => [Gates!Next]_gates
    BY DEF Next, Look, Evaluate, Enter
  <2>2. QED
    BY <2>1, GateStep
<1>3. QED
  BY <1>1, <1>2, GateSays, PTL DEF Spec

-----------------------------------------------------------------------------
(* The copilot: what it answers, moves and recommends.                       *)

\* An answer is a success, or says what failed.
Ends(answer) ==
  \/ answer.status = "success" /\ answer.failure = "none"
  \/ answer.status # "success" /\ answer.failure \in FailureType

\* A read tool answers, and moves nothing; it shows a document of the caller's workspace.
LEMMA ReadsMoveNothing ==
  ASSUME NEW tool \in ReadTools, NEW request, NEW caller, NEW db
  PROVE  LET answer == Create(tool, request, caller, db)
         IN /\ answer.tool = tool /\ answer.moved = {}
            /\ Ends(answer)
            /\ tool = "get_document_detail" /\ answer.status = "success" => request.document \in Own(db, caller)
            /\ CanBeCalledBy(tool, caller) => answer.failure # "permission_denied"
BY Zenon DEF ReadTools, Create, Success, Refusal, Response, ReviewQueue, DocumentDetail, Own,
       CanBeCalledBy, AllowedRoles, ReviewTools, Ends, FailureType

\* A controlled tool moves documents of the workspace, when it is permitted and confirmed.
LEMMA ControlledMoves ==
  ASSUME NEW request, NEW caller, NEW db, request.execute \notin ReadTools
  PROVE  LET answer == Execute(request, caller, db)
         IN /\ answer.tool = request.execute
            /\ answer.moved # {} => request.confirmed /\ answer.status = "success"
            /\ answer.moved \subseteq Own(db, caller)
            /\ Ends(answer)
            /\ CanBeCalledBy(request.execute, caller) => answer.failure # "permission_denied"
<1> DEFINE answer == Execute(request, caller, db)
           tool == request.execute
<1>0. RequiresConfirmation(tool)
  BY DEF RequiresConfirmation
<1>1. CASE ~CanBeCalledBy(tool, caller)
  BY <1>1 DEF Execute, Refusal, Response, Ends, FailureType
<1>2. CASE CanBeCalledBy(tool, caller) /\ ~request.confirmed
  BY <1>0, <1>2 DEF Execute, Refusal, Response, Ends, FailureType
<1>3. CASE CanBeCalledBy(tool, caller) /\ request.confirmed
  <2>1. CASE tool = "process_document"
    <3>1. answer = ProcessDocument(request, caller, db)
      BY <1>3, <2>1 DEF Execute
    <3>2. HonestRole(caller) /\ caller.role \in {"admin"} \union IntakeRoles
      BY <1>3, <2>1 DEF CanBeCalledBy, AllowedRoles, ReviewTools, IntakeRoles
    <3>3. QED
      BY <1>3, <2>1, <3>1, <3>2 DEF ProcessDocument, Success, Refusal, Response, Ends, FailureType, Processable
  <2>2. CASE tool = "export_approved_csv"
    <3>1. answer = ExportApprovedCsv(caller, db)
      BY <1>3, <2>2 DEF Execute
    <3>2. caller.is_admin
      BY <1>3, <2>2 DEF CanBeCalledBy, AllowedRoles, ReviewTools, HonestRole
    <3>3. QED
      BY <1>3, <2>2, <3>1, <3>2 DEF ExportApprovedCsv, Success, Refusal, Response, Ends, FailureType, OwnIn
  <2>3. CASE tool = "send_accounting_integration"
    <3>1. answer = SendAccountingIntegration(request, caller, db)
      BY <1>3, <2>3 DEF Execute
    <3>2. caller.is_admin
      BY <1>3, <2>3 DEF CanBeCalledBy, AllowedRoles, ReviewTools, HonestRole
    <3>3. QED
      BY <1>3, <2>3, <3>1, <3>2 DEF SendAccountingIntegration, Success, Refusal, Response, Ends, FailureType
  <2>4. CASE tool \notin {"process_document", "export_approved_csv", "send_accounting_integration"}
    BY <1>3, <2>4 DEF Execute, Refusal, Response, Ends, FailureType
  <2>5. QED
    BY <2>1, <2>2, <2>3, <2>4
<1>4. QED
  BY <1>1, <1>2, <1>3

\* Words choose among the tools that read.
LEMMA WordsSelectReads ==
  ASSUME NEW request, request.execute = NoTool
  PROVE  SelectTool(request) \in ReadTools
<1> DEFINE rules == {i \in DOMAIN RoutingRules : RoutingRules[i].topic \in request.topics}
<1>1. rules # {} => Min(rules) \in rules
  <2>1. rules \in SUBSET Nat
    BY DEF RoutingRules
  <2> HIDE DEF rules
  <2>2. QED
    BY <2>1, Smallest DEF Min
<1>2. \A i \in DOMAIN RoutingRules : RoutingRules[i].tool \in ReadTools
  BY DEF RoutingRules, ReadTools
<1>3. "get_document_detail" \in ReadTools /\ "get_metrics_summary" \in ReadTools
  BY DEF ReadTools
<1>4. \/ SelectTool(request) \in {"get_document_detail", "get_metrics_summary"}
      \/ rules # {} /\ SelectTool(request) = RoutingRules[Min(rules)].tool
  BY DEF SelectTool
<1>5. QED
  BY <1>1, <1>2, <1>3, <1>4

\* So an answer is refused for the role, or comes from one or the other.
LEMMA AnswerOf ==
  ASSUME NEW request, NEW caller, NEW db
  PROVE  LET answer == Reply(request, caller, db)
             tool  == SelectTool(request)
         IN /\ answer.tool = tool
            /\ ~Permitted(request, caller) => answer = Refusal(tool, "escalated", "insufficient_evidence")
            /\ Permitted(request, caller) /\ tool \in ReadTools => answer = Create(tool, request, caller, db)
            /\ Permitted(request, caller) /\ tool \notin ReadTools =>
                 /\ request.execute = tool /\ request.execute # NoTool
                 /\ answer = Execute(request, caller, db)
<1>1. SelectTool(request) \notin ReadTools => request.execute # NoTool /\ request.execute = SelectTool(request)
  <2>1. CASE request.execute = NoTool
    BY <2>1, WordsSelectReads
  <2>2. CASE request.execute # NoTool
    BY <2>2 DEF SelectTool
  <2>3. QED
    BY <2>1, <2>2
<1>2. Permitted(request, caller) =>
        Reply(request, caller, db) =
          IF SelectTool(request) \in ReadTools THEN Create(SelectTool(request), request, caller, db)
          ELSE Execute(request, caller, db)
  BY DEF Reply, Permitted, Dispatch
<1>3. ~Permitted(request, caller) =>
        Reply(request, caller, db) = Refusal(SelectTool(request), "escalated", "insufficient_evidence")
  BY DEF Reply, Permitted
<1>4. ~Permitted(request, caller) => Reply(request, caller, db).tool = SelectTool(request)
  BY <1>3 DEF Refusal, Response
<1>5. Permitted(request, caller) => Reply(request, caller, db).tool = SelectTool(request)
  BY <1>1, <1>2, ReadsMoveNothing, ControlledMoves
<1>6. QED
  BY <1>1, <1>2, <1>3, <1>4, <1>5

\* For every request, caller and database: documents move by a tool that was named,
\* confirmed and permitted; those that move, or are shown, are of the caller's
\* workspace; and no service refuses the role of a caller whom the table admits.
THEOREM EveryReplyIsPermitted ==
  ASSUME NEW request, NEW caller, NEW db
  PROVE  /\ WordsMoveNothing(request, caller, db)
         /\ WorkspaceIsKept(request, caller, db)
         /\ TableMatchesServices(request, caller, db)
<1> DEFINE answer == Reply(request, caller, db)
           tool == SelectTool(request)
<1>0. answer.tool = tool
  BY AnswerOf
<1>1. CASE ~Permitted(request, caller)
  <2>1. answer.moved = {} /\ answer.status = "escalated"
    BY <1>1, AnswerOf DEF Refusal, Response
  <2>2. QED
    BY <1>1, <2>1 DEF WordsMoveNothing, WorkspaceIsKept, TableMatchesServices
<1>2. CASE Permitted(request, caller) /\ tool \in ReadTools
  <2>1. answer = Create(tool, request, caller, db) /\ CanBeCalledBy(tool, caller)
    BY <1>2, AnswerOf DEF Permitted
  <2>2. /\ answer.moved = {} /\ answer.failure # "permission_denied"
        /\ tool = "get_document_detail" /\ answer.status = "success" => request.document \in Own(db, caller)
    BY <1>2, <2>1, ReadsMoveNothing
  <2>3. QED
    BY <1>0, <2>2 DEF WordsMoveNothing, WorkspaceIsKept, TableMatchesServices
<1>3. CASE Permitted(request, caller) /\ tool \notin ReadTools
  <2>1. /\ request.execute = tool /\ request.execute # NoTool /\ CanBeCalledBy(tool, caller)
        /\ answer = Execute(request, caller, db)
    BY <1>3, AnswerOf DEF Permitted
  <2>2. /\ answer.moved # {} => request.confirmed
        /\ answer.moved \subseteq Own(db, caller)
        /\ answer.failure # "permission_denied"
    BY <1>3, <2>1, ControlledMoves
  <2>3. tool # "get_document_detail"
    BY <1>3 DEF ReadTools
  <2>4. QED
    BY <1>0, <1>3, <2>1, <2>2, <2>3 DEF WordsMoveNothing, WorkspaceIsKept, TableMatchesServices
<1>4. QED
  BY <1>1, <1>2, <1>3

\* For every request, caller but an operator, and database without a document that waits
\* for its first job: a tool recommended for no human's hands runs at once with success,
\* on the document that was shown, or on any of those listed.
THEOREM AdviceIsFollowed ==
  ASSUME NEW request, NEW caller, NEW db, caller.role # "operator",
         NoDocument \notin DOMAIN db.doc, \A d \in DOMAIN db.doc : db.doc[d].status # "uploaded"
  PROVE  AdviceCanBeFollowed(request, caller, db)
<1> DEFINE answer == Reply(request, caller, db)
           advice == RecommendNextAction(answer, caller)
           again(d) == [topics |-> {}, document |-> d, execute |-> advice.tool, confirmed |-> TRUE]
<1> SUFFICES ASSUME advice.tool # NoTool, ~advice.human,
                    NEW d \in IF answer.tool = "get_document_detail" THEN {request.document} ELSE Own(db, caller)
             PROVE  Reply(again(d), caller, db).status = "success"
  BY DEF AdviceCanBeFollowed
<1>1. answer.status = "success"
  BY DEF RecommendNextAction, HumanEscalation
<1>2. Permitted(request, caller) /\ CanBeCalledBy(answer.tool, caller)
  BY <1>1, AnswerOf DEF Refusal, Response, Permitted
<1>3. SelectTool(again(d)) = advice.tool
  BY DEF SelectTool
<1>4. answer.tool \in ReadTools
  BY <1>1 DEF RecommendNextAction, HumanEscalation, ReadTools
<1>5. answer = Create(answer.tool, request, caller, db)
  BY <1>2, <1>4, AnswerOf
\* A read tool recommended to whoever may read answers with success.
<1>6. CASE advice.tool \in ReadTools
  <2>1. /\ advice.tool \in {"get_metrics_summary", "list_review_queue", "get_document_detail"}
        /\ advice.tool = "list_review_queue" => answer.tool = "list_review_queue"
        /\ advice.tool = "get_document_detail" => answer.tool = "list_documents"
    BY <1>1, <1>4, <1>6 DEF RecommendNextAction, HumanEscalation, RecommendForDocument, RecommendForMetrics,
         RecommendForReviewQueue, RecommendForReadiness, RecommendForDocumentList, ToolRecommendation, ReadTools
  <2>2. CanBeCalledBy(advice.tool, caller)
    BY <1>2, <1>4, <2>1 DEF CanBeCalledBy, AllowedRoles, ReadTools, ReviewTools, ReadRoles, ReviewRoles
  <2>3. Reply(again(d), caller, db) = Create(advice.tool, again(d), caller, db)
    BY <1>3, <1>6, <2>2, AnswerOf DEF Permitted
  <2>4. CASE advice.tool = "get_metrics_summary"
    BY <2>3, <2>4 DEF Create, Success, Response
  <2>5. CASE advice.tool = "list_review_queue"
    <3>1. HonestRole(caller) /\ caller.role \in ReviewRoles
      BY <2>2, <2>5 DEF CanBeCalledBy, AllowedRoles
    <3>2. QED
      BY <2>3, <2>5, <3>1 DEF Create, ReviewQueue, Success, Response
  <2>6. CASE advice.tool = "get_document_detail"
    <3>1. d \in Own(db, caller)
      BY <2>1, <2>6
    <3>2. d # NoDocument /\ Exists(db, d)
      BY <3>1 DEF Own
    <3>3. QED
      BY <2>3, <2>6, <3>1, <3>2 DEF Create, DocumentDetail, Success, Response
  <2>7. QED
    BY <2>1, <2>4, <2>5, <2>6
\* The two others are recommended to an administrator, on a document in the status they take.
<1>7. CASE advice.tool \notin ReadTools
  <2>1. /\ answer.tool = "get_document_detail"
        /\ \/ answer.data \in {"uploaded", "queued"} /\ advice.tool = "process_document"
           \/ answer.data = "approved" /\ advice.tool = "export_approved_csv"
        /\ CanBeCalledBy(advice.tool, caller)
    BY <1>1, <1>7 DEF RecommendNextAction, HumanEscalation, RecommendForDocument, RecommendForMetrics,
         RecommendForReviewQueue, RecommendForReadiness, RecommendForDocumentList, ToolRecommendation, ReadTools
  <2>2. caller.role = "admin" /\ caller.is_admin /\ HonestRole(caller)
    BY <2>1 DEF CanBeCalledBy, AllowedRoles, ReviewTools, HonestRole
  <2>3. d = request.document /\ d \in Own(db, caller) /\ d # NoDocument /\ answer.data = db.doc[d].status
    BY <1>1, <1>5, <2>1 DEF Create, DocumentDetail, Success, Refusal, Response, Own
  <2>4. Reply(again(d), caller, db) = Execute(again(d), caller, db)
    BY <1>3, <1>7, <2>1, AnswerOf DEF Permitted
  <2>5. CASE advice.tool = "process_document"
    <3>1. Execute(again(d), caller, db) = ProcessDocument(again(d), caller, db)
      BY <2>1, <2>5 DEF Execute
    <3>2. Processable(d, caller, db) /\ db.doc[d].status = "queued"
      BY <2>1, <2>2, <2>3, <2>5 DEF Processable, Own
    <3>3. ProcessDocument(again(d), caller, db) = Success("process_document", d, {d})
      BY <2>2, <2>3, <3>2 DEF ProcessDocument
    <3>4. QED
      BY <2>4, <3>1, <3>3 DEF Success, Response
  <2>6. CASE advice.tool = "export_approved_csv"
    <3>1. Execute(again(d), caller, db) = ExportApprovedCsv(caller, db)
      BY <2>1, <2>6 DEF Execute
    <3>2. QED
      BY <2>2, <2>4, <3>1 DEF ExportApprovedCsv, Success, Response
  <2>7. QED
    BY <2>1, <2>5, <2>6
<1>8. QED
  BY <1>6, <1>7

-----------------------------------------------------------------------------
(* Policy and plans.                                                         *)

\* For every work item and caller: with a confirmation, the policy admits to an action
\* just the callers whom the table of tools admits to its tool.
THEOREM PolicyIsTheTable ==
  ASSUME NEW item, NEW caller
  PROVE  PolicyMatchesTools(item, caller)
<1> SUFFICES ASSUME NEW action \in ActionType, ActionTool(action) # NoTool, caller.workspace = item.home
             PROVE  Decide(item, action, caller, item.home, TRUE, TRUE).allowed
                      <=> CanBeCalledBy(ActionTool(action), caller)
  BY DEF PolicyMatchesTools
<1>1. action \in {"process_document", "export_approved_invoice"}
  BY DEF ActionTool
<1>2. CanBeCalledBy(ActionTool(action), caller) <=> HonestRole(caller) /\ caller.role \in PolicyRoles(action)
  BY <1>1 DEF CanBeCalledBy, ActionTool, AllowedRoles, ReviewTools, PolicyRoles
<1> DEFINE reasons == BlockedReasons(item, action, caller, item.home, TRUE, TRUE)
<1>3. Decide(item, action, caller, item.home, TRUE, TRUE).allowed <=> \A i \in DOMAIN reasons : ~reasons[i].holds
  BY DEF Decide
<1>4. DOMAIN reasons = 1..7
  BY DEF BlockedReasons
<1>5. ~reasons[1].holds /\ ~reasons[2].holds /\ ~reasons[3].holds /\ ~reasons[6].holds /\ ~reasons[7].holds
  <2>1. ~reasons[1].holds
    BY <1>1 DEF BlockedReasons
  <2>2. ~reasons[2].holds
    BY DEF BlockedReasons
  <2>3. ~reasons[3].holds
    BY DEF BlockedReasons
  <2>4. ~reasons[6].holds
    BY DEF BlockedReasons
  <2>5. ~reasons[7].holds
    BY DEF BlockedReasons
  <2>6. QED
    BY <2>1, <2>2, <2>3, <2>4, <2>5
<1>6. ~reasons[4].holds <=> HonestRole(caller)
  BY DEF BlockedReasons, HonestRole
<1>7. ~reasons[5].holds <=> caller.role \in PolicyRoles(action)
  BY DEF BlockedReasons
<1> HIDE DEF reasons
<1>8. (\A i \in 1..7 : ~reasons[i].holds) <=> ~reasons[4].holds /\ ~reasons[5].holds
  BY <1>5
<1>9. QED
  BY <1>2, <1>3, <1>4, <1>6, <1>7, <1>8

\* One step, with none or one before it.
LEMMA Joined ==
  ASSUME NEW x, NEW y
  PROVE  << >> \o <<y>> = <<y>> /\ <<x>> \o <<y>> = <<x, y>>
<1>1. ASSUME NEW u, NEW S, u \in S PROVE << >> \o <<u>> = <<u>>
  BY <1>1
<1>2. ASSUME NEW u, NEW v, NEW S, u \in S, v \in S PROVE <<u>> \o <<v>> = <<u, v>>
  <2>1. <<u>> \in Seq(S) /\ <<v>> \in Seq(S) /\ Len(<<u>>) = 1 /\ Len(<<v>>) = 1
        /\ <<u>>[1] = u /\ <<v>>[1] = v
    BY <1>2
  <2> DEFINE both == <<u>> \o <<v>>
  <2>2. both \in Seq(S) /\ Len(both) = 2
    BY <2>1, ConcatProperties
  <2>3. both[1] = u /\ both[2] = v
    BY <2>1, ConcatProperties
  <2> HIDE DEF both
  <2>4. both = <<u, v>>
    BY <2>2, <2>3
  <2>5. QED
    BY <2>4 DEF both
<1>3. x \in {x, y} /\ y \in {x, y}
  OBVIOUS
<1>4. QED
  BY <1>1, <1>2, <1>3

\* The steps of a plan: two at most, the first of which only reads then; and only an
\* approved invoice is exported.
PlanShape(item, inputs, caller) ==
  LET plan  == Plan(item, inputs, caller)
      steps == plan.steps
      first == steps[1]
      last  == steps[Len(steps)]
  IN /\ \/ Len(steps) = 1 /\ steps = <<first>>
        \/ /\ Len(steps) = 2 /\ steps = <<first, last>> /\ inputs.evidence
           /\ first.action \in ReadActions /\ first.action # last.action
           /\ ~first.approval /\ first.status # "waiting_for_approval"
     /\ ~inputs.evidence => first.action = "escalate_to_human" /\ Len(steps) = 1
     /\ last.action \in ActionType
     /\ \/ ~last.approval /\ ~Confirmed(last.action) /\ last.status # "waiting_for_approval"
        \/ /\ last.action = "export_approved_invoice" /\ last.approval /\ inputs.evidence
           /\ \/ last.status = "blocked"
              \/ last.status = "waiting_for_approval" /\ inputs.approved

\* Every plan of the planner has the shape that PlanIsLawful asks for.
LEMMA PlanSteps ==
  ASSUME NEW item, NEW inputs, NEW caller
  PROVE  PlanShape(item, inputs, caller)
<1> DEFINE plan == Plan(item, inputs, caller)
           steps == plan.steps
           type == WorkType(item, inputs)
\* A plan of one step, or of two.
<1>1. ASSUME NEW x, steps = <<x>>, x.action \in ActionType, ~Confirmed(x.action),
             ~x.approval, x.status # "waiting_for_approval",
             ~inputs.evidence => x.action = "escalate_to_human"
      PROVE  PlanShape(item, inputs, caller)
  <2>1. steps[1] = x /\ Len(steps) = 1 /\ steps[Len(steps)] = x
    BY <1>1
  <2>2. QED
    BY <1>1, <2>1, Zenon DEF PlanShape
<1>2. ASSUME NEW x, NEW y, steps = <<x, y>>, inputs.evidence,
             x.action \in ReadActions, ~x.approval, x.status # "waiting_for_approval",
             y.action \in ActionType \ ReadActions,
             \/ ~y.approval /\ ~Confirmed(y.action) /\ y.status # "waiting_for_approval"
             \/ /\ y.action = "export_approved_invoice" /\ y.approval
                /\ \/ y.status = "blocked"
                   \/ y.status = "waiting_for_approval" /\ inputs.approved
      PROVE  PlanShape(item, inputs, caller)
  <2>1. steps[1] = x /\ Len(steps) = 2 /\ steps[Len(steps)] = y
    BY <1>2
  <2>2. x.action # y.action /\ y.action \in ActionType
    BY <1>2
  <2>3. QED
    BY <1>2, <2>1, <2>2, Zenon DEF PlanShape
\* A step without a tool waits for nothing.
<1>3. \A action, evidence :
        ~Confirmed(action) =>
          LET step == Step(item, action, caller, evidence)
          IN step.action = action /\ ~step.approval /\ step.status # "waiting_for_approval"
  BY DEF Step, Decide
<1>4. \A action, evidence :
        Confirmed(action) =>
          LET step == Step(item, action, caller, evidence)
          IN step.action = action /\ step.approval /\ step.status = "waiting_for_approval"
  BY DEF Step, Decide
<1>5. /\ ~Confirmed("escalate_to_human") /\ ~Confirmed("explain_document") /\ ~Confirmed("inspect_queue")
      /\ ~Confirmed("recommend_review") /\ ~Confirmed("draft_accounting_note")
      /\ ~Confirmed("draft_vendor_message") /\ Confirmed("export_approved_invoice")
  BY DEF Confirmed
<1>6. /\ {"escalate_to_human", "recommend_review", "draft_accounting_note", "draft_vendor_message",
          "export_approved_invoice"} \subseteq ActionType \ ReadActions
      /\ {"explain_document", "inspect_queue"} \subseteq ReadActions
  BY DEF ActionType, ReadActions
<1>7. CASE steps = <<Step(item, "escalate_to_human", caller, TRUE)>>
  <2> DEFINE x == Step(item, "escalate_to_human", caller, TRUE)
  <2>1. x.action = "escalate_to_human" /\ ~x.approval /\ x.status # "waiting_for_approval"
    BY <1>3, <1>5
  <2>2. steps = <<x>> /\ x.action \in ActionType /\ ~Confirmed(x.action)
    BY <1>5, <1>6, <1>7, <2>1
  <2> HIDE DEF x, steps
  <2>3. QED
    BY <1>1, <2>1, <2>2
\* A draft, or a recommended review, follows an explanation.
<1>8. ASSUME inputs.evidence, NEW evidence, NEW other,
             NEW action \in {"recommend_review", "draft_accounting_note", "draft_vendor_message"},
             \/ steps = <<Step(item, action, caller, evidence)>>
             \/ steps = <<Step(item, "explain_document", caller, other), Step(item, action, caller, evidence)>>
      PROVE  PlanShape(item, inputs, caller)
  <2> DEFINE x == Step(item, "explain_document", caller, other)
             y == Step(item, action, caller, evidence)
  <2>1. x.action = "explain_document" /\ ~x.approval /\ x.status # "waiting_for_approval"
    BY <1>3, <1>5
  <2>2. ~Confirmed(action) /\ action \in ActionType \ ReadActions
    BY <1>5, <1>6, <1>8
  <2>3. y.action = action /\ ~y.approval /\ y.status # "waiting_for_approval"
    BY <1>3, <2>2
  <2> HIDE DEF x, y, steps
  <2>4. CASE steps = <<y>>
    BY <1>1, <1>8, <2>2, <2>3, <2>4
  <2>5. CASE steps = <<x, y>>
    BY <1>2, <1>6, <1>8, <2>1, <2>2, <2>3, <2>5
  <2>6. QED
    BY <1>8, <2>4, <2>5 DEF x, y
<1>9. CASE inputs.evidence /\ type = "invoice_review"
  <2>1. steps = <<Step(item, "explain_document", caller, item.docs # << >>),
                  Step(item, "recommend_review", caller, inputs.evidence)>>
    BY <1>9 DEF Plan
  <2> HIDE DEF steps
  <2>2. QED
    BY <1>8, <1>9, <2>1
<1>10. CASE inputs.evidence /\ type = "invoice_export"
  <2> DEFINE x == Step(item, "inspect_queue", caller, TRUE)
             export == Step(item, "export_approved_invoice", caller, TRUE)
             refusal == [action |-> "export_approved_invoice", approval |-> TRUE, status |-> "blocked"]
  <2>1. steps = ExportSteps(item, inputs, caller)
    BY <1>10 DEF Plan
  <2>2. steps = <<x, IF inputs.approved THEN export ELSE refusal>>
    BY <2>1 DEF ExportSteps
  <2>3. x.action = "inspect_queue" /\ ~x.approval /\ x.status # "waiting_for_approval"
    BY <1>3, <1>5
  <2>4. export.action = "export_approved_invoice" /\ export.approval /\ export.status = "waiting_for_approval"
    BY <1>4, <1>5
  <2>5. refusal.action = "export_approved_invoice" /\ refusal.approval /\ refusal.status = "blocked"
    OBVIOUS
  <2> HIDE DEF x, export, refusal, steps
  <2>6. CASE inputs.approved
    <3>1. steps = <<x, export>>
      BY <2>2, <2>6
    <3>2. QED
      BY <1>2, <1>6, <1>10, <2>3, <2>4, <2>6, <3>1
  <2>7. CASE ~inputs.approved
    <3>1. steps = <<x, refusal>>
      BY <2>2, <2>7
    <3>2. QED
      BY <1>2, <1>6, <1>10, <2>3, <2>5, <3>1
  <2>8. QED
    BY <2>6, <2>7
<1>11. CASE inputs.evidence /\ type \in {"accounting_note", "vendor_follow_up"}
  <2> DEFINE x == Step(item, "explain_document", caller, TRUE)
  <2>1. PICK action \in {"draft_accounting_note", "draft_vendor_message"}, evidence \in {inputs.evidence, TRUE} :
          steps = Explained(item, caller) \o <<Step(item, action, caller, evidence)>>
    BY <1>11 DEF Plan
  <2> DEFINE y == Step(item, action, caller, evidence)
  <2>2. Explained(item, caller) = << >> \/ Explained(item, caller) = <<x>>
    BY DEF Explained
  <2> HIDE DEF x, y, steps
  <2>3. << >> \o <<y>> = <<y>> /\ <<x>> \o <<y>> = <<x, y>>
    BY Joined
  <2>4. steps = <<y>> \/ steps = <<x, y>>
    BY <2>1, <2>2, <2>3 DEF y
  <2>5. QED
    BY <1>8, <1>11, <2>4 DEF x, y
<1>12. ~inputs.evidence \/ type \notin {"invoice_review", "invoice_export", "accounting_note", "vendor_follow_up"}
         => steps = <<Step(item, "escalate_to_human", caller, TRUE)>>
  BY DEF Plan
<1>13. QED
  BY <1>7, <1>9, <1>10, <1>11, <1>12
\* For every work item, caller and database: a step that a tool would run waits for an
\* approval and concerns an approved or exported invoice with an extraction; no plan
\* has two; and without evidence there is nothing but an escalation.
THEOREM EveryPlanAsksFirst ==
  ASSUME NEW item, NEW topics, NEW db, NEW caller
  PROVE  LET inputs == PlanningInput(item, topics, db)
         IN PlansAskFirst(item, inputs, caller, db) /\ NoEvidenceNoAction(item, inputs, caller)
<1> DEFINE inputs == PlanningInput(item, topics, db)
           steps == Plan(item, inputs, caller).steps
           tool(i) == ActionTool(steps[i].action)
           open == {i \in DOMAIN steps : tool(i) # NoTool /\ steps[i].status # "blocked"}
           d == item.docs[1]
<1>1. inputs.evidence => db.doc[d].extraction # "none"
  BY DEF PlanningInput
<1>2. inputs.approved => db.doc[d].status \in {"approved", "exported"}
  BY DEF PlanningInput
<1> HIDE DEF inputs
<1>3. PlanShape(item, inputs, caller)
  BY PlanSteps
<1>4. Len(steps) \in {1, 2} /\ DOMAIN steps = 1..Len(steps)
  BY <1>3 DEF PlanShape
<1>5. \A action \in ActionType : ActionTool(action) # NoTool => action \notin ReadActions /\ Confirmed(action)
  BY DEF ActionTool, ReadActions, Confirmed
<1> HIDE DEF steps
<1>6. \A i \in open : i = Len(steps)
  <2> TAKE i \in open
  <2>2. CASE Len(steps) = 2 /\ i = 1
    <3>1. steps[1].action \in ReadActions
      BY <1>3, <2>2 DEF PlanShape, steps
    <3>2. QED
      BY <1>5, <2>2, <3>1 DEF ReadActions, ActionType
  <2>3. i \in 1..Len(steps)
    BY <1>4
  <2>4. \A n \in {1, 2} : \A k \in 1..n : k = n \/ (n = 2 /\ k = 1)
    OBVIOUS
  <2>5. QED
    BY <1>4, <2>2, <2>3, <2>4
<1>7. Cardinality(open) <= 1
  <2>1. open \subseteq {Len(steps)}
    BY <1>6
  <2> HIDE DEF open
  <2>2. Cardinality({Len(steps)}) = 1 /\ IsFiniteSet({Len(steps)})
    BY FS_Singleton
  <2>3. Cardinality(open) <= Cardinality({Len(steps)})
    BY <2>1, <2>2, FS_Subset
  <2>4. QED
    BY <2>2, <2>3
<1>8. ASSUME NEW i \in open
      PROVE  /\ steps[i].approval /\ steps[i].status = "waiting_for_approval"
             /\ inputs.evidence /\ inputs.approved
  <2>1. i = Len(steps) /\ tool(i) # NoTool /\ steps[i].status # "blocked"
    BY <1>6, <1>8
  <2>2. steps[i].action \in ActionType
    BY <1>3, <2>1 DEF PlanShape, steps
  <2>3. Confirmed(steps[i].action)
    BY <1>5, <2>1, <2>2
  <2>4. /\ steps[i].approval /\ inputs.evidence
        /\ steps[i].status = "waiting_for_approval" /\ inputs.approved
    BY <1>3, <2>1, <2>3 DEF PlanShape, steps
  <2>5. QED
    BY <2>4
<1>9. PlansAskFirst(item, inputs, caller, db)
  BY <1>1, <1>2, <1>7, <1>8 DEF PlansAskFirst, steps
<1>10. NoEvidenceNoAction(item, inputs, caller)
  <2>1. ~inputs.evidence => steps[1].action = "escalate_to_human" /\ DOMAIN steps = {1}
    BY <1>3, <1>4 DEF PlanShape, steps
  <2>2. QED
    BY <2>1 DEF NoEvidenceNoAction, steps
<1>11. QED
  BY <1>9, <1>10 DEF inputs

\* What is recorded of a plan: as a success it blocked no step and escalated nothing, and
\* it needs a human when it escalates or a step waits for one or is blocked.
THEOREM EveryPlanRunTells ==
  ASSUME NEW item, NEW inputs, NEW caller
  PROVE  PlanRunsTell(item, inputs, caller)
<1> DEFINE plan == Plan(item, inputs, caller)
           steps == plan.steps
           run == PlanRun(item, inputs, caller)
           blocked == {i \in DOMAIN steps : steps[i].status = "blocked"}
<1>1. PlanShape(item, inputs, caller)
  BY PlanSteps
<1>2. Len(steps) \in {1, 2} /\ DOMAIN steps = 1..Len(steps) /\ Len(steps) \in DOMAIN steps
  BY <1>1 DEF PlanShape
<1>3. \A i \in DOMAIN steps : i = Len(steps) \/ (i = 1 /\ Len(steps) = 2)
  <2> HIDE DEF steps
  <2>1. QED
    BY <1>2
<1>4. \A i \in DOMAIN steps :
        /\ steps[i].approval => steps[i].status \in {"waiting_for_approval", "blocked"}
        /\ steps[i].status = "waiting_for_approval" => steps[i].approval
  BY <1>1, <1>3 DEF PlanShape
<1>5. /\ run.blocked = Cardinality(blocked) /\ run.traces = << >>
      /\ run.escalated = plan.escalated /\ run.failure = NoFailure
  BY DEF PlanRun
<1> HIDE DEF run
<1>6. Outcome(run) = "success" => ~(run.blocked > 0) /\ ~(run.blocked = 0 /\ EvaluateRun(run).escalated)
  BY DEF Outcome
<1>7. run.escalated => EvaluateRun(run).escalated
  BY DEF EvaluateRun
<1>8. run.blocked \in Nat /\ (run.blocked = 0 <=> blocked = {})
  <2>1. IsFiniteSet(blocked)
    <3>1. blocked \subseteq 1..Len(steps) /\ Len(steps) \in Int
      BY <1>2
    <3> HIDE DEF blocked, steps
    <3>2. IsFiniteSet(1..Len(steps))
      BY <3>1, FS_Interval
    <3>3. QED
      BY <3>1, <3>2, FS_Subset
  <2> HIDE DEF blocked
  <2>2. QED
    BY <1>5, <2>1, FS_CardinalityType, FS_EmptySet
<1>9. Outcome(run) = "success" => ~plan.escalated /\ blocked = {}
  BY <1>5, <1>6, <1>7, <1>8
<1> HIDE DEF plan
<1>10. QED
  BY <1>4, <1>9 DEF PlanRunsTell, RequiresHuman, run, plan
-----------------------------------------------------------------------------
(* What is recorded of an answer.                                            *)

\* Every answer of the copilot ends, and without a permission it is no success.
LEMMA EveryReplyEnds ==
  ASSUME NEW request, NEW caller, NEW db
  PROVE  /\ Ends(Reply(request, caller, db))
         /\ ~Permitted(request, caller) => Reply(request, caller, db).status # "success"
<1>1. CASE ~Permitted(request, caller)
  BY <1>1, AnswerOf DEF Refusal, Response, Ends, FailureType
<1>2. CASE Permitted(request, caller) /\ SelectTool(request) \in ReadTools
  BY <1>2, AnswerOf, ReadsMoveNothing
<1>3. CASE Permitted(request, caller) /\ SelectTool(request) \notin ReadTools
  BY <1>3, AnswerOf, ControlledMoves
<1>4. QED
  BY <1>1, <1>2, <1>3

\* A run with one trace fails as the run does, or else as its trace does.
LEMMA OneTrace ==
  ASSUME NEW run, NEW trace, run.traces = <<trace>>
  PROVE  LET e == EvaluateRun(run)
         IN /\ run.failure = NoFailure /\ trace.failure = NoFailure => e.failure = NoFailure /\ e.success
            /\ run.failure # NoFailure => e.failure = run.failure /\ ~e.success
<1>1. Len(run.traces) = 1 /\ run.traces[1] = trace
  OBVIOUS
<1>2. DOMAIN Recorded(run) = {0, 1} /\ Recorded(run)[0] = run.failure /\ Recorded(run)[1] = trace.failure
  BY <1>1 DEF Recorded
<1>3. CASE run.failure = NoFailure /\ trace.failure = NoFailure
  <2>1. FailuresOf(run) = {}
    BY <1>2, <1>3 DEF FailuresOf
  <2>2. QED
    BY <1>3, <2>1 DEF EvaluateRun
<1>4. CASE run.failure # NoFailure
  <2>1. 0 \in FailuresOf(run) /\ FailuresOf(run) \subseteq {0, 1}
    BY <1>2, <1>4 DEF FailuresOf
  <2>2. Min(FailuresOf(run)) = 0
    BY <2>1 DEF Min
  <2>3. FailuresOf(run) # {} /\ Recorded(run)[Min(FailuresOf(run))] = run.failure
    BY <1>2, <2>1, <2>2
  <2>4. QED
    BY <1>4, <2>3 DEF EvaluateRun
<1>5. QED
  BY <1>3, <1>4

\* What a run says of the answer it records.
LEMMA RunOfReply ==
  ASSUME NEW request, NEW expected, NEW caller, NEW db
  PROVE  LET run   == CopilotRun(request, expected, caller, db)
             answer == Reply(request, caller, db)
             e     == EvaluateRun(run)
         IN /\ run.blocked = IF "mutation" \in request.topics /\ request.execute = NoTool THEN 1 ELSE 0
            /\ run.traces[1].risk = Risk(SelectTool(request)) /\ DOMAIN run.traces = {1}
            /\ run.intent = Intent(request) /\ run.selected = SelectTool(request)
            /\ answer.status = "success" =>
                 e.success /\ e.failure = NoFailure /\ ~e.escalated /\ Permitted(request, caller)
            /\ answer.status # "success" =>
                 /\ ~e.success /\ e.escalated
                 /\ e.failure = IF Permitted(request, caller) THEN answer.failure ELSE "permission_denied"
            /\ e.escalated \in BOOLEAN
<1> DEFINE run == CopilotRun(request, expected, caller, db)
           answer == Reply(request, caller, db)
           e == EvaluateRun(run)
           failure == IF answer.failure = "none" THEN NoFailure ELSE answer.failure
           trace == [risk |-> Risk(answer.tool), failure |-> failure, escalated |-> answer.status # "success"]
<1>1. /\ run.traces = <<trace>>
      /\ run.failure = IF Permitted(request, caller) THEN failure ELSE "permission_denied"
      /\ run.blocked = IF "mutation" \in request.topics /\ request.execute = NoTool THEN 1 ELSE 0
      /\ run.intent = Intent(request) /\ run.selected = SelectTool(request)
  BY DEF CopilotRun
<1>2. run.escalated <=> answer.status # "success"
  BY DEF CopilotRun
<1>3. answer.tool = SelectTool(request)
  BY AnswerOf
<1>4. trace.risk = Risk(SelectTool(request)) /\ trace.failure = failure
  BY <1>3
<1>5. trace.escalated <=> answer.status # "success"
  OBVIOUS
<1>6. Ends(answer) /\ (~Permitted(request, caller) => answer.status # "success")
  BY EveryReplyEnds
<1>7. "permission_denied" # NoFailure /\ (answer.status # "success" => failure # NoFailure /\ failure = answer.failure)
      /\ (answer.status = "success" => failure = NoFailure)
  BY <1>6, FailureAssumption DEF Ends, FailureType
<1> HIDE DEF run, trace, failure
<1>8. run.traces[1] = trace /\ DOMAIN run.traces = {1}
  BY <1>1
<1>9. /\ e.escalated <=> run.escalated \/ \E i \in DOMAIN run.traces : run.traces[i].escalated
      /\ e.escalated \in BOOLEAN
  BY DEF EvaluateRun
<1>10. e.escalated <=> answer.status # "success"
  BY <1>2, <1>5, <1>8, <1>9
<1>11. answer.status = "success" => e.success /\ e.failure = NoFailure /\ Permitted(request, caller)
  BY <1>1, <1>4, <1>6, <1>7, OneTrace
<1>12. answer.status # "success" =>
         /\ ~e.success
         /\ e.failure = IF Permitted(request, caller) THEN answer.failure ELSE "permission_denied"
  BY <1>1, <1>7, OneTrace
<1>13. QED
  BY <1>1, <1>4, <1>8, <1>9, <1>10, <1>11, <1>12 DEF run

\* For every request, caller and database: a run recorded as blocked moved nothing, one
\* that moved something is a success, and whoever was refused for the role is recorded so.
THEOREM EveryRunTells ==
  ASSUME NEW request, NEW caller, NEW db
  PROVE  RunsTellWhatHappened(request, caller, db)
<1> DEFINE run == CopilotRun(request, NoTool, caller, db)
           answer == Reply(request, caller, db)
           e == EvaluateRun(run)
<1>1. /\ answer.moved # {} => request.execute # NoTool
      /\ Permitted(request, caller) => answer.failure # "permission_denied"
  BY EveryReplyIsPermitted DEF WordsMoveNothing, TableMatchesServices
<1>2. /\ run.blocked \in {0, 1}
      /\ answer.moved # {} => run.blocked = 0
      /\ answer.status = "success" =>
           e.success /\ e.failure = NoFailure /\ ~e.escalated /\ Permitted(request, caller)
      /\ answer.status # "success" =>
           /\ ~e.success /\ e.escalated
           /\ e.failure = IF Permitted(request, caller) THEN answer.failure ELSE "permission_denied"
  BY <1>1, RunOfReply
<1>3. answer.moved # {} => answer.status = "success"
  <2>1. CASE ~Permitted(request, caller)
    BY <2>1, AnswerOf DEF Refusal, Response
  <2>2. CASE Permitted(request, caller) /\ SelectTool(request) \in ReadTools
    BY <2>2, AnswerOf, ReadsMoveNothing
  <2>3. CASE Permitted(request, caller) /\ SelectTool(request) \notin ReadTools
    BY <2>3, AnswerOf, ControlledMoves
  <2>4. QED
    BY <2>1, <2>2, <2>3
<1>4. NoFailure # "permission_denied"
  BY FailureAssumption DEF FailureType
<1> HIDE DEF run, answer
<1>5. /\ answer.status = "success" /\ run.blocked = 0 => Outcome(run) = "success"
      /\ answer.status = "success" /\ run.blocked = 1 => Outcome(run) = "blocked"
      /\ answer.status # "success" => Outcome(run) \in {"blocked", "confirmation_required", "human_escalation"}
  BY <1>2 DEF Outcome
<1>6. QED
  BY <1>1, <1>2, <1>3, <1>4, <1>5 DEF RunsTellWhatHappened, run, answer
\* A scenario of a question is met by a run that answers it with success.
LEMMA QuestionIsMet ==
  ASSUME NEW role, NEW status, NEW request, NEW tool \in ReadTools, NEW caller, NEW db,
         SelectTool(request) = tool, request.execute = NoTool, "mutation" \notin request.topics,
         Reply(request, caller, db).status = "success"
  PROVE  ScenarioPassed(Expect(role, status, request, tool), CopilotRun(request, NoTool, caller, db))
<1> DEFINE run == CopilotRun(request, NoTool, caller, db)
           e == EvaluateRun(run)
           scenario == Expect(role, status, request, tool)
<1>1. /\ run.blocked = 0 /\ run.intent = tool /\ run.selected = tool
      /\ DOMAIN run.traces = {1} /\ run.traces[1].risk = Risk(tool)
      /\ e.failure = NoFailure /\ e.escalated = FALSE
  BY RunOfReply DEF Intent
<1>2. tool # "blocked_action" /\ Risk(tool) # "blocked"
  BY DEF ReadTools, Risk
<1>3. scenario.intent = tool /\ scenario.tool = tool /\ scenario.risk = Risk(tool)
      /\ scenario.outcome = "success" /\ scenario.failure = NoFailure /\ scenario.escalate = FALSE
  BY <1>2 DEF Expect, Scenario
<1> HIDE DEF run, scenario
<1>4. Outcome(run) = "success"
  BY <1>1 DEF Outcome
<1>5. QED
  BY <1>1, <1>2, <1>3, <1>4 DEF ScenarioPassed, run, scenario

\* A scenario of a command without a confirmation is met by a run that asks for it.
LEMMA CommandIsMet ==
  ASSUME NEW role, NEW status, NEW request, NEW tool \in AgentTools \ ReadTools, NEW caller, NEW db,
         request.execute = tool, ~request.confirmed, CanBeCalledBy(tool, caller)
  PROVE  ScenarioPassed(ExpectConfirmation(role, status, request, tool),
                        CopilotRun(request, NoTool, caller, db))
<1> DEFINE run == CopilotRun(request, NoTool, caller, db)
           e == EvaluateRun(run)
           scenario == ExpectConfirmation(role, status, request, tool)
<1>1. request.execute # NoTool /\ SelectTool(request) = tool
  BY ToolAssumption DEF SelectTool
<1>2. Permitted(request, caller)
  BY <1>1 DEF Permitted
<1>3. Reply(request, caller, db) = Refusal(tool, "confirmation_required", "confirmation_required")
  <2>1. Reply(request, caller, db) = Execute(request, caller, db)
    BY <1>1, <1>2, AnswerOf
  <2>2. QED
    BY <2>1 DEF Execute, RequiresConfirmation
<1>4. Reply(request, caller, db).status # "success" /\ Reply(request, caller, db).failure = "confirmation_required"
  BY <1>3 DEF Refusal, Response
<1>5. /\ run.blocked = 0 /\ run.intent = "execute_controlled_tool" /\ run.selected = tool
      /\ DOMAIN run.traces = {1} /\ run.traces[1].risk = Risk(tool)
      /\ e.failure = "confirmation_required" /\ e.escalated = TRUE
  BY <1>1, <1>2, <1>4, RunOfReply DEF Intent
<1>6. tool # "blocked_action" /\ Risk(tool) # "blocked"
  BY DEF AgentTools, ReadTools, ReviewTools, Risk
<1>7. scenario.intent = "execute_controlled_tool" /\ scenario.tool = tool /\ scenario.risk = Risk(tool)
      /\ scenario.outcome = "confirmation_required_or_success"
      /\ scenario.failure = "confirmation_required" /\ scenario.escalate = TRUE
  BY <1>6 DEF ExpectConfirmation, Scenario
<1> HIDE DEF run, scenario
<1>8. Outcome(run) = "confirmation_required"
  BY <1>5 DEF Outcome
<1>9. QED
  BY <1>5, <1>6, <1>7, <1>8 DEF ScenarioPassed, run, scenario

\* Which tool the words of the scenarios select.
LEMMA WordsOfScenarios ==
  ASSUME NEW d, d # NoDocument
  PROVE  /\ SelectTool(Asks({"metrics"}, NoDocument, NoTool)) = "get_metrics_summary"
         /\ SelectTool(Asks({"review"}, NoDocument, NoTool)) = "list_review_queue"
         /\ \A topics : SelectTool(Asks(topics, d, NoTool)) = "get_document_detail"
<1> DEFINE rules(topics) == {i \in DOMAIN RoutingRules : RoutingRules[i].topic \in topics}
<1>1. /\ RoutingRules[2].tool = "list_review_queue" /\ RoutingRules[3].tool = "get_metrics_summary"
      /\ rules({"metrics"}) = {3} /\ rules({"review"}) = {2}
  BY DEF RoutingRules
<1>2. Min({3}) = 3 /\ Min({2}) = 2
  BY DEF Min
<1>3. \A topics, document :
        LET request == Asks(topics, document, NoTool)
        IN request.topics = topics /\ request.document = document /\ request.execute = NoTool
  BY DEF Asks
<1>4. ASSUME NEW topics, rules(topics) # {}
      PROVE  SelectTool(Asks(topics, NoDocument, NoTool)) = RoutingRules[Min(rules(topics))].tool
  <2> DEFINE request == Asks(topics, NoDocument, NoTool)
  <2>1. request.topics = topics /\ request.document = NoDocument /\ request.execute = NoTool
    BY <1>3
  <2> HIDE DEF request
  <2>2. SelectTool(request) =
          LET names == {i \in DOMAIN RoutingRules : RoutingRules[i].topic \in request.topics}
          IN IF names = {} THEN "get_metrics_summary" ELSE RoutingRules[Min(names)].tool
    BY <2>1 DEF SelectTool
  <2>3. QED
    BY <1>4, <2>1, <2>2 DEF request
<1>5. \A topics : SelectTool(Asks(topics, d, NoTool)) = "get_document_detail"
  BY <1>3 DEF SelectTool
<1>6. QED
  BY <1>1, <1>2, <1>4, <1>5

\* For every caller and database: a scenario of the dataset made for this caller and
\* document is met, and the three others never are.
THEOREM EveryScenarioIsMet ==
  ASSUME NEW caller, NEW db, NEW d \in DOMAIN db.doc, d # NoDocument
  PROVE  ScenariosAreMet(d, caller, db)
<1> DEFINE passes(s) == ScenarioPassed(s, CopilotRun(s.request, NoTool, caller, db))
           made(s) == /\ s.role = caller.role /\ HonestRole(caller)
                      /\ s.status \in {Absent, db.doc[d].status} /\ db.doc[d].home = caller.workspace
\* The questions.
<1>1. ASSUME NEW role, NEW status, NEW topics, NEW document, NEW tool \in ReadTools,
             made(Expect(role, status, Asks(topics, document, NoTool), tool)),
             SelectTool(Asks(topics, document, NoTool)) = tool, "mutation" \notin topics,
             role \in AllowedRoles(tool),
             tool = "get_document_detail" => document = d /\ status # Absent
      PROVE  passes(Expect(role, status, Asks(topics, document, NoTool), tool))
  <2> DEFINE request == Asks(topics, document, NoTool)
             s == Expect(role, status, request, tool)
  <2>1. s.role = role /\ s.status = status /\ s.request = request
    BY DEF Expect, Scenario
  <2>2. request.topics = topics /\ request.document = document /\ request.execute = NoTool
    BY DEF Asks
  <2>3. CanBeCalledBy(tool, caller)
    BY <1>1, <2>1 DEF CanBeCalledBy
  <2> HIDE DEF request
  <2>4. Permitted(request, caller) /\ SelectTool(request) = tool
    BY <1>1, <2>3 DEF Permitted, request
  <2>5. Reply(request, caller, db) = Create(tool, request, caller, db)
    BY <2>4, AnswerOf
  <2>6. Reply(request, caller, db).status = "success"
    <3>1. CASE tool = "get_document_detail"
      <4>1. d \in Own(db, caller) /\ Exists(db, d) /\ request.document = d
        BY <1>1, <2>1, <2>2, <3>1 DEF Own, Exists, request
      <4>2. QED
        BY <2>5, <3>1, <4>1 DEF Create, DocumentDetail, Success, Response
    <3>2. CASE tool = "list_review_queue"
      BY <2>3, <2>5, <3>2 DEF Create, ReviewQueue, Success, Response, CanBeCalledBy, AllowedRoles
    <3>3. CASE tool \in ReadTools \ {"get_document_detail", "list_review_queue"}
      BY <2>5, <3>3 DEF Create, Success, Response, ReadTools
    <3>4. QED
      BY <3>1, <3>2, <3>3
  <2>7. QED
    BY <1>1, <2>1, <2>2, <2>4, <2>6, QuestionIsMet DEF request
\* The commands.
<1>2. ASSUME NEW role, NEW status, NEW topics, NEW tool \in AgentTools \ ReadTools,
             made(ExpectConfirmation(role, status, Asks(topics, d, tool), tool)),
             role \in AllowedRoles(tool)
      PROVE  passes(ExpectConfirmation(role, status, Asks(topics, d, tool), tool))
  <2> DEFINE request == Asks(topics, d, tool)
             s == ExpectConfirmation(role, status, request, tool)
  <2>1. s.role = role /\ s.request = request
    BY DEF ExpectConfirmation, Scenario
  <2>2. request.execute = tool /\ ~request.confirmed
    BY DEF Asks
  <2>3. CanBeCalledBy(tool, caller)
    BY <1>2, <2>1 DEF CanBeCalledBy
  <2> HIDE DEF request
  <2>4. QED
    BY <2>1, <2>2, <2>3, CommandIsMet DEF request
<1>3. ASSUME NEW s \in Scenarios(d), made(s) PROVE passes(s)
  <2>1. /\ "admin" \in AllowedRoles("get_metrics_summary") /\ "reviewer" \in AllowedRoles("list_review_queue")
        /\ {"admin", "operator"} \subseteq AllowedRoles("get_document_detail")
        /\ "operator" \in AllowedRoles("process_document") /\ "admin" \in AllowedRoles("export_approved_csv")
    BY DEF AllowedRoles, ReadRoles, ReviewRoles, ReviewTools
  <2>2. {"get_metrics_summary", "list_review_queue", "get_document_detail"} \subseteq ReadTools
        /\ {"process_document", "export_approved_csv"} \subseteq AgentTools \ ReadTools
    BY DEF ReadTools, AgentTools, ReviewTools
  <2>3. CASE s = Expect("admin", Absent, Asks({"metrics"}, NoDocument, NoTool), "get_metrics_summary")
    BY <1>1, <1>3, <2>1, <2>2, <2>3, WordsOfScenarios
  <2>4. CASE s = Expect("reviewer", "needs_review", Asks({"review"}, NoDocument, NoTool), "list_review_queue")
    BY <1>1, <1>3, <2>1, <2>2, <2>4, WordsOfScenarios
  <2>5. CASE s = Expect("admin", "needs_review", Asks({"documents"}, d, NoTool), "get_document_detail")
    BY <1>1, <1>3, <2>1, <2>2, <2>5, WordsOfScenarios DEF Absent
  <2>6. CASE s = Expect("operator", "queued", Asks({}, d, NoTool), "get_document_detail")
    BY <1>1, <1>3, <2>1, <2>2, <2>6, WordsOfScenarios DEF Absent
  <2>7. CASE s = ExpectConfirmation("operator", "queued",
                   Asks({"mutation", "documents"}, d, "process_document"), "process_document")
    BY <1>2, <1>3, <2>1, <2>2, <2>7
  <2>8. CASE s = ExpectConfirmation("admin", "approved",
                   Asks({"mutation", "documents"}, d, "export_approved_csv"), "export_approved_csv")
    BY <1>2, <1>3, <2>1, <2>2, <2>8
  <2>9. QED
    BY <1>3, <2>3, <2>4, <2>5, <2>6, <2>7, <2>8 DEF Scenarios
\* The three others: the intent of no route, an outcome of no run, and a blocked run.
<1>4. ASSUME NEW s \in UnmetScenarios(d) PROVE ~passes(s)
  <2> DEFINE run == CopilotRun(s.request, NoTool, caller, db)
  <2>1. ASSUME s.intent = "blocked_request", s.request.execute = NoTool PROVE ~passes(s)
    <3>1. run.intent \in ReadTools
      BY <2>1, RunOfReply, WordsSelectReads DEF Intent
    <3>2. run.intent # s.intent
      BY <2>1, <3>1 DEF ReadTools
    <3>3. QED
      BY <3>2 DEF ScenarioPassed
  <2>2. ASSUME s.outcome = "safe_failure" PROVE ~passes(s)
    <3>1. Outcome(run) # "safe_failure"
      BY EveryRunTells DEF RunsTellWhatHappened
    <3>2. QED
      BY <2>2, <3>1 DEF ScenarioPassed
  <2>3. ASSUME s.outcome = "human_escalation", "mutation" \in s.request.topics, s.request.execute = NoTool
        PROVE ~passes(s)
    <3>1. run.blocked = 1
      BY <2>3, RunOfReply
    <3> HIDE DEF run
    <3>2. Outcome(run) = "blocked"
      BY <3>1 DEF Outcome
    <3>3. QED
      BY <2>3, <3>2 DEF ScenarioPassed, run
  <2>4. QED
    BY <2>1, <2>2, <2>3 DEF UnmetScenarios, Scenario, Asks
<1>5. QED
  BY <1>3, <1>4 DEF ScenariosAreMet
-----------------------------------------------------------------------------
(* The order of the steps of a plan.                                         *)

\* f is the recursive function behind Found, on the indices up to n.
Finds(f, n, actual, expected) ==
  f = [S \in SUBSET (1..n) |-> IF S = {} THEN 0 ELSE After(actual, f[S \ {Max(S)}], expected[Max(S)])]

\* One or two actions are found one after the other.
LEMMA FoundFew ==
  ASSUME NEW actual, NEW expected, NEW n \in {1, 2}, DOMAIN expected = 1..n
  PROVE  Found(actual, expected) =
           IF n = 1 THEN After(actual, 0, expected[1])
           ELSE After(actual, After(actual, 0, expected[1]), expected[2])
<1> DEFINE one == After(actual, 0, expected[1])
           two == After(actual, 0, expected[2])
           both == After(actual, one, expected[2])
           g == [S \in SUBSET (1..n) |-> IF S = {} THEN 0 ELSE IF 2 \notin S THEN one
                                         ELSE IF 1 \notin S THEN two ELSE both]
           f == CHOOSE h : Finds(h, n, actual, expected)
<1>1. Max({1}) = 1 /\ Max({2}) = 2 /\ Max({1, 2}) = 2
  BY DEF Max
<1>2. {1} \ {1} = {} /\ {2} \ {2} = {} /\ {1, 2} \ {2} = {1}
  OBVIOUS
<1>3. \A S \in SUBSET (1..n) : S \in {{}, {1}, {2}, {1, 2}}
  <2> TAKE S \in SUBSET (1..n)
  <2>1. S \subseteq {1, 2}
    OBVIOUS
  <2>2. QED
    BY <2>1
<1>4. {} \in SUBSET (1..n) /\ {1} \in SUBSET (1..n)
      /\ ({2} \in SUBSET (1..n) => n = 2) /\ (n = 2 => {1, 2} \in SUBSET (1..n)) /\ ({1, 2} \in SUBSET (1..n) => n = 2)
  OBVIOUS
<1>5. Finds(g, n, actual, expected)
  <2>1. ASSUME NEW S \in SUBSET (1..n), S # {}
        PROVE  g[S] = After(actual, g[S \ {Max(S)}], expected[Max(S)])
    <3>1. CASE S = {1}
      BY <1>1, <1>2, <1>4, <3>1
    <3>2. CASE S = {2}
      BY <1>1, <1>2, <1>4, <2>1, <3>2
    <3>3. CASE S = {1, 2}
      BY <1>1, <1>2, <1>4, <2>1, <3>3
    <3>4. QED
      BY <1>3, <2>1, <3>1, <3>2, <3>3
  <2>2. g[{}] = 0
    BY <1>4
  <2>3. QED
    BY <2>1, <2>2 DEF Finds
<1>6. Finds(f, n, actual, expected)
  BY <1>5
<1>7. Found(actual, expected) = f[1..n]
  BY DEF Found, FoldLeft, MapThenFoldSet, Finds
<1> HIDE DEF f, g
<1>8. f[{}] = 0 /\ \A S \in SUBSET (1..n) : S # {} => f[S] = After(actual, f[S \ {Max(S)}], expected[Max(S)])
  BY <1>4, <1>6 DEF Finds
<1>9. f[{1}] = one
  <2>1. f[{1}] = After(actual, f[{1} \ {Max({1})}], expected[Max({1})])
    BY <1>4, <1>8
  <2>2. QED
    BY <1>1, <1>2, <1>8, <2>1
<1>10. CASE n = 1
  <2>1. 1..n = {1}
    BY <1>10
  <2>2. QED
    BY <1>7, <1>9, <1>10, <2>1
<1>11. CASE n = 2
  <2>1. 1..n = {1, 2}
    BY <1>11
  <2>2. f[{1, 2}] = both
    <3>1. f[{1, 2}] = After(actual, f[{1, 2} \ {Max({1, 2})}], expected[Max({1, 2})])
      BY <1>4, <1>8, <1>11
    <3>2. QED
      BY <1>1, <1>2, <1>9, <3>1
  <2>3. QED
    BY <1>7, <1>11, <2>1, <2>2
<1>12. QED
  BY <1>10, <1>11

\* The next place of an action is the first one there is, or past the end.
LEMMA NextPlace ==
  ASSUME NEW m \in Nat, NEW actual, DOMAIN actual = 1..m, Len(actual) = m, NEW start \in Nat, NEW action
  PROVE  LET place == After(actual, start, action)
         IN /\ place \in 1..(m + 1)
            /\ place <= m => actual[place] = action /\ start < place
            /\ \A i \in 1..m : start < i /\ actual[i] = action => place <= i
<1> DEFINE later == {i \in DOMAIN actual : i > start /\ actual[i] = action}
<1>1. CASE later = {}
  <2>1. After(actual, start, action) = m + 1
    BY <1>1 DEF After
  <2>2. \A i \in 1..m : ~(start < i /\ actual[i] = action)
    BY <1>1
  <2>3. QED
    BY <2>1, <2>2
<1>2. CASE later # {}
  <2>1. After(actual, start, action) = Min(later)
    BY <1>2 DEF After
  <2>2. later \subseteq Nat
    OBVIOUS
  <2> HIDE DEF later
  <2>3. Min(later) \in later /\ \A i \in later : Min(later) <= i
    BY <1>2, <2>2, Smallest DEF Min
  <2> DEFINE place == Min(later)
  <2>4. place \in later /\ \A i \in later : place <= i
    BY <2>3
  <2>5. After(actual, start, action) = place
    BY <2>1
  <2> HIDE DEF place
  <2>6. QED
    BY <2>4, <2>5 DEF later
<1>3. QED
  BY <1>1, <1>2

Embeds(actual, expected) ==
  \E f \in [DOMAIN expected -> DOMAIN actual] :
    /\ \A i \in DOMAIN expected : actual[f[i]] = expected[i]
    /\ \A i, j \in DOMAIN expected : i < j => f[i] < f[j]

\* Few actions are found when they are there in their order.
LEMMA FoundWhenEmbedded ==
  ASSUME NEW n \in {1, 2}, NEW expected, DOMAIN expected = 1..n,
         NEW m \in Nat, NEW actual, DOMAIN actual = 1..m, Len(actual) = m
  PROVE  ContainsInOrder(actual, expected) <=> Embeds(actual, expected)
<1> DEFINE a == expected[1]
           b == expected[2]
           first == After(actual, 0, a)
           second == After(actual, first, b)
<1>1. /\ first \in 1..(m + 1)
      /\ first <= m => actual[first] = a
      /\ \A i \in 1..m : actual[i] = a => first <= i
  BY NextPlace
<1>2. /\ second \in 1..(m + 1)
      /\ second <= m => actual[second] = b /\ first < second
      /\ \A i \in 1..m : first < i /\ actual[i] = b => second <= i
  <2> HIDE DEF first, b
  <2>1. first \in Nat
    BY <1>1
  <2>2. QED
    BY <2>1, NextPlace
<1> HIDE DEF a, b, first, second
<1>3. CASE n = 1
  <2>1. ContainsInOrder(actual, expected) <=> first <= m
    BY <1>3, FoundFew DEF ContainsInOrder, first, a
  <2>2. Embeds(actual, expected) <=> \E i \in 1..m : actual[i] = a
    <3>1. ASSUME NEW i \in 1..m, actual[i] = a PROVE Embeds(actual, expected)
      <4> DEFINE f == [k \in DOMAIN expected |-> i]
      <4>1. f \in [DOMAIN expected -> DOMAIN actual] /\ \A k \in DOMAIN expected : k = 1 /\ f[k] = i
        BY <1>3, <3>1
      <4>2. (\A k \in DOMAIN expected : actual[f[k]] = expected[k])
            /\ (\A k, j \in DOMAIN expected : k < j => f[k] < f[j])
        BY <3>1, <4>1 DEF a
      <4>3. QED
        BY <4>1, <4>2 DEF Embeds
    <3>2. QED
      BY <1>3, <3>1 DEF Embeds, a
  <2>3. QED
    BY <1>1, <2>1, <2>2
<1>4. CASE n = 2
  <2>1. ContainsInOrder(actual, expected) <=> second <= m
    BY <1>4, FoundFew DEF ContainsInOrder, second, first, a, b
  <2>2. Embeds(actual, expected) <=> \E i, j \in 1..m : i < j /\ actual[i] = a /\ actual[j] = b
    <3>1. ASSUME NEW i \in 1..m, NEW j \in 1..m, i < j, actual[i] = a, actual[j] = b
          PROVE  Embeds(actual, expected)
      <4> DEFINE f == [k \in DOMAIN expected |-> IF k = 1 THEN i ELSE j]
      <4>1. f \in [DOMAIN expected -> DOMAIN actual] /\ f[1] = i /\ f[2] = j
            /\ \A k \in DOMAIN expected : k = 1 \/ k = 2
        BY <1>4
      <4>2. (\A k \in DOMAIN expected : actual[f[k]] = expected[k])
            /\ (\A k, l \in DOMAIN expected : k < l => f[k] < f[l])
        BY <3>1, <4>1 DEF a, b
      <4>3. QED
        BY <4>1, <4>2 DEF Embeds
    <3>2. ASSUME Embeds(actual, expected)
          PROVE  \E i, j \in 1..m : i < j /\ actual[i] = a /\ actual[j] = b
      <4>1. PICK f \in [DOMAIN expected -> DOMAIN actual] :
              /\ \A i \in DOMAIN expected : actual[f[i]] = expected[i]
              /\ \A i, j \in DOMAIN expected : i < j => f[i] < f[j]
        BY <3>2 DEF Embeds
      <4>2. 1 \in DOMAIN expected /\ 2 \in DOMAIN expected
        BY <1>4
      <4>3. f[1] \in 1..m /\ f[2] \in 1..m /\ f[1] < f[2] /\ actual[f[1]] = a /\ actual[f[2]] = b
        BY <4>1, <4>2 DEF a, b
      <4>4. QED
        BY <4>3
    <3>3. QED
      BY <3>1, <3>2
  <2>3. ASSUME second <= m PROVE \E i, j \in 1..m : i < j /\ actual[i] = a /\ actual[j] = b
    <3>1. first < second /\ actual[second] = b /\ second \in 1..m /\ first \in 1..m /\ actual[first] = a
      BY <1>1, <1>2, <2>3
    <3>2. QED
      BY <3>1
  <2>4. ASSUME NEW i \in 1..m, NEW j \in 1..m, i < j, actual[i] = a, actual[j] = b PROVE second <= m
    <3>1. first <= i
      BY <1>1, <2>4
    <3>2. first < j
      BY <1>1, <2>4, <3>1
    <3>3. second <= j
      BY <1>2, <2>4, <3>2
    <3>4. QED
      BY <1>2, <3>3
  <2>5. QED
    BY <2>1, <2>2, <2>3, <2>4
<1>5. QED
  BY <1>3, <1>4
\* For every work item, evidence and caller: the decisions recorded for a plan contain its
\* steps in order, also after those of an earlier plan; and an earlier one alone contains
\* them just when they can be picked out of it in their order.
THEOREM EveryPlanIsContained ==
  ASSUME NEW item, NEW inputs, NEW caller
  PROVE  PlanContainsItsSteps(item, inputs, caller)
<1> DEFINE steps == Plan(item, inputs, caller).steps
           actions == [i \in DOMAIN steps |-> steps[i].action]
           n == Len(steps)
           V == {actions[i] : i \in 1..n} \union {"inspect_queue"}
<1>1. n \in {1, 2} /\ DOMAIN steps = 1..n
  BY PlanSteps DEF PlanShape
<1> HIDE DEF steps, n
<1>2. DOMAIN actions = 1..n /\ actions \in Seq(V) /\ Len(actions) = n
  BY <1>1
<1> HIDE DEF actions
<1>3. ASSUME NEW earlier \in Seq(V)
      PROVE  /\ ContainsInOrder(earlier \o actions, actions)
             /\ ContainsInOrder(earlier, actions) <=> Embeds(earlier, actions)
  <2> DEFINE both == earlier \o actions
             m == Len(earlier)
  <2>1. m \in Nat /\ DOMAIN earlier = 1..m
    OBVIOUS
  <2>2. both \in Seq(V) /\ Len(both) = m + n /\ DOMAIN both = 1..(m + n)
    <3>1. both \in Seq(V) /\ Len(both) = m + n
      BY <1>2, ConcatProperties
    <3> HIDE DEF both
    <3>2. QED
      BY <3>1
  <2>3. \A i \in 1..n : both[m + i] = actions[i]
    <3> TAKE i \in 1..n
    <3>1. m + i \in 1..(m + n) /\ ~(m + i <= m) /\ (m + i) - m = i
      BY <1>1, <2>1
    <3> HIDE DEF m
    <3>2. QED
      BY <1>2, <3>1, ConcatProperties DEF m
  <2> HIDE DEF both, m
  <2>4. Embeds(both, actions)
    <3> DEFINE f == [i \in DOMAIN actions |-> m + i]
    <3>1. f \in [DOMAIN actions -> DOMAIN both]
      BY <1>1, <1>2, <2>1, <2>2
    <3>2. \A i \in DOMAIN actions : both[f[i]] = actions[i]
      BY <1>2, <2>3
    <3>3. \A i, j \in DOMAIN actions : i < j => f[i] < f[j]
      BY <1>1, <1>2, <2>1
    <3> HIDE DEF f
    <3>4. QED
      BY <3>1, <3>2, <3>3 DEF Embeds
  <2>5. ContainsInOrder(both, actions)
    <3>1. m + n \in Nat
      BY <1>1, <2>1
    <3>2. QED
      BY <1>1, <1>2, <2>2, <2>4, <3>1, FoundWhenEmbedded
  <2>6. ContainsInOrder(earlier, actions) <=> Embeds(earlier, actions)
    BY <1>1, <1>2, <2>1, FoundWhenEmbedded DEF m
  <2>7. QED
    BY <2>5, <2>6 DEF both
<1>4. << >> \in Seq(V) /\ <<"inspect_queue">> \in Seq(V)
  OBVIOUS
<1>5. Tail(actions) \in Seq(V)
  <2> HIDE DEF V
  <2>1. actions # << >>
    BY <1>1, <1>2
  <2>2. QED
    BY <1>2, <2>1
<1>6. Reverse(actions) \in Seq(V)
  <2>1. \A i \in 1..n : n - i + 1 \in 1..n
    BY <1>1
  <2> HIDE DEF V
  <2>2. \A i \in 1..n : actions[n - i + 1] \in V
    BY <1>2, <2>1
  <2>3. Reverse(actions) = [i \in 1..n |-> actions[n - i + 1]]
    BY <1>2 DEF Reverse
  <2>4. QED
    BY <1>1, <2>2, <2>3
<1> HIDE DEF V
<1>7. \A earlier \in {<< >>, <<"inspect_queue">>, Tail(actions), Reverse(actions)} :
        /\ ContainsInOrder(earlier \o actions, actions)
        /\ ContainsInOrder(earlier, actions) <=> Embeds(earlier, actions)
  BY <1>3, <1>4, <1>5, <1>6
<1>8. QED
  BY <1>7, Zenon DEF PlanContainsItsSteps, Embeds, actions, steps

-----------------------------------------------------------------------------
(* Sums, counts and stretches of sequences.                                  *)

\* What a function makes of a finite set is finite, and no larger.
LEMMA FiniteImage ==
  ASSUME NEW S, IsFiniteSet(S), NEW f
  PROVE  LET T == {f[x] : x \in S} IN IsFiniteSet(T) /\ Cardinality(T) <= Cardinality(S)
<1> DEFINE T == {f[x] : x \in S}
           h == [x \in S |-> f[x]]
<1>1. h \in Surjection(S, T)
  BY DEF Surjection
<1> HIDE DEF h, T
<1>2. IsFiniteSet(T) /\ Cardinality(T) <= Cardinality(S)
  BY <1>1, FS_Surjection
<1>3. QED
  BY <1>2 DEF T

\* f is the recursive function behind the sum of g over a finite set.
Sums(f, g, S) ==
  f = [T \in SUBSET S |-> IF T = {} THEN 0
                          ELSE g[CHOOSE x \in T : TRUE] + f[T \ {CHOOSE x \in T : TRUE}]]

\* What the parts of the members of T have.
Union(part, T) == UNION {part[x] : x \in T}

Apart(part, S) ==
  /\ \A x \in S : IsFiniteSet(part[x])
  /\ \A x, y \in S : x # y => part[x] \intersect part[y] = {}

\* One member more.
LEMMA PartMore ==
  ASSUME NEW S, NEW part, Apart(part, S), NEW T \in SUBSET S, IsFiniteSet(T), NEW x \in T
  PROVE  /\ IsFiniteSet(Union(part, T))
         /\ Cardinality(Union(part, T)) = Cardinality(part[x]) + Cardinality(Union(part, T \ {x}))
<1> DEFINE rest == T \ {x}
<1>1. IsFiniteSet(rest)
  BY FS_RemoveElement
<1>2. ASSUME NEW R \in SUBSET S, IsFiniteSet(R) PROVE IsFiniteSet(Union(part, R))
  <2> DEFINE parts == {part[y] : y \in R}
  <2>1. IsFiniteSet(parts)
    BY <1>2, FiniteImage
  <2>2. \A U \in parts : IsFiniteSet(U)
    BY DEF Apart
  <2> HIDE DEF parts
  <2>3. IsFiniteSet(UNION parts)
    BY <2>1, <2>2, FS_UNION
  <2>4. QED
    BY <2>3 DEF Union, parts
<1>3. Union(part, T) = part[x] \union Union(part, rest)
  BY DEF Union
<1>4. part[x] \intersect Union(part, rest) = {}
  BY DEF Union, Apart
<1>5. IsFiniteSet(part[x]) /\ IsFiniteSet(Union(part, rest)) /\ IsFiniteSet(Union(part, T))
  BY <1>1, <1>2 DEF Apart
<1> DEFINE a == part[x]
           b == Union(part, rest)
<1>6. Cardinality(a \union b) = Cardinality(a) + Cardinality(b) - Cardinality(a \intersect b)
  <2> HIDE DEF a, b
  <2> QED
    BY <1>5, FS_Union DEF a, b
<1>7. Cardinality(a \intersect b) = 0
  BY <1>4, FS_EmptySet
<1>8. Cardinality(a) \in Nat /\ Cardinality(b) \in Nat
  BY <1>5, FS_CardinalityType
<1> HIDE DEF rest
<1>9. Cardinality(a \union b) = Cardinality(a) + Cardinality(b)
  BY <1>6, <1>7, <1>8
<1>10. QED
  BY <1>3, <1>5, <1>9 DEF rest

\* There is such a function: it counts what the parts have.
LEMMA SumsCount ==
  ASSUME NEW S, IsFiniteSet(S), NEW part, Apart(part, S),
         NEW g, \A x \in S : g[x] = Cardinality(part[x])
  PROVE  Sums([T \in SUBSET S |-> Cardinality(Union(part, T))], g, S)
<1> DEFINE f == [T \in SUBSET S |-> Cardinality(Union(part, T))]
<1>1. f[{}] = 0
  <2>1. Union(part, {}) = {}
    BY DEF Union
  <2>2. QED
    BY <2>1, FS_EmptySet
<1>2. ASSUME NEW T \in SUBSET S, T # {}
      PROVE f[T] = g[CHOOSE x \in T : TRUE] + f[T \ {CHOOSE x \in T : TRUE}]
  <2> DEFINE c == CHOOSE x \in T : TRUE
  <2>1. c \in T
    BY <1>2
  <2>2. IsFiniteSet(T)
    BY FS_Subset
  <2> HIDE DEF c
  <2>3. Cardinality(Union(part, T)) = Cardinality(part[c]) + Cardinality(Union(part, T \ {c}))
    BY <2>1, <2>2, PartMore
  <2>4. f[T] = g[c] + f[T \ {c}]
    BY <2>1, <2>3
  <2>5. QED
    BY <2>4 DEF c
<1>3. QED
  BY <1>1, <1>2 DEF Sums

\* There is no other.
LEMMA SumsAreOne ==
  ASSUME NEW S, IsFiniteSet(S), NEW g, NEW e, Sums(e, g, S), NEW f, Sums(f, g, S)
  PROVE  e[S] = f[S]
<1> DEFINE bad == {n \in Nat : \E T \in SUBSET S : Cardinality(T) = n /\ e[T] # f[T]}
<1>1. SUFFICES ASSUME e[S] # f[S] PROVE FALSE
  OBVIOUS
<1>2. Cardinality(S) \in bad
  BY <1>1, FS_CardinalityType
<1>3. PICK n \in bad : \A m \in bad : n <= m
  <2>1. bad \in SUBSET Nat
    OBVIOUS
  <2> HIDE DEF bad
  <2>2. QED
    BY <1>2, <2>1, Smallest
<1>4. PICK T \in SUBSET S : Cardinality(T) = n /\ e[T] # f[T]
  BY <1>3
<1>5. T # {}
  BY <1>4 DEF Sums
<1> DEFINE c == CHOOSE x \in T : TRUE
<1>6. c \in T
  BY <1>5
<1>7. e[T] = g[c] + e[T \ {c}] /\ f[T] = g[c] + f[T \ {c}]
  BY <1>5 DEF Sums
<1>8. e[T \ {c}] # f[T \ {c}]
  BY <1>4, <1>7
<1> HIDE DEF c
<1>9. IsFiniteSet(T \ {c}) /\ Cardinality(T \ {c}) = n - 1 /\ Cardinality(T \ {c}) \in Nat
  <2>1. IsFiniteSet(T)
    BY FS_Subset
  <2>2. IsFiniteSet(T \ {c}) /\ Cardinality(T \ {c}) = Cardinality(T) - 1
    BY <1>6, <2>1, FS_RemoveElement
  <2>3. QED
    BY <1>4, <2>2, FS_CardinalityType
<1>10. n - 1 \in bad
  BY <1>8, <1>9
<1>11. n \in Nat /\ ~(n <= n - 1)
  BY <1>3
<1> HIDE DEF bad
<1>12. QED
  BY <1>3, <1>10, <1>11

\* A sum of sizes of disjoint finite sets is the size of their union.
LEMMA SumOfParts ==
  ASSUME NEW S, IsFiniteSet(S), NEW part, Apart(part, S),
         NEW g, DOMAIN g = S, \A x \in S : g[x] = Cardinality(part[x])
  PROVE  /\ SumFunction(g) = Cardinality(Union(part, S))
         /\ IsFiniteSet(Union(part, S))
<1> DEFINE f == CHOOSE h : Sums(h, g, S)
           count == [T \in SUBSET S |-> Cardinality(Union(part, T))]
<1>1. Sums(count, g, S)
  BY SumsCount
<1>2. Sums(f, g, S)
  BY <1>1
<1>3. SumFunction(g) = f[S]
  BY DEF SumFunction, SumFunctionOnSet, FoldFunctionOnSet, MapThenFoldSet, Sums
<1> HIDE DEF f, count
<1>4. f[S] = count[S]
  BY <1>1, <1>2, SumsAreOne
<1>5. count[S] = Cardinality(Union(part, S))
  BY DEF count
<1>6. IsFiniteSet(Union(part, S))
  <2>1. CASE S = {}
    BY <2>1, FS_EmptySet DEF Union
  <2>2. CASE S # {}
    <3>1. PICK x \in S : TRUE
      BY <2>2
    <3>2. QED
      BY <3>1, PartMore
  <2>3. QED
    BY <2>1, <2>2
<1>7. QED
  BY <1>3, <1>4, <1>5, <1>6

\* There are a times b pairs of a things and b others.
LEMMA ProductSize ==
  ASSUME NEW S, NEW T, IsFiniteSet(S), IsFiniteSet(T), NEW a \in Nat, NEW b \in Nat,
         Cardinality(S) = a, Cardinality(T) = b
  PROVE  IsFiniteSet(S \X T) /\ Cardinality(S \X T) = a * b
BY FS_Product

\* g[x] points for each x.
Points(g) == [x \in DOMAIN g |-> {x} \X (1..g[x])]

\* The points of different arguments are apart, and of each there are as many as
\* its number.
LEMMA PointsApart ==
  ASSUME NEW S, NEW g \in [S -> Nat]
  PROVE  Apart(Points(g), S) /\ \A x \in S : g[x] = Cardinality(Points(g)[x])
<1>1. ASSUME NEW x \in S PROVE IsFiniteSet(Points(g)[x]) /\ g[x] = Cardinality(Points(g)[x])
  <2> DEFINE n == g[x]
  <2>1. n \in Nat /\ Points(g)[x] = {x} \X (1..n)
    BY DEF Points
  <2> HIDE DEF n
  <2>2. IsFiniteSet(1..n) /\ Cardinality(1..n) = n
    BY <2>1, FS_Interval
  <2>3. IsFiniteSet({x}) /\ Cardinality({x}) = 1
    BY FS_Singleton
  <2>4. PICK A, B : A = {x} /\ B = 1..n
    OBVIOUS
  <2>5. IsFiniteSet(A \X B) /\ Cardinality(A \X B) = 1 * n
    <3>1. IsFiniteSet(A) /\ IsFiniteSet(B) /\ Cardinality(A) = 1 /\ Cardinality(B) = n /\ n \in Nat /\ 1 \in Nat
      BY <2>1, <2>2, <2>3, <2>4
    <3>2. QED
      BY <3>1, ProductSize
  <2>6. QED
    BY <2>1, <2>4, <2>5 DEF n
<1>2. ASSUME NEW x \in S, NEW y \in S, x # y PROVE Points(g)[x] \intersect Points(g)[y] = {}
  BY <1>2 DEF Points
<1>3. QED
  BY <1>1, <1>2 DEF Apart

\* A sum of natural numbers counts points, and is one.
LEMMA SumIsCount ==
  ASSUME NEW S, IsFiniteSet(S), NEW g \in [S -> Nat]
  PROVE  /\ SumFunction(g) = Cardinality(Union(Points(g), S))
         /\ IsFiniteSet(Union(Points(g), S)) /\ SumFunction(g) \in Nat
<1>1. DOMAIN g = S
  OBVIOUS
<1>2. Apart(Points(g), S) /\ \A x \in S : g[x] = Cardinality(Points(g)[x])
  BY PointsApart
<1>3. /\ SumFunction(g) = Cardinality(Union(Points(g), S))
      /\ IsFiniteSet(Union(Points(g), S))
  BY <1>1, <1>2, SumOfParts
<1>4. QED
  BY <1>3, FS_CardinalityType

\* Two parts that are apart are as many as both.
LEMMA BothKinds ==
  ASSUME NEW S, IsFiniteSet(S), NEW A \in SUBSET S, NEW B \in SUBSET S, A \intersect B = {}
  PROVE  Cardinality(A \union B) = Cardinality(A) + Cardinality(B)
<1>1. IsFiniteSet(A) /\ IsFiniteSet(B)
  BY FS_Subset
<1>2. Cardinality(A \union B) = Cardinality(A) + Cardinality(B) - Cardinality(A \intersect B)
  BY <1>1, FS_Union
<1>3. Cardinality(A \intersect B) = 0 /\ Cardinality(A) \in Nat /\ Cardinality(B) \in Nat
  BY <1>1, FS_EmptySet, FS_CardinalityType
<1>4. QED
  BY <1>2, <1>3

\* A sum to which each of some members adds is at least their number.
LEMMA SumAtLeast ==
  ASSUME NEW S, IsFiniteSet(S), NEW g \in [S -> Nat], NEW T \in SUBSET S, \A x \in T : g[x] > 0
  PROVE  SumFunction(g) >= Cardinality(T) /\ SumFunction(g) \in Nat /\ Cardinality(T) \in Nat
<1> DEFINE all == Union(Points(g), S)
           f == [x \in T |-> <<x, 1>>]
<1>1. SumFunction(g) = Cardinality(all) /\ IsFiniteSet(all) /\ SumFunction(g) \in Nat
  BY SumIsCount
<1>2. \A x \in T : <<x, 1>> \in all
  BY DEF Union, Points
<1> HIDE DEF all
<1>3. f \in Injection(T, all)
  BY <1>2 DEF Injection, IsInjective
<1> HIDE DEF f
<1>4. IsFiniteSet(T) /\ Cardinality(T) <= Cardinality(all)
  BY <1>1, <1>3, FS_Injection
<1>5. QED
  BY <1>1, <1>4, FS_CardinalityType

\* A finite set of numbers has a largest one: the one with the fewest above it.
LEMMA FiniteLargest ==
  ASSUME NEW S \in SUBSET Int, IsFiniteSet(S), S # {}
  PROVE  \E n \in S : \A m \in S : m <= n
<1> DEFINE above(n) == {m \in S : m > n}
           few == {k \in Nat : \E n \in S : k = Cardinality(above(n))}
<1>1. \A n \in S : IsFiniteSet(above(n)) /\ Cardinality(above(n)) \in Nat
  <2> TAKE n \in S
  <2> DEFINE those == above(n)
  <2>1. those \in SUBSET S
    OBVIOUS
  <2> HIDE DEF those
  <2>2. IsFiniteSet(those) /\ Cardinality(those) \in Nat
    BY <2>1, FS_Subset, FS_CardinalityType
  <2>3. QED
    BY <2>2 DEF those
<1>2. PICK k \in few : \A j \in few : k <= j
  <2>1. few # {} /\ few \in SUBSET Nat
    BY <1>1
  <2> HIDE DEF few
  <2>2. QED
    BY <2>1, Smallest
<1>3. PICK n \in S : k = Cardinality(above(n))
  BY <1>2
<1>4. ASSUME NEW m \in S, m > n PROVE FALSE
  <2> DEFINE at == above(n)
             beyond == above(m)
  <2>1. beyond \in SUBSET at /\ m \in at /\ m \notin beyond
    <3>1. \A x \in Int : x > m => x > n
      BY <1>4
    <3>2. m \in at /\ m \notin beyond
      BY <1>4
    <3>3. QED
      BY <3>1, <3>2
  <2>2. IsFiniteSet(at) /\ Cardinality(at) = k /\ k \in Nat /\ Cardinality(beyond) \in Nat
    BY <1>1, <1>3
  <2>3. Cardinality(beyond) \in few
    BY <1>1
  <2> HIDE DEF at, beyond, few
  <2>4. Cardinality(beyond) <= Cardinality(at) /\ Cardinality(beyond) # Cardinality(at)
    BY <2>1, <2>2, FS_Subset
  <2>5. k <= Cardinality(beyond)
    BY <1>2, <2>3
  <2>6. QED
    BY <2>2, <2>4, <2>5
<1>5. QED
  BY <1>3, <1>4

\* The smaller of two numbers.
LEMMA SmallerOfTwo ==
  ASSUME NEW a \in Nat, NEW b \in Nat
  PROVE  /\ a <= b => Min({a, b}) = a
         /\ b <= a => Min({a, b}) = b
<1> DEFINE S == {a, b}
<1>1. ASSUME NEW n \in S, \A y \in S : n <= y PROVE Min(S) = n
  <2>1. S \in SUBSET Nat
    OBVIOUS
  <2> HIDE DEF S
  <2>2. \A x \in S : (\A y \in S : x <= y) => x = n
    BY <1>1, <2>1
  <2>3. QED
    BY <1>1, <2>2 DEF Min
<1>2. a \in S /\ b \in S /\ (a <= b => \A y \in S : a <= y) /\ (b <= a => \A y \in S : b <= y)
  OBVIOUS
<1> HIDE DEF S
<1>3. (a <= b => Min(S) = a) /\ (b <= a => Min(S) = b)
  BY <1>1, <1>2
<1>4. QED
  BY <1>3 DEF S

\* What a stretch of a sequence is.
LEMMA Stretch ==
  ASSUME NEW R, NEW s \in Seq(R), NEW from \in Nat, NEW to \in Nat, from >= 1, to <= Len(s)
  PROVE  /\ SubSeq(s, from, to) \in Seq(R)
         /\ Len(SubSeq(s, from, to)) = IF from <= to THEN to - from + 1 ELSE 0
         /\ \A i \in 1..(to - from + 1) : SubSeq(s, from, to)[i] = s[from + i - 1]
<1>1. Len(s) \in Nat /\ \A i \in 1..Len(s) : s[i] \in R
  BY LenProperties
<1>2. \A i \in from..to : s[i] \in R
  <2> TAKE i \in from..to
  <2>1. i \in 1..Len(s)
    BY <1>1
  <2>2. QED
    BY <1>1, <2>1
<1>3. QED
  BY <1>2, SubSeqProperties

\* A stretch of the first members is one of them all.
LEMMA StretchOfStretch ==
  ASSUME NEW R, NEW s \in Seq(R), NEW n \in Nat, n <= Len(s),
         NEW from \in Nat, NEW to \in Nat, from >= 1, to <= n
  PROVE  /\ Len(SubSeq(s, 1, n)) = n /\ SubSeq(s, 1, n) \in Seq(R)
         /\ SubSeq(SubSeq(s, 1, n), from, to) = SubSeq(s, from, to)
<1>1. PICK t : t = SubSeq(s, 1, n)
  OBVIOUS
<1>2. t \in Seq(R) /\ Len(t) = n /\ \A i \in 1..n : t[i] = s[i]
  <2>1. /\ SubSeq(s, 1, n) \in Seq(R) /\ Len(SubSeq(s, 1, n)) = IF 1 <= n THEN n - 1 + 1 ELSE 0
        /\ \A i \in 1..(n - 1 + 1) : SubSeq(s, 1, n)[i] = s[1 + i - 1]
    BY Stretch
  <2>2. QED
    BY <1>1, <2>1
<1>3. Len(s) \in Nat
  BY LenProperties
<1>4. PICK u : u = SubSeq(t, from, to)
  OBVIOUS
<1>5. PICK v : v = SubSeq(s, from, to)
  OBVIOUS
<1> DEFINE m == IF from <= to THEN to - from + 1 ELSE 0
<1>6. u \in Seq(R) /\ Len(u) = m /\ \A i \in 1..(to - from + 1) : u[i] = t[from + i - 1]
  BY <1>2, <1>4, Stretch
<1>7. v \in Seq(R) /\ Len(v) = m /\ \A i \in 1..(to - from + 1) : v[i] = s[from + i - 1]
  <2>1. to <= Len(s)
    BY <1>3
  <2>2. QED
    BY <1>5, <2>1, Stretch
<1>8. \A i \in 1..Len(u) : u[i] = v[i]
  <2> SUFFICES ASSUME NEW i \in 1..Len(u) PROVE u[i] = v[i]
    OBVIOUS
  <2>1. i \in 1..(to - from + 1) /\ from + i - 1 \in 1..n
    BY <1>6
  <2>2. QED
    BY <1>2, <1>6, <1>7, <2>1
<1>9. u = v
  BY <1>6, <1>7, <1>8, SeqEqual
<1>10. QED
  BY <1>1, <1>2, <1>4, <1>5, <1>9

\* The two halves of a sequence that was put together.
PutTogether(t, a, b) ==
  /\ Len(t) = Len(a) + Len(b)
  /\ SubSeq(t, 1, Len(a)) = a
  /\ SubSeq(t, Len(a) + 1, Len(a) + Len(b)) = b

\* Two sequences put together can be taken apart again.
LEMMA HalvesOfJoined ==
  ASSUME NEW R, NEW a \in Seq(R), NEW b \in Seq(R)
  PROVE  a \o b \in Seq(R) /\ PutTogether(a \o b, a, b)
<1>1. PICK t : t = a \o b
  OBVIOUS
<1>2. PICK p : p = Len(a)
  OBVIOUS
<1>3. PICK q : q = Len(b)
  OBVIOUS
<1>4. p \in Nat /\ q \in Nat
  BY <1>2, <1>3, LenProperties
<1>5. t \in Seq(R) /\ Len(t) = p + q /\ \A i \in 1..(p + q) : t[i] = IF i <= p THEN a[i] ELSE b[i - p]
  BY <1>1, <1>2, <1>3, ConcatProperties
<1>6. SubSeq(t, 1, p) = a
  <2>1. PICK u : u = SubSeq(t, 1, p)
    OBVIOUS
  <2>2. u \in Seq(R) /\ Len(u) = (IF 1 <= p THEN p - 1 + 1 ELSE 0) /\ \A i \in 1..(p - 1 + 1) : u[i] = t[1 + i - 1]
    BY <1>4, <1>5, <2>1, Stretch
  <2>3. Len(u) = p /\ \A i \in 1..p : u[i] = a[i]
    BY <1>4, <1>5, <2>2
  <2>4. u = a
    BY <1>2, <2>2, <2>3, SeqEqual
  <2>5. QED
    BY <2>1, <2>4
<1>7. SubSeq(t, p + 1, p + q) = b
  <2>1. PICK u : u = SubSeq(t, p + 1, p + q)
    OBVIOUS
  <2>2. PICK from \in Nat : from = p + 1
    BY <1>4
  <2>3. PICK to \in Nat : to = p + q
    BY <1>4
  <2>4. /\ u \in Seq(R) /\ Len(u) = (IF from <= to THEN to - from + 1 ELSE 0)
        /\ \A i \in 1..(to - from + 1) : u[i] = t[from + i - 1]
    <3>1. from >= 1 /\ to <= Len(t) /\ u = SubSeq(t, from, to)
      BY <1>4, <1>5, <2>1, <2>2, <2>3
    <3>2. QED
      BY <1>5, <3>1, Stretch
  <2>5. Len(u) = q /\ \A i \in 1..q : u[i] = b[i]
    <3>1. Len(u) = q
      BY <1>4, <2>2, <2>3, <2>4
    <3>2. ASSUME NEW i \in 1..q PROVE u[i] = b[i]
      <4>1. i \in 1..(to - from + 1) /\ from + i - 1 = p + i /\ p + i \in 1..(p + q) /\ ~(p + i <= p) /\ (p + i) - p = i
        BY <1>4, <2>2, <2>3
      <4>2. u[i] = t[p + i]
        BY <2>4, <4>1
      <4>3. t[p + i] = b[(p + i) - p]
        BY <1>5, <4>1
      <4>4. QED
        BY <4>1, <4>2, <4>3
    <3>3. QED
      BY <3>1, <3>2
  <2>6. u = b
    BY <1>3, <2>4, <2>5, SeqEqual
  <2>7. QED
    BY <2>1, <2>6
<1>8. QED
  BY <1>1, <1>2, <1>3, <1>5, <1>6, <1>7, Zenon DEF PutTogether

-----------------------------------------------------------------------------
(* A snapshot of the database: what the two stores answer.                   *)

\* A snapshot the stores can be in: no two work items linked to a document were
\* updated at the same moment.
Snapshot(db) ==
  /\ IsFiniteSet(Rows(db)) /\ IsFiniteSet(db.items)
  /\ \A d \in Rows(db) :
       /\ db.doc[d].status \in Status
       /\ db.doc[d].date \in Int \union {None}
       /\ db.doc[d].report = NoReport \/ IsFiniteSet(db.doc[d].report)
       /\ \A i \in Issues(db, d) : i.code = "missing_critical_field" => i.field \in CriticalFields
       /\ \A i, j \in Linked(db, d) : i.updated \in Int /\ i.id \in Int /\ (i # j => i.updated # j.updated)

\* Both stores find the work item that was updated last.
LEMMA LatestAlike ==
  ASSUME NEW db, Snapshot(db), NEW d \in Rows(db)
  PROVE  LatestLink(db, d) = LatestInMemory(db, d)
<1> DEFINE linked == Linked(db, d)
<1>1. CASE linked = {}
  BY <1>1 DEF LatestLink, LatestInMemory
<1>2. CASE linked # {}
  <2> DEFINE moments == {i.updated : i \in linked}
  <2>1. \A i, j \in linked : i.updated \in Int /\ i.id \in Int /\ (i # j => i.updated # j.updated)
    BY DEF Snapshot
  <2>2. IsFiniteSet(moments) /\ moments # {} /\ moments \in SUBSET Int
    <3> DEFINE f == [i \in linked |-> i.updated]
               image == {f[i] : i \in linked}
    <3>1. IsFiniteSet(linked)
      <4>1. linked \in SUBSET db.items /\ IsFiniteSet(db.items)
        BY DEF Linked, Snapshot
      <4> HIDE DEF linked
      <4>2. QED
        BY <4>1, FS_Subset
    <3>2. IsFiniteSet(image)
      <4> HIDE DEF f, linked
      <4>1. QED
        BY <3>1, FiniteImage
    <3>3. image = moments
      OBVIOUS
    <3>4. moments # {} /\ moments \in SUBSET Int
      BY <1>2, <2>1
    <3>5. QED
      BY <3>2, <3>3, <3>4
  <2>3. PICK t \in moments : \A u \in moments : u <= t
    <3> HIDE DEF moments
    <3> QED
      BY <2>2, FiniteLargest
  <2>4. PICK last \in linked : last.updated = t
    BY <2>3
  <2>5. \A j \in linked : j # last => j.updated < last.updated
    BY <2>1, <2>3, <2>4
  <2>6. ASSUME NEW i \in linked,
               \A j \in linked : \/ j.updated < i.updated
                                 \/ j.updated = i.updated /\ (j.id <= i.id \/ i.id <= j.id)
        PROVE  i = last
    <3>1. last.updated < i.updated \/ last.updated = i.updated
      BY <2>6
    <3>2. QED
      BY <2>1, <2>5, <3>1
  <2>7. /\ \A j \in linked : j.updated < last.updated \/ (j.updated = last.updated /\ j.id <= last.id)
        /\ \A j \in linked : j.updated < last.updated \/ (j.updated = last.updated /\ last.id <= j.id)
    BY <2>1, <2>5
  <2> HIDE DEF linked
  <2>8. last = CHOOSE i \in linked : \A j \in linked :
                 \/ j.updated < i.updated
                 \/ j.updated = i.updated /\ j.id <= i.id
    BY <2>6, <2>7
  <2>9. last = CHOOSE i \in linked : \A j \in linked :
                 \/ j.updated < i.updated
                 \/ j.updated = i.updated /\ i.id <= j.id
    BY <2>6, <2>7
  <2>10. QED
    BY <1>2, <2>8, <2>9 DEF LatestLink, LatestInMemory, linked
<1>3. QED
  BY <1>1, <1>2

\* A document of a snapshot has finitely many issues, and a status.
LEMMA FewIssues ==
  ASSUME NEW db, Snapshot(db), NEW d \in Rows(db)
  PROVE  IsFiniteSet(Issues(db, d)) /\ (d \in Doc) /\ db.doc[d].status \in Status
BY FS_EmptySet DEF Snapshot, Issues, Rows

\* Only a work item with a requested correction puts a document in that stage.
LEMMA CorrectionStage ==
  ASSUME NEW item
  PROVE  Stage("needs_review", item)[1] = "correction_requested"
           <=> item # NoItem /\ item.correction = "requested"
<1>1. Stage("needs_review", item) = IF item = NoItem THEN StageWithoutItem("needs_review") ELSE StageOfItem(item)
  BY DEF Stage
<1>2. StageWithoutItem("needs_review")[1] # "correction_requested"
  BY DEF StageWithoutItem
<1>3. StageOfItem(item)[1] = "correction_requested" <=> item.correction = "requested"
  BY DEF StageOfItem
<1>4. QED
  BY <1>1, <1>2, <1>3

\* Both stores give a document the same business status,
LEMMA StatusAlike ==
  ASSUME NEW db, Snapshot(db), NEW d \in Rows(db)
  PROVE  SqlBusinessStatus(db, d) = MemoryBusinessStatus(db, d)
<1>1. LatestLink(db, d) = LatestInMemory(db, d)
  BY LatestAlike
<1> DEFINE item == LatestInMemory(db, d)
<1>2. CASE db.doc[d].status = "needs_review"
  <2>1. Stage(db.doc[d].status, item)[1] = "correction_requested"
           <=> item # NoItem /\ item.correction = "requested"
    BY <1>2, CorrectionStage
  <2> HIDE DEF item
  <2>2. QED
    BY <1>1, <1>2, <2>1 DEF SqlBusinessStatus, MemoryBusinessStatus, item
<1>3. CASE db.doc[d].status # "needs_review"
  BY <1>3 DEF SqlBusinessStatus, MemoryBusinessStatus
<1>4. QED
  BY <1>2, <1>3

\* which is the stored one, but for documents that need a correction.
LEMMA BusinessStatus ==
  ASSUME NEW db, NEW d
  PROVE  LET row == db.doc[d]
             asked == LatestLink(db, d) # NoItem /\ LatestLink(db, d).correction = "requested"
             correct == row.status = "failed" \/ (row.status = "needs_review" /\ (HasErrors(db, d) \/ asked))
         IN SqlBusinessStatus(db, d) = IF correct THEN "needs_correction" ELSE row.status
<1> DEFINE row == db.doc[d]
           item == LatestLink(db, d)
<1>1. SqlBusinessStatus(db, d) =
         CASE row.status = "failed" -> "needs_correction"
           [] /\ row.status = "needs_review"
              /\ HasErrors(db, d) \/ (item # NoItem /\ item.correction = "requested")
                -> "needs_correction"
           [] OTHER -> row.status
  BY DEF SqlBusinessStatus
<1> HIDE DEF item
<1>2. QED
  BY <1>1 DEF item

\* Both stores compare the dates of an invoice alike.
LEMMA DatesAlike ==
  ASSUME NEW date, NEW from, NEW to
  PROVE  SqlDateMatches(date, from, to) <=> MemoryDateMatches(date, from, to)
BY DEF SqlDateMatches, MemoryDateMatches

\* All three stores order the dates of two invoices alike where both have one.
LEMMA OrdersAlike ==
  ASSUME NEW a \in Int \union {None}, NEW b \in Int \union {None}
  PROVE  /\ SqliteBefore(a, b) <=> MemoryBefore(a, b)
         /\ None \notin {a, b} => (SqliteBefore(a, b) <=> PostgresBefore(a, b))
BY DEF SqliteBefore, MemoryBefore, PostgresBefore

\* In every snapshot the stores answer alike.
THEOREM EveryStoreAnswersAlike ==
  ASSUME NEW db, Snapshot(db) PROVE StoresAnswerAlike(db)
<1>1. ASSUME NEW owner PROVE Visible(db, owner) \subseteq Rows(db)
  BY DEF Visible
<1>2. ASSUME NEW q PROVE SqlList(db, q) = MemoryList(db, q)
  BY <1>1, StatusAlike, DatesAlike DEF SqlList, MemoryList
<1>3. ASSUME NEW owner PROVE SqlSummary(db, owner) = MemorySummary(db, owner)
  <2> DEFINE sql(k) == {d \in Visible(db, owner) :
                 CASE k = "all" -> TRUE
                   [] k = "waiting_review" -> SqlBusinessStatus(db, d) = "needs_review"
                   [] OTHER -> SqlBusinessStatus(db, d) = k}
             memory(k) == {d \in Visible(db, owner) :
                 CASE k = "all" -> TRUE
                   [] k = "waiting_review" -> MemoryBusinessStatus(db, d) = "needs_review"
                   [] OTHER -> MemoryBusinessStatus(db, d) = k}
  <2>1. \A k : sql(k) = memory(k)
    BY <1>1, StatusAlike
  <2>2. SqlSummary(db, owner) =
          [k \in {"all", "waiting_review", "needs_correction", "approved", "exported"} |-> Cardinality(sql(k))]
    BY DEF SqlSummary, SummaryOf
  <2>3. MemorySummary(db, owner) =
          [k \in {"all", "waiting_review", "needs_correction", "approved", "exported"} |-> Cardinality(memory(k))]
    BY DEF MemorySummary, SummaryOf
  <2> HIDE DEF sql, memory
  <2>4. QED
    BY <2>1, <2>2, <2>3
<1>4. ASSUME NEW owner PROVE SqlInsights(db, owner) = MemoryInsights(db, owner)
  <2>1. \A d \in Visible(db, owner) :
          (db.doc[d].report # NoReport /\ Cardinality(db.doc[d].report) > 0) <=> Issues(db, d) # {}
    <3> TAKE d \in Visible(db, owner)
    <3>1. CASE db.doc[d].report = NoReport
      BY <3>1 DEF Issues
    <3>2. CASE db.doc[d].report # NoReport
      <4> DEFINE report == db.doc[d].report
      <4>1. IsFiniteSet(report) /\ Issues(db, d) = report
        BY <1>1, <3>2 DEF Snapshot, Issues
      <4> HIDE DEF report
      <4>2. Cardinality(report) \in Nat /\ (Cardinality(report) = 0 <=> report = {})
        BY <4>1, FS_EmptySet, FS_CardinalityType
      <4>3. Cardinality(report) > 0 <=> report # {}
        BY <4>2
      <4>4. QED
        BY <3>2, <4>1, <4>3 DEF report
    <3>3. QED
      BY <3>1, <3>2
  <2>2. {d \in Visible(db, owner) : db.doc[d].report # NoReport /\ Cardinality(db.doc[d].report) > 0}
          = {d \in Visible(db, owner) : Issues(db, d) # {}}
    BY <2>1
  <2>3. QED
    BY <2>2, Zenon DEF SqlInsights, MemoryInsights, Quantify
<1>5. ASSUME NEW owner
      PROVE  LET listed(f) == SqlList(db, [owner |-> owner, status |-> f, from |-> None, to |-> None])
             IN /\ listed("open") \intersect listed("completed") = {}
                /\ listed("open") \union listed("completed") = listed("")
  BY DEF SqlList, MatchesStatus, SqlDateMatches
<1>6. \A a, b \in {db.doc[d].date : d \in Rows(db)} :
        /\ SqliteBefore(a, b) <=> MemoryBefore(a, b)
        /\ None \notin {a, b} => (SqliteBefore(a, b) <=> PostgresBefore(a, b))
  <2>1. \A a \in {db.doc[d].date : d \in Rows(db)} : a \in Int \union {None}
    BY DEF Snapshot
  <2>2. QED
    BY <2>1, OrdersAlike
<1>7. QED
  BY <1>2, <1>3, <1>4, <1>5, <1>6, Zenon DEF StoresAnswerAlike

-----------------------------------------------------------------------------
(* A snapshot of the database: what the pages count and list.                *)

All(f) == [owner |-> "all", status |-> f, from |-> None, to |-> None]
Asked(db) == {d \in Queue(db) : LatestLink(db, d) # NoItem /\ LatestLink(db, d).correction = "requested"}

\* The lists of all invoices that the cards link to.
LEMMA ListsOfAll ==
  ASSUME NEW db, Snapshot(db)
  PROVE  /\ SqlList(db, All("approved")) = {d \in Rows(db) : db.doc[d].status = "approved"}
         /\ SqlList(db, All("needs_review")) = Reviewable(db) \ Asked(db)
         /\ SqlList(db, All("needs_correction")) = ToCorrect(db) \union Asked(db)
         /\ {d \in Visible(db, "all") : SqlBusinessStatus(db, d) = "exported"}
              = {d \in Rows(db) : db.doc[d].status = "exported"}
<1>1. Visible(db, "all") = Rows(db)
  BY DEF Visible
<1> DEFINE correct(d) == \/ db.doc[d].status = "failed"
                         \/ db.doc[d].status = "needs_review" /\ (HasErrors(db, d) \/ d \in Asked(db))
<1>2. \A d \in Rows(db) : /\ SqlBusinessStatus(db, d) = IF correct(d) THEN "needs_correction" ELSE db.doc[d].status
                          /\ db.doc[d].status \in Status
  BY BusinessStatus DEF Asked, Queue, Snapshot
<1>3. ASSUME NEW f \in {"approved", "needs_review", "needs_correction", "exported"}
      PROVE  SqlList(db, All(f)) = {d \in Rows(db) : SqlBusinessStatus(db, d) = f}
  <2>1. \A s : MatchesStatus(s, f) <=> s = f
    BY Zenon DEF MatchesStatus
  <2>2. All(f).owner = "all" /\ All(f).status = f /\ All(f).from = None /\ All(f).to = None
    BY DEF All
  <2>3. \A date : SqlDateMatches(date, None, None)
    BY DEF SqlDateMatches
  <2>4. QED
    BY <1>1, <2>1, <2>2, <2>3 DEF SqlList
<1>4. Asked(db) \subseteq Rows(db) /\ \A d \in Asked(db) : db.doc[d].status = "needs_review"
  BY DEF Asked, Queue
<1>5. \A d \in Rows(db) :
        /\ SqlBusinessStatus(db, d) = "approved" <=> db.doc[d].status = "approved"
        /\ SqlBusinessStatus(db, d) = "exported" <=> db.doc[d].status = "exported"
        /\ SqlBusinessStatus(db, d) = "needs_review"
             <=> db.doc[d].status = "needs_review" /\ ~HasErrors(db, d) /\ d \notin Asked(db)
        /\ SqlBusinessStatus(db, d) = "needs_correction" <=> correct(d)
  BY <1>2 DEF Status
<1>6. {d \in Rows(db) : SqlBusinessStatus(db, d) = "needs_review"} = Reviewable(db) \ Asked(db)
  BY <1>5 DEF Reviewable
<1>7. {d \in Rows(db) : SqlBusinessStatus(db, d) = "needs_correction"} = ToCorrect(db) \union Asked(db)
  BY <1>4, <1>5 DEF ToCorrect
<1>8. QED
  BY <1>1, <1>3, <1>5, <1>6, <1>7

\* What a function maps to each other's members one to one has one size.
LEMMA SameSize ==
  ASSUME NEW S, IsFiniteSet(S), NEW T, NEW f \in [S -> T],
         \A y \in T : \E x \in S : f[x] = y, \A x, y \in S : f[x] = f[y] => x = y
  PROVE  IsFiniteSet(T) /\ Cardinality(T) = Cardinality(S)
<1>1. f \in Bijection(S, T)
  BY DEF Bijection, Injection, Surjection, IsInjective
<1>2. QED
  BY <1>1, FS_Bijection DEF ExistsBijection

\* The overview and the exceptions page have the same issues: those of the queue.
Facts(db) == {p \in Doc \X UNION {Issues(db, d) : d \in Queue(db)} : p[1] \in Queue(db) /\ p[2] \in Issues(db, p[1])}
Shown(db, p) == [doc |-> p[1], issue |-> p[2], category |-> Category(p[2])]
Listed(db, p) == [doc |-> p[1], issue |-> p[2], category |-> Category(p[2]),
                  risk |-> IF p[2].severity = "error" THEN "high" ELSE "medium"]

\* The overview and the open exceptions list the same facts, each under its names.
LEMMA IssuesOfQueue ==
  ASSUME NEW db
  PROVE  /\ OverviewIssues(db) = {Shown(db, p) : p \in Facts(db)}
         /\ OpenExceptions(db) = {Listed(db, p) : p \in Facts(db)}
         /\ \A p \in Facts(db) : p[1] \in Queue(db) /\ p[2] \in Issues(db, p[1]) /\ p = <<p[1], p[2]>>
         /\ \A d \in Queue(db) : \A i \in Issues(db, d) : <<d, i>> \in Facts(db)
<1>1. Queue(db) = {e \in Rows(db) : db.doc[e].status = "needs_review"} /\ Queue(db) \subseteq Doc
  BY DEF Queue, Rows
<1>2. \A d \in Queue(db) : \A i \in Issues(db, d) : <<d, i>> \in Facts(db)
  BY <1>1 DEF Facts
<1>3. \A p \in Facts(db) : p[1] \in Queue(db) /\ p[2] \in Issues(db, p[1]) /\ p = <<p[1], p[2]>>
  BY DEF Facts
<1>4. OverviewIssues(db) = {Shown(db, p) : p \in Facts(db)}
  <2>1. OverviewIssues(db) = UNION {{Shown(db, <<d, i>>) : i \in Issues(db, d)} : d \in Queue(db)}
    BY <1>1 DEF OverviewIssues, Shown
  <2>2. ASSUME NEW r \in OverviewIssues(db) PROVE \E p \in Facts(db) : r = Shown(db, p)
    <3>1. PICK d \in Queue(db) : \E i \in Issues(db, d) : r = Shown(db, <<d, i>>)
      BY <2>1
    <3>2. QED
      BY <1>2, <3>1
  <2>3. ASSUME NEW p \in Facts(db) PROVE Shown(db, p) \in OverviewIssues(db)
    <3>1. Shown(db, p) = Shown(db, <<p[1], p[2]>>)
      BY <1>3
    <3>2. QED
      BY <1>3, <2>1, <3>1
  <2>4. QED
    BY <2>2, <2>3
<1>5. OpenExceptions(db) = {Listed(db, p) : p \in Facts(db)}
  <2>1. OpenExceptions(db) = UNION {{Listed(db, <<d, i>>) : i \in Issues(db, d)} : d \in Queue(db)}
    BY DEF OpenExceptions, Listed
  <2>2. ASSUME NEW r \in OpenExceptions(db) PROVE \E p \in Facts(db) : r = Listed(db, p)
    <3>1. PICK d \in Queue(db) : \E i \in Issues(db, d) : r = Listed(db, <<d, i>>)
      BY <2>1
    <3>2. QED
      BY <1>2, <3>1
  <2>3. ASSUME NEW p \in Facts(db) PROVE Listed(db, p) \in OpenExceptions(db)
    <3>1. Listed(db, p) = Listed(db, <<p[1], p[2]>>)
      BY <1>3
    <3>2. QED
      BY <1>3, <2>1, <3>1
  <2>4. QED
    BY <2>2, <2>3
<1>6. QED
  BY <1>2, <1>3, <1>4, <1>5

\* A snapshot has finitely many facts.
LEMMA FewFacts ==
  ASSUME NEW db, Snapshot(db)
  PROVE  IsFiniteSet(Facts(db)) /\ IsFiniteSet(Queue(db))
<1>1. Queue(db) \in SUBSET Rows(db) /\ IsFiniteSet(Rows(db))
  BY DEF Queue, Snapshot
<1>2. IsFiniteSet(Queue(db))
  BY <1>1, FS_Subset
<1> DEFINE g == [d \in Queue(db) |-> Issues(db, d)]
           sets == {g[d] : d \in Queue(db)}
           issues == UNION sets
<1>3. IsFiniteSet(sets)
  <2> HIDE DEF g
  <2> QED
    BY <1>2, FiniteImage
<1>4. \A S \in sets : IsFiniteSet(S)
  BY <1>1, FewIssues
<1>5. IsFiniteSet(issues)
  <2> HIDE DEF sets
  <2> QED
    BY <1>3, <1>4, FS_UNION
<1>6. Facts(db) \in SUBSET (Queue(db) \X issues)
  BY DEF Facts
<1> HIDE DEF issues
<1>7. IsFiniteSet(Queue(db) \X issues)
  BY <1>2, <1>5, FS_Product
<1>8. QED
  BY <1>2, <1>6, <1>7, FS_Subset

\* A selection of them has one size on both pages.
LEMMA PagesCountFacts ==
  ASSUME NEW db, Snapshot(db), NEW F \in SUBSET Facts(db)
  PROVE  /\ Cardinality({Shown(db, p) : p \in F}) = Cardinality(F)
         /\ Cardinality({Listed(db, p) : p \in F}) = Cardinality(F)
<1>1. IsFiniteSet(F)
  BY FewFacts, FS_Subset
<1>2. \A p \in F : p = <<p[1], p[2]>>
  BY IssuesOfQueue
<1> DEFINE S == {Shown(db, p) : p \in F}
           L == {Listed(db, p) : p \in F}
           f == [p \in F |-> Shown(db, p)]
           g == [p \in F |-> Listed(db, p)]
<1>3. \A p, q \in F : Shown(db, p) = Shown(db, q) => p = q
  BY <1>2 DEF Shown
<1>4. \A p, q \in F : Listed(db, p) = Listed(db, q) => p = q
  <2>1. \A p : Listed(db, p).doc = p[1] /\ Listed(db, p).issue = p[2]
    BY DEF Listed
  <2>2. QED
    BY <1>2, <2>1
<1>5. /\ f \in [F -> S] /\ \A y \in S : \E x \in F : f[x] = y
      /\ \A x, y \in F : f[x] = f[y] => x = y
  BY <1>3
<1>6. /\ g \in [F -> L] /\ \A y \in L : \E x \in F : g[x] = y
      /\ \A x, y \in F : g[x] = g[y] => x = y
  BY <1>4
<1> HIDE DEF f, g, S, L
<1>7. Cardinality(S) = Cardinality(F) /\ Cardinality(L) = Cardinality(F)
  BY <1>1, <1>5, <1>6, SameSize
<1>8. QED
  BY <1>7 DEF S, L

\* The stages of the pipeline and what it leaves out are all the rows.
LEMMA PipelineIsAll ==
  ASSUME NEW db, Snapshot(db)
  PROVE  Cardinality(Rows(db)) = PipelineExcluded(db) + SumFunction(Pipeline(db))
<1> DEFINE S == {"uploaded", "reading", "waiting_review", "approved", "exported"}
           part == [s \in S |-> {d \in Rows(db) : db.doc[d].status \in PipelineStages[s]}]
           all == Rows(db)
           out == {d \in all : db.doc[d].status \notin UNION {PipelineStages[s] : s \in S}}
           in == Union(part, S)
<1>1. DOMAIN PipelineStages = S
  BY DEF PipelineStages
<1>2. IsFiniteSet(all) /\ IsFiniteSet(S)
  <2>1. IsFiniteSet({"uploaded"} \union {"reading"} \union {"waiting_review"} \union {"approved"} \union {"exported"})
    BY FS_Singleton, FS_Union
  <2>2. S = {"uploaded"} \union {"reading"} \union {"waiting_review"} \union {"approved"} \union {"exported"}
    OBVIOUS
  <2>3. QED
    BY <2>1, <2>2 DEF Snapshot
<1>3. \A s \in S : part[s] \in SUBSET all
  OBVIOUS
<1>4. \A x, y \in S : x # y => PipelineStages[x] \intersect PipelineStages[y] = {}
  BY DEF PipelineStages
<1>5. Apart(part, S)
  <2>1. \A s \in S : IsFiniteSet(part[s])
    <3> HIDE DEF part, all, S
    <3> QED
      BY <1>2, <1>3, FS_Subset
  <2>2. \A x, y \in S : x # y => part[x] \intersect part[y] = {}
    <3> HIDE DEF S
    <3> QED
      BY <1>4
  <2>3. QED
    BY <2>1, <2>2 DEF Apart
<1>6. DOMAIN Pipeline(db) = S /\ \A s \in S : Pipeline(db)[s] = Cardinality(part[s])
  BY <1>1 DEF Pipeline
<1>7. SumFunction(Pipeline(db)) = Cardinality(in)
  <2> HIDE DEF S, part
  <2> QED
    BY <1>2, <1>5, <1>6, SumOfParts
<1>8. PipelineExcluded(db) = Cardinality(out)
  BY <1>1 DEF PipelineExcluded
<1>9. in = {d \in all : db.doc[d].status \in UNION {PipelineStages[s] : s \in S}}
  <2> HIDE DEF S
  <2> QED
    BY DEF Union
<1>10. all = out \union in /\ out \intersect in = {} /\ in \in SUBSET all /\ out \in SUBSET all
  <2> HIDE DEF S
  <2> QED
    BY <1>9
<1> HIDE DEF in, out, all
<1>11. IsFiniteSet(in) /\ IsFiniteSet(out)
  BY <1>2, <1>10, FS_Subset
<1>12. Cardinality(out \union in) = Cardinality(out) + Cardinality(in) - Cardinality(out \intersect in)
  BY <1>11, FS_Union
<1>13. Cardinality(out \intersect in) = 0 /\ Cardinality(out) \in Nat /\ Cardinality(in) \in Nat
  BY <1>10, <1>11, FS_EmptySet, FS_CardinalityType
<1>14. Cardinality(all) = Cardinality(out) + Cardinality(in)
  BY <1>10, <1>12, <1>13
<1>15. QED
  BY <1>7, <1>8, <1>14 DEF all

\* An issue is of one category, and a missing field is no duplicate.
LEMMA MissingIsNoDuplicate ==
  ASSUME NEW i, i.code = "missing_critical_field", i.field \in CriticalFields
  PROVE  Category(i) # "duplicate"
<1>1. CodeWords(i.code) = {} /\ "duplicate" \notin FieldWords(i.field)
  BY DEF CodeWords, FieldWords, CriticalFields
<1>2. ~Mentions(i, {"duplicate"})
  BY <1>1 DEF Mentions
<1>3. QED
  BY <1>2 DEF Category

\* Some of a set of images are the images of some.
LEMMA PickImages ==
  ASSUME NEW A, NEW image, NEW K \in SUBSET {image[p] : p \in A}, NEW B \in SUBSET A,
         \A p \in A : image[p] \in K <=> p \in B
  PROVE  K = {image[p] : p \in B}
OBVIOUS

\* Cards that keep their document have the documents of what they were made from.
LEMMA ImagesOfImages ==
  ASSUME NEW B, NEW image, NEW K, K = {image[p] : p \in B}, \A p \in B : image[p].doc = p[1]
  PROVE  {r.doc : r \in K} = {p[1] : p \in B}
<1>1. \A r \in K : \E p \in B : r.doc = p[1]
  OBVIOUS
<1>2. \A p \in B : image[p] \in K /\ image[p].doc = p[1]
  OBVIOUS
<1>3. QED
  BY <1>1, <1>2

\* The pages select the same issues.
LEMMA SelectionsAlike ==
  ASSUME NEW db, Snapshot(db)
  PROVE  /\ \A c \in ExceptionCategories :
              /\ Cardinality({r \in OverviewIssues(db) : r.category = c})
                   = Cardinality(ExceptionList(db, "all", c))
              /\ {r \in ExceptionList(db, "all", "") : r.category = c} = ExceptionList(db, "all", c)
         /\ Blocked(db) = {r.doc : r \in ExceptionList(db, "blocking", "")}
         /\ Blocked(db) = Worklist(db, "blocked")
         /\ {r \in ExceptionList(db, "all", "") : r.risk = "high"} = ExceptionList(db, "blocking", "")
         /\ {r.doc : r \in {x \in OverviewIssues(db) : FindingGroup(x) = "duplicates"}}
              = {r.doc : r \in ExceptionList(db, "all", "duplicate")}
<1>1. /\ OverviewIssues(db) = {Shown(db, p) : p \in Facts(db)}
      /\ OpenExceptions(db) = {Listed(db, p) : p \in Facts(db)}
      /\ \A p \in Facts(db) : p[1] \in Queue(db) /\ p[2] \in Issues(db, p[1]) /\ p = <<p[1], p[2]>>
      /\ \A d \in Queue(db) : \A i \in Issues(db, d) : <<d, i>> \in Facts(db)
  BY IssuesOfQueue
<1>2. \A p : /\ Shown(db, p).doc = p[1] /\ Shown(db, p).issue = p[2] /\ Shown(db, p).category = Category(p[2])
             /\ Listed(db, p).doc = p[1] /\ Listed(db, p).issue = p[2] /\ Listed(db, p).category = Category(p[2])
             /\ Listed(db, p).risk = "high" <=> p[2].severity = "error"
  BY DEF Shown, Listed
<1> DEFINE shown == [p \in Facts(db) |-> Shown(db, p)]
           listed == [p \in Facts(db) |-> Listed(db, p)]
<1>a. OverviewIssues(db) = {shown[p] : p \in Facts(db)} /\ OpenExceptions(db) = {listed[p] : p \in Facts(db)}
  BY <1>1
<1>b. \A F \in SUBSET Facts(db) : /\ {shown[p] : p \in F} = {Shown(db, p) : p \in F}
                                  /\ {listed[p] : p \in F} = {Listed(db, p) : p \in F}
  OBVIOUS
<1>c. \A p \in Facts(db) :
        /\ shown[p].doc = p[1] /\ shown[p].issue = p[2] /\ shown[p].category = Category(p[2])
        /\ listed[p].doc = p[1] /\ listed[p].issue = p[2] /\ listed[p].category = Category(p[2])
        /\ listed[p].risk = "high" <=> p[2].severity = "error"
        /\ shown[p] \in OverviewIssues(db) /\ listed[p] \in OpenExceptions(db)
        /\ FindingGroup(shown[p]) = FindingGroup(Shown(db, p))
  BY <1>1, <1>2
<1> HIDE DEF shown, listed
<1>3. ASSUME NEW c \in ExceptionCategories
      PROVE  /\ Cardinality({r \in OverviewIssues(db) : r.category = c})
                  = Cardinality(ExceptionList(db, "all", c))
             /\ {r \in ExceptionList(db, "all", "") : r.category = c} = ExceptionList(db, "all", c)
  <2> DEFINE F == {p \in Facts(db) : Category(p[2]) = c}
  <2>1. c # ""
    BY Zenon DEF ExceptionCategories
  <2>2. ExceptionList(db, "all", c) = {r \in OpenExceptions(db) : r.category = c}
        /\ ExceptionList(db, "all", "") = OpenExceptions(db)
    BY <2>1, Zenon DEF ExceptionList
  <2>5. F \in SUBSET Facts(db)
    OBVIOUS
  <2>3. {r \in OverviewIssues(db) : r.category = c} = {Shown(db, p) : p \in F}
    <3> DEFINE K == {r \in OverviewIssues(db) : r.category = c}
    <3>1. K \in SUBSET {shown[p] : p \in Facts(db)} /\ \A p \in Facts(db) : shown[p] \in K <=> p \in F
      BY <1>a, <1>c
    <3> HIDE DEF K, F
    <3>2. K = {shown[p] : p \in F}
      BY <2>5, <3>1, PickImages
    <3>3. QED
      BY <1>b, <2>5, <3>2 DEF K
  <2>4. {r \in OpenExceptions(db) : r.category = c} = {Listed(db, p) : p \in F}
    <3> DEFINE K == {r \in OpenExceptions(db) : r.category = c}
    <3>1. K \in SUBSET {listed[p] : p \in Facts(db)} /\ \A p \in Facts(db) : listed[p] \in K <=> p \in F
      BY <1>a, <1>c
    <3> HIDE DEF K, F
    <3>2. K = {listed[p] : p \in F}
      BY <2>5, <3>1, PickImages
    <3>3. QED
      BY <1>b, <2>5, <3>2 DEF K
  <2> HIDE DEF F
  <2>6. /\ Cardinality({Shown(db, p) : p \in F}) = Cardinality(F)
        /\ Cardinality({Listed(db, p) : p \in F}) = Cardinality(F)
    BY <2>5, PagesCountFacts
  <2>7. QED
    BY <2>2, <2>3, <2>4, <2>6, Zenon
<1>4. ExceptionList(db, "blocking", "") = {r \in OpenExceptions(db) : r.risk = "high"}
      /\ ExceptionList(db, "all", "") = OpenExceptions(db)
  BY DEF ExceptionList
<1> DEFINE F == {p \in Facts(db) : p[2].severity = "error"}
<1>d. F \in SUBSET Facts(db)
  OBVIOUS
<1>5. Blocked(db) = {p[1] : p \in F}
  <2> DEFINE K == {x \in OverviewIssues(db) : x.issue.severity = "error"}
  <2>1. K \in SUBSET {shown[p] : p \in Facts(db)} /\ \A p \in Facts(db) : shown[p] \in K <=> p \in F
    BY <1>a, <1>c
  <2>2. \A p \in F : shown[p].doc = p[1]
    BY <1>c
  <2> HIDE DEF K, F
  <2>3. K = {shown[p] : p \in F}
    BY <1>d, <2>1, PickImages
  <2>4. QED
    BY <2>2, <2>3, ImagesOfImages DEF Blocked, K
<1>6. {r.doc : r \in ExceptionList(db, "blocking", "")} = {p[1] : p \in F}
  <2> DEFINE K == ExceptionList(db, "blocking", "")
  <2>1. K \in SUBSET {listed[p] : p \in Facts(db)} /\ \A p \in Facts(db) : listed[p] \in K <=> p \in F
    BY <1>4, <1>a, <1>c, Zenon
  <2>2. \A p \in F : listed[p].doc = p[1]
    BY <1>c
  <2> HIDE DEF K, F
  <2>3. K = {listed[p] : p \in F}
    BY <1>d, <2>1, PickImages
  <2>4. QED
    BY <2>2, <2>3, ImagesOfImages, Zenon DEF K
<1>7. {p[1] : p \in F} = Worklist(db, "blocked")
  <2>1. \A d : WorklistRow(db, d).tab = "blocked" <=> HasErrors(db, d)
    BY DEF WorklistRow
  <2>2. Worklist(db, "blocked") = {d \in Queue(db) : HasErrors(db, d)}
    BY <2>1 DEF Worklist
  <2>3. \A d \in Queue(db) : HasErrors(db, d) <=> \E i \in Issues(db, d) : i.severity = "error"
    BY DEF HasErrors, Errors
  <2>4. \A p \in F : p[1] \in Queue(db) /\ HasErrors(db, p[1])
    BY <1>1, <2>3
  <2>5. \A d \in Queue(db) : HasErrors(db, d) => \E p \in F : d = p[1]
    <3> SUFFICES ASSUME NEW d \in Queue(db), HasErrors(db, d) PROVE \E p \in F : d = p[1]
      OBVIOUS
    <3>1. PICK i \in Issues(db, d) : i.severity = "error"
      BY <2>3
    <3>2. <<d, i>> \in F
      BY <1>1, <3>1
    <3>3. QED
      BY <3>2
  <2> HIDE DEF F
  <2>6. QED
    BY <2>2, <2>4, <2>5
<1>8. {r.doc : r \in {x \in OverviewIssues(db) : FindingGroup(x) = "duplicates"}}
        = {r.doc : r \in ExceptionList(db, "all", "duplicate")}
  <2> DEFINE D == {p \in Facts(db) : Category(p[2]) = "duplicate"}
  <2>1. \A p \in Facts(db) : FindingGroup(Shown(db, p)) = "duplicates" <=> p \in D
    <3> TAKE p \in Facts(db)
    <3>1. Category(p[2]) = "duplicate" => p[2].code # "missing_critical_field"
      <4>1. p[2].code = "missing_critical_field" => p[2].field \in CriticalFields
        BY <1>1 DEF Snapshot, Queue
      <4>2. QED
        BY <4>1, MissingIsNoDuplicate
    <3>2. FindingGroup(Shown(db, p)) = "duplicates"
            <=> p[2].code # "missing_critical_field" /\ Category(p[2]) = "duplicate"
      BY <1>2 DEF FindingGroup
    <3>3. QED
      BY <3>1, <3>2
  <2> DEFINE K == {x \in OverviewIssues(db) : FindingGroup(x) = "duplicates"}
             L == ExceptionList(db, "all", "duplicate")
  <2>2. K \in SUBSET {shown[p] : p \in Facts(db)} /\ \A p \in Facts(db) : shown[p] \in K <=> p \in D
    <3> HIDE DEF D
    <3> QED
      BY <1>a, <1>c, <2>1
  <2>3. L \in SUBSET {listed[p] : p \in Facts(db)} /\ \A p \in Facts(db) : listed[p] \in L <=> p \in D
    <3>1. L = {r \in OpenExceptions(db) : r.category = "duplicate"}
      BY DEF ExceptionList
    <3>2. QED
      BY <1>a, <1>c, <3>1
  <2>4. D \in SUBSET Facts(db) /\ \A p \in D : shown[p].doc = p[1] /\ listed[p].doc = p[1]
    BY <1>c
  <2> HIDE DEF D, K, L
  <2>5. K = {shown[p] : p \in D} /\ L = {listed[p] : p \in D}
    BY <2>2, <2>3, <2>4, PickImages
  <2>6. {r.doc : r \in K} = {p[1] : p \in D} /\ {r.doc : r \in L} = {p[1] : p \in D}
    BY <2>4, <2>5, ImagesOfImages
  <2>7. QED
    BY <2>6 DEF K, L
<1>9. QED
  BY <1>3, <1>4, <1>5, <1>6, <1>7, <1>8, Zenon

\* In every snapshot a number on one page is the length of the list it links to.
THEOREM EveryCountMatchesItsPage ==
  ASSUME NEW db, Snapshot(db) PROVE CountsMatchTheirPages(db)
<1> DEFINE all(f) == SqlList(db, [owner |-> "all", status |-> f, from |-> None, to |-> None])
           asked == {d \in Queue(db) : LatestLink(db, d) # NoItem /\ LatestLink(db, d).correction = "requested"}
<1>1. \A f : all(f) = SqlList(db, All(f))
  BY DEF All
<1>2. asked = Asked(db)
  BY DEF Asked
<1> HIDE DEF all, asked
<1>3. IsFiniteSet(Rows(db)) /\ \A S \in SUBSET Rows(db) : IsFiniteSet(S) /\ Cardinality(S) \in Nat
  BY FS_Subset, FS_CardinalityType DEF Snapshot
<1>4. Queue(db) \in SUBSET Rows(db) /\ Worklist(db, "all") = Queue(db)
  BY DEF Queue, Worklist
<1>5. Pipeline(db).approved = Cardinality(all("approved"))
  <2>1. Pipeline(db).approved = Cardinality({d \in Rows(db) : db.doc[d].status \in {"approved"}})
    BY DEF Pipeline, PipelineStages
  <2>2. {d \in Rows(db) : db.doc[d].status \in {"approved"}} = {d \in Rows(db) : db.doc[d].status = "approved"}
    OBVIOUS
  <2>3. QED
    BY <1>1, <2>1, <2>2, ListsOfAll
<1>6. Pipeline(db).exported = SqlSummary(db, "all").exported
  <2>1. Pipeline(db).exported = Cardinality({d \in Rows(db) : db.doc[d].status \in {"exported"}})
    BY DEF Pipeline, PipelineStages
  <2>2. {d \in Rows(db) : db.doc[d].status \in {"exported"}} = {d \in Rows(db) : db.doc[d].status = "exported"}
    OBVIOUS
  <2>3. SqlSummary(db, "all").exported = Cardinality({d \in Visible(db, "all") : SqlBusinessStatus(db, d) = "exported"})
    BY DEF SqlSummary, SummaryOf
  <2>4. QED
    BY <2>1, <2>2, <2>3, ListsOfAll
<1>7. Reviewable(db) \ asked = all("needs_review") /\ ToCorrect(db) \union asked = all("needs_correction")
  BY <1>1, <1>2, ListsOfAll
<1>8. \A c \in ExceptionCategories :
         /\ Breakdown(db)[c] = Cardinality(ExceptionList(db, "all", c))
         /\ Breakdown(db)[c] = ExceptionSummary(db, "all", "").categories[c]
  <2> TAKE c \in ExceptionCategories
  <2>1. Breakdown(db)[c] = Cardinality({r \in OverviewIssues(db) : r.category = c})
    BY DEF Breakdown
  <2>2. ExceptionSummary(db, "all", "").categories[c]
          = Cardinality({r \in ExceptionList(db, "all", "") : r.category = c})
    BY DEF ExceptionSummary
  <2>3. Cardinality({r \in OverviewIssues(db) : r.category = c}) = Cardinality(ExceptionList(db, "all", c))
    BY SelectionsAlike, Zenon
  <2>4. {r \in ExceptionList(db, "all", "") : r.category = c} = ExceptionList(db, "all", c)
    BY SelectionsAlike, Zenon
  <2>5. QED
    BY <2>1, <2>2, <2>3, <2>4, Zenon
<1>9. /\ Blocked(db) = {r.doc : r \in ExceptionList(db, "blocking", "")}
      /\ Blocked(db) = Worklist(db, "blocked")
  BY SelectionsAlike, Zenon
<1>10. ExceptionSummary(db, "blocking", "").affected = Cardinality(Worklist(db, "blocked"))
  BY <1>9, Zenon DEF ExceptionSummary
<1>11. ExceptionSummary(db, "all", "").high = ExceptionSummary(db, "blocking", "").open
  BY SelectionsAlike, Zenon DEF ExceptionSummary
<1>12. \A d \in Rows(db) : ListItem(db, d).errors > 0 /\ d \in Queue(db) <=> d \in Blocked(db)
  <2> TAKE d \in Rows(db)
  <2> DEFINE errors == Errors(db, d)
  <2>1. ListItem(db, d).errors = Cardinality(errors)
    BY DEF ListItem
  <2>2. errors \in SUBSET Issues(db, d)
    BY DEF Errors
  <2>3. IsFiniteSet(errors)
    <3> HIDE DEF errors
    <3> QED
      BY <2>2, FewIssues, FS_Subset
  <2>4. errors # {} <=> WorklistRow(db, d).tab = "blocked"
    BY DEF WorklistRow, HasErrors
  <2>5. d \in Worklist(db, "blocked") <=> d \in Queue(db) /\ WorklistRow(db, d).tab = "blocked"
    BY DEF Worklist
  <2> HIDE DEF errors
  <2>6. Cardinality(errors) > 0 <=> errors # {}
    BY <2>3, FS_EmptySet, FS_CardinalityType
  <2>7. QED
    BY <1>9, <2>1, <2>4, <2>5, <2>6, Zenon
<1>13. Cardinality(Rows(db)) = PipelineExcluded(db) + SumFunction(Pipeline(db))
  BY PipelineIsAll
<1>14. \A v \in {"ready", "in_batch", "blocked"} : ExportSummary(db, 1)[v] = Cardinality(ExportList(db, v))
  <2> TAKE v \in {"ready", "in_batch", "blocked"}
  <2>1. v # "exported" /\ v \in ExportViews /\ v \in ExportViews \ {"drafts"}
    BY DEF ExportViews
  <2>2. ExportSummary(db, 1)[v] =
          Cardinality({d \in Rows(db) : ExportView(db, d) = v /\ (v = "exported" => db.doc[d].day = 1)})
    BY <2>1 DEF ExportSummary
  <2>3. {d \in Rows(db) : ExportView(db, d) = v /\ (v = "exported" => db.doc[d].day = 1)} = ExportList(db, v)
    BY <2>1 DEF ExportList
  <2>4. QED
    BY <2>2, <2>3
<1>15. Attention(db) = Cardinality(Worklist(db, "all")) + Cardinality(Failed(db))
  BY <1>4 DEF Attention
<1>16. Findings(db)["duplicates"] = Cardinality({r.doc : r \in ExceptionList(db, "all", "duplicate")})
  <2>1. Findings(db)["duplicates"]
          = Cardinality({r.doc : r \in {x \in OverviewIssues(db) : FindingGroup(x) = "duplicates"}})
    BY DEF Findings
  <2>2. QED
    BY <2>1, SelectionsAlike, Zenon
<1>17. ASSUME NEW a \in Alerts(db, 1, TRUE, ExportSummary(db, 1)["blocked"])
       PROVE CASE a.id = "validation_blockers" -> a.count = Cardinality(Worklist(db, "blocked"))
            [] a.id = "processing_failed"   -> a.count <= Cardinality(all("needs_correction"))
            [] a.id = "export_blocked"      -> a.count = Cardinality(ExportList(db, "blocked"))
            [] a.id = "due_today"           -> a.count <= Cardinality(Worklist(db, "all"))
  <2>1. Cardinality(Failed(db)) <= Cardinality(all("needs_correction"))
    <3>1. Failed(db) \in SUBSET all("needs_correction") /\ all("needs_correction") \in SUBSET Rows(db)
      BY <1>2, <1>4, <1>7 DEF Failed, ToCorrect, Asked
    <3>2. QED
      BY <1>3, <3>1, FS_Subset
  <2>2. Cardinality(DueToday(db, 1)) <= Cardinality(Worklist(db, "all"))
    <3>1. DueToday(db, 1) \in SUBSET Queue(db)
      BY DEF DueToday
    <3>2. QED
      BY <1>3, <1>4, <3>1, FS_Subset
  <2>3. a \in {[id |-> "validation_blockers", count |-> Cardinality(Worklist(db, "blocked"))],
               [id |-> "due_today", count |-> Cardinality(DueToday(db, 1))],
               [id |-> "processing_failed", count |-> Cardinality(Failed(db))],
               [id |-> "export_blocked", count |-> Cardinality(ExportList(db, "blocked"))]}
    BY <1>9, <1>14, Zenon DEF Alerts
  <2>4. CASE a = [id |-> "validation_blockers", count |-> Cardinality(Worklist(db, "blocked"))]
    BY <2>4
  <2>5. CASE a = [id |-> "due_today", count |-> Cardinality(DueToday(db, 1))]
    BY <2>2, <2>5
  <2>6. CASE a = [id |-> "processing_failed", count |-> Cardinality(Failed(db))]
    BY <2>1, <2>6
  <2>7. CASE a = [id |-> "export_blocked", count |-> Cardinality(ExportList(db, "blocked"))]
    BY <2>7
  <2>8. QED
    BY <2>3, <2>4, <2>5, <2>6, <2>7, Zenon
<1>18. QED
  BY <1>5, <1>6, <1>7, <1>8, <1>9, <1>10, <1>11, <1>12, <1>13, <1>14, <1>15, <1>16, <1>17, Zenon
     DEF CountsMatchTheirPages, all, asked

-----------------------------------------------------------------------------
(* The pages of the administrator.                                           *)

\* A ledger of a workspace as the rows can be.
Ledger(sys) ==
  /\ IsFiniteSet(sys.jobs)
  /\ \A j \in sys.jobs :
       /\ j.status \in QueueStates \union {"cancelled"}
       /\ j.id \in Int /\ j.updated \in Int
       /\ j.started \in Int \union {Unset} /\ j.finished \in Int \union {Unset}

\* The jobs of a ledger fall into finitely many groups, each job into its own.
LEMMA GroupsOfJobs ==
  ASSUME NEW sys, Ledger(sys)
  PROVE  /\ IsFiniteSet(JobGroups(sys))
         /\ \A g : IsFiniteSet(InGroup(sys, g)) /\ InGroup(sys, g) \subseteq sys.jobs
         /\ \A j \in sys.jobs : <<j.status, j.provider>> \in JobGroups(sys) /\ j \in InGroup(sys, <<j.status, j.provider>>)
         /\ \A g \in JobGroups(sys) : g = <<g[1], g[2]>>
         /\ \A g : \A j \in InGroup(sys, g) : g = <<j.status, j.provider>>
<1> DEFINE f == [j \in sys.jobs |-> <<j.status, j.provider>>]
           image == {f[j] : j \in sys.jobs}
<1>1. IsFiniteSet(sys.jobs)
  BY DEF Ledger
<1>2. IsFiniteSet(image)
  <2> HIDE DEF f
  <2> QED
    BY <1>1, FiniteImage
<1>3. image = JobGroups(sys)
  BY DEF JobGroups
<1>4. ASSUME NEW g PROVE IsFiniteSet(InGroup(sys, g)) /\ InGroup(sys, g) \in SUBSET sys.jobs
  <2>1. InGroup(sys, g) \in SUBSET sys.jobs
    BY DEF InGroup
  <2>2. QED
    BY <1>1, <2>1, FS_Subset
<1>5. /\ \A j \in sys.jobs : <<j.status, j.provider>> \in JobGroups(sys) /\ j \in InGroup(sys, <<j.status, j.provider>>)
      /\ \A g : \A j \in InGroup(sys, g) : g = <<j.status, j.provider>>
  BY DEF JobGroups, InGroup
<1>6. \A g \in JobGroups(sys) : g = <<g[1], g[2]>>
  BY DEF JobGroups
<1> HIDE DEF image
<1>7. QED
  BY <1>2, <1>3, <1>4, <1>5, <1>6

\* The records of some groups are the jobs in them.
LEMMA GroupsCount ==
  ASSUME NEW sys, Ledger(sys), NEW G \in SUBSET JobGroups(sys)
  PROVE  SumFunction([g \in G |-> Cardinality(InGroup(sys, g))])
           = Cardinality({j \in sys.jobs : <<j.status, j.provider>> \in G})
<1> DEFINE part == [g \in G |-> InGroup(sys, g)]
           count == [g \in G |-> Cardinality(InGroup(sys, g))]
<1>1. IsFiniteSet(G)
  BY GroupsOfJobs, FS_Subset
<1>2. Apart(part, G)
  <2>1. \A x, y \in G : x # y => InGroup(sys, x) \intersect InGroup(sys, y) = {}
    BY DEF InGroup
  <2>2. QED
    BY <2>1, GroupsOfJobs DEF Apart
<1>3. DOMAIN count = G /\ \A g \in G : count[g] = Cardinality(part[g])
  OBVIOUS
<1>4. Union(part, G) = {j \in sys.jobs : <<j.status, j.provider>> \in G}
  BY DEF Union, InGroup
<1> HIDE DEF part, count
<1>5. SumFunction(count) = Cardinality(Union(part, G))
  BY <1>1, <1>2, <1>3, SumOfParts
<1>6. QED
  BY <1>4, <1>5 DEF count

\* How long each of some timed jobs took.
Took(jobs) == [j \in Timed(jobs) |-> j.finished - j.started]

\* The timed jobs of a ledger took as many minutes as they have points.
LEMMA TimedJobs ==
  ASSUME NEW sys, Ledger(sys), NEW jobs \in SUBSET sys.jobs
  PROVE  /\ IsFiniteSet(Timed(jobs)) /\ Timed(jobs) \subseteq jobs
         /\ Took(jobs) \in [Timed(jobs) -> Nat]
         /\ Durations(jobs) = Cardinality(Union(Points(Took(jobs)), Timed(jobs)))
         /\ IsFiniteSet(Union(Points(Took(jobs)), Timed(jobs)))
<1>1. Timed(jobs) \in SUBSET sys.jobs /\ Timed(jobs) \subseteq jobs
  BY DEF Timed
<1>2. IsFiniteSet(Timed(jobs))
  BY <1>1, FS_Subset DEF Ledger
<1>3. \A j \in Timed(jobs) : j.finished - j.started \in Nat
  <2> TAKE j \in Timed(jobs)
  <2>1. j.finished \in Int /\ j.started \in Int /\ j.finished >= j.started
    BY <1>1 DEF Timed, Ledger
  <2>2. QED
    BY <2>1
<1>4. Took(jobs) \in [Timed(jobs) -> Nat]
  BY <1>3 DEF Took
<1>5. Durations(jobs) = SumFunction(Took(jobs))
  BY DEF Durations, Took
<1>6. QED
  BY <1>1, <1>2, <1>4, <1>5, SumIsCount

\* The grouped durations and timed jobs are those of all the jobs.
LEMMA GroupsTime ==
  ASSUME NEW sys, Ledger(sys)
  PROVE  /\ SumFunction([g \in JobGroups(sys) |-> Durations(InGroup(sys, g))]) = Durations(sys.jobs)
         /\ SumFunction([g \in JobGroups(sys) |-> Cardinality(Timed(InGroup(sys, g)))]) = Cardinality(Timed(sys.jobs))
<1> DEFINE G == JobGroups(sys)
           in(g) == InGroup(sys, g)
           timed == [g \in G |-> Timed(in(g))]
           took == [g \in G |-> Union(Points(Took(in(g))), Timed(in(g)))]
<1>1. IsFiniteSet(G) /\ \A g : in(g) \in SUBSET sys.jobs
  BY GroupsOfJobs
<1>2. \A j : j \in Timed(sys.jobs) <=> \E g \in G : j \in Timed(in(g))
  BY GroupsOfJobs DEF Timed, InGroup
<1>3. \A g, h \in G : g # h => Timed(in(g)) \intersect Timed(in(h)) = {}
  BY GroupsOfJobs DEF Timed
<1>4. Union(timed, G) = Timed(sys.jobs)
  BY <1>2 DEF Union
<1>5. Apart(timed, G)
  BY <1>1, <1>3, TimedJobs DEF Apart
<1>6. \A jobs : \A p : p \in Union(Points(Took(jobs)), Timed(jobs))
         <=> \E j \in Timed(jobs) : p \in {j} \X (1..(j.finished - j.started))
  BY DEF Union, Points, Took
<1>7. Union(took, G) = Union(Points(Took(sys.jobs)), Timed(sys.jobs))
  <2>1. \A p : p \in Union(took, G) <=> \E g \in G : p \in Union(Points(Took(in(g))), Timed(in(g)))
    BY DEF Union
  <2> DEFINE points(j) == {j} \X (1..(j.finished - j.started))
  <2>2. \A jobs : \A p : p \in Union(Points(Took(jobs)), Timed(jobs)) <=> \E j \in Timed(jobs) : p \in points(j)
    BY <1>6
  <2> HIDE DEF took, in, G, points
  <2>3. ASSUME NEW p PROVE p \in Union(took, G) <=> \E j \in Timed(sys.jobs) : p \in points(j)
    <3>1. p \in Union(took, G) <=> \E g \in G : \E j \in Timed(in(g)) : p \in points(j)
      BY <2>1, <2>2
    <3>2. QED
      BY <1>2, <3>1
  <2>4. QED
    BY <2>2, <2>3
<1>8. Apart(took, G)
  <2>1. \A g \in G : IsFiniteSet(took[g])
    BY <1>1, TimedJobs
  <2>2. ASSUME NEW g \in G, NEW h \in G, g # h PROVE took[g] \intersect took[h] = {}
    <3>1. \A x \in G : \A p \in took[x] : p[1] \in Timed(in(x))
      BY <1>6
    <3> HIDE DEF took, in, G
    <3>2. QED
      BY <1>3, <2>2, <3>1
  <2> HIDE DEF took, G
  <2>3. QED
    BY <2>1, <2>2 DEF Apart
<1> DEFINE count == [g \in G |-> Cardinality(Timed(in(g)))]
           sum == [g \in G |-> Durations(in(g))]
<1>9. DOMAIN count = G /\ \A g \in G : count[g] = Cardinality(timed[g])
  OBVIOUS
<1>10. DOMAIN sum = G /\ \A g \in G : sum[g] = Cardinality(took[g])
  BY <1>1, TimedJobs
<1>11. Durations(sys.jobs) = Cardinality(Union(Points(Took(sys.jobs)), Timed(sys.jobs)))
  BY TimedJobs
<1> HIDE DEF timed, took, count, sum
<1>12. SumFunction(count) = Cardinality(Union(timed, G)) /\ SumFunction(sum) = Cardinality(Union(took, G))
  BY <1>1, <1>5, <1>8, <1>9, <1>10, SumOfParts
<1>13. QED
  BY <1>4, <1>7, <1>11, <1>12 DEF count, sum

Jobs(sys, G) == {j \in sys.jobs : <<j.status, j.provider>> \in G}

\* The metrics of the grouped rows are those of the jobs.
LEMMA MetricsAlike ==
  ASSUME NEW sys, Ledger(sys)
  PROVE  SqlJobMetrics(sys) = MemoryJobMetrics(sys)
<1> DEFINE G == JobGroups(sys)
           records(groups) == SumFunction([g \in groups |-> Cardinality(InGroup(sys, g))])
           size(groups) == Cardinality(Jobs(sys, groups))
           named == {g[2] : g \in G} \ {Unset}
<1>1. \A groups \in SUBSET G : records(groups) = size(groups)
  BY GroupsCount DEF Jobs
<1>2. SqlJobMetrics(sys) =
        [total     |-> records(G),
         queue     |-> [s \in QueueStates |-> records({g \in G : g[1] = s})],
         failures  |-> records({g \in G : g[1] \in FailedStates}),
         runs      |-> [p \in named |-> records({g \in G : g[2] = p})],
         succeeded |-> records({g \in G : g[1] = "succeeded"}),
         duration  |-> SumFunction([g \in G |-> Durations(InGroup(sys, g))]),
         timed     |-> SumFunction([g \in G |-> Cardinality(Timed(InGroup(sys, g)))])]
  BY DEF SqlJobMetrics
<1>3. SqlJobMetrics(sys) =
        [total     |-> size(G),
         queue     |-> [s \in QueueStates |-> size({g \in G : g[1] = s})],
         failures  |-> size({g \in G : g[1] \in FailedStates}),
         runs      |-> [p \in named |-> size({g \in G : g[2] = p})],
         succeeded |-> size({g \in G : g[1] = "succeeded"}),
         duration  |-> Durations(sys.jobs),
         timed     |-> Cardinality(Timed(sys.jobs))]
  <2>1. /\ SumFunction([g \in G |-> Durations(InGroup(sys, g))]) = Durations(sys.jobs)
        /\ SumFunction([g \in G |-> Cardinality(Timed(InGroup(sys, g)))]) = Cardinality(Timed(sys.jobs))
    BY GroupsTime
  <2>2. /\ G \in SUBSET G /\ {g \in G : g[1] \in FailedStates} \in SUBSET G
        /\ \A s : {g \in G : g[1] = s} \in SUBSET G /\ {g \in G : g[2] = s} \in SUBSET G
    OBVIOUS
  <2> HIDE DEF G, records, size, named
  <2>3. /\ records(G) = size(G) /\ records({g \in G : g[1] \in FailedStates}) = size({g \in G : g[1] \in FailedStates})
        /\ \A s : records({g \in G : g[1] = s}) = size({g \in G : g[1] = s})
        /\ \A s : records({g \in G : g[2] = s}) = size({g \in G : g[2] = s})
    BY <1>1, <2>2
  <2>4. /\ [s \in QueueStates |-> records({g \in G : g[1] = s})] = [s \in QueueStates |-> size({g \in G : g[1] = s})]
        /\ [p \in named |-> records({g \in G : g[2] = p})] = [p \in named |-> size({g \in G : g[2] = p})]
    BY <2>3
  <2>5. QED
    BY <1>2, <2>1, <2>3, <2>4, Zenon
<1>4. \A j \in sys.jobs : <<j.status, j.provider>> \in G
  BY GroupsOfJobs, Zenon
<1>5. /\ Jobs(sys, G) = sys.jobs
      /\ \A s : /\ Jobs(sys, {g \in G : g[1] = s}) = {j \in sys.jobs : j.status = s}
                /\ Jobs(sys, {g \in G : g[2] = s}) = {j \in sys.jobs : j.provider = s}
      /\ Jobs(sys, {g \in G : g[1] \in FailedStates}) = {j \in sys.jobs : j.status \in FailedStates}
  <2> HIDE DEF G
  <2> QED
    BY <1>4 DEF Jobs
<1>6. named = {j.provider : j \in sys.jobs} \ {Unset}
  <2>1. \A g \in G : \E j \in sys.jobs : g[2] = j.provider
    BY DEF JobGroups
  <2> HIDE DEF G
  <2>2. \A j \in sys.jobs : <<j.status, j.provider>> \in G /\ <<j.status, j.provider>>[2] = j.provider
    BY <1>4, Zenon
  <2>3. QED
    BY <2>1, <2>2
<1> HIDE DEF G, named
<1>7. SqlJobMetrics(sys) =
        [total     |-> Cardinality(sys.jobs),
         queue     |-> [s \in QueueStates |-> Cardinality({j \in sys.jobs : j.status = s})],
         failures  |-> Cardinality({j \in sys.jobs : j.status \in FailedStates}),
         runs      |-> [p \in named |-> Cardinality({j \in sys.jobs : j.provider = p})],
         succeeded |-> Cardinality({j \in sys.jobs : j.status = "succeeded"}),
         duration  |-> Durations(sys.jobs),
         timed     |-> Cardinality(Timed(sys.jobs))]
  <2>1. /\ size(G) = Cardinality(sys.jobs)
        /\ size({g \in G : g[1] \in FailedStates}) = Cardinality({j \in sys.jobs : j.status \in FailedStates})
        /\ \A s : size({g \in G : g[1] = s}) = Cardinality({j \in sys.jobs : j.status = s})
        /\ \A s : size({g \in G : g[2] = s}) = Cardinality({j \in sys.jobs : j.provider = s})
    BY <1>5
  <2> HIDE DEF size
  <2>2. /\ [s \in QueueStates |-> size({g \in G : g[1] = s})]
             = [s \in QueueStates |-> Cardinality({j \in sys.jobs : j.status = s})]
        /\ [p \in named |-> size({g \in G : g[2] = p})]
             = [p \in named |-> Cardinality({j \in sys.jobs : j.provider = p})]
    BY <2>1
  <2>3. QED
    BY <1>3, <2>1, <2>2, Zenon
<1>8. MemoryJobMetrics(sys) =
        [total     |-> Cardinality(sys.jobs),
         queue     |-> [s \in QueueStates |-> Cardinality({j \in sys.jobs : j.status = s})],
         failures  |-> Cardinality({j \in sys.jobs : j.status \in FailedStates}),
         runs      |-> [p \in {j.provider : j \in sys.jobs} \ {Unset} |-> Cardinality({j \in sys.jobs : j.provider = p})],
         succeeded |-> Cardinality({j \in sys.jobs : j.status = "succeeded"}),
         duration  |-> Durations(sys.jobs),
         timed     |-> Cardinality(Timed(sys.jobs))]
  BY DEF MemoryJobMetrics
<1>9. QED
  BY <1>6, <1>7, <1>8, Zenon

\* Every job is counted in one state, or cancelled.
LEMMA StatesAreAll ==
  ASSUME NEW sys, Ledger(sys),
         NEW queue, queue = [s \in QueueStates |-> Cardinality({j \in sys.jobs : j.status = s})]
  PROVE  Cardinality(sys.jobs) = Cardinality({j \in sys.jobs : j.status = "cancelled"}) + SumFunction(queue)
<1> DEFINE part == [s \in QueueStates |-> {j \in sys.jobs : j.status = s}]
           in == Union(part, QueueStates)
           out == {j \in sys.jobs : j.status = "cancelled"}
<1>1. IsFiniteSet(QueueStates)
  <2>1. IsFiniteSet({"queued"} \union {"running"} \union {"retrying"} \union {"failed"} \union {"dead_letter"} \union {"succeeded"})
    BY FS_Singleton, FS_Union
  <2>2. QueueStates = {"queued"} \union {"running"} \union {"retrying"} \union {"failed"} \union {"dead_letter"} \union {"succeeded"}
    BY DEF QueueStates
  <2>3. QED
    BY <2>1, <2>2
<1>2. Apart(part, QueueStates)
  <2>1. \A s \in QueueStates : part[s] \in SUBSET sys.jobs
    OBVIOUS
  <2>2. \A s \in QueueStates : IsFiniteSet(part[s])
    <3> HIDE DEF part
    <3> QED
      BY <2>1, FS_Subset DEF Ledger
  <2>3. \A x, y \in QueueStates : x # y => part[x] \intersect part[y] = {}
    OBVIOUS
  <2>4. QED
    BY <2>2, <2>3 DEF Apart
<1>3. DOMAIN queue = QueueStates /\ \A s \in QueueStates : queue[s] = Cardinality(part[s])
  OBVIOUS
<1>4. in = {j \in sys.jobs : j.status \in QueueStates}
  BY DEF Union
<1>5. "cancelled" \notin QueueStates
  BY DEF QueueStates
<1>6. in \in SUBSET sys.jobs /\ out \in SUBSET sys.jobs /\ out \intersect in = {} /\ out \union in = sys.jobs
  BY <1>4, <1>5 DEF Ledger
<1> HIDE DEF part
<1>7. SumFunction(queue) = Cardinality(in)
  BY <1>1, <1>2, <1>3, SumOfParts
<1> HIDE DEF in, out
<1>8. Cardinality(out \union in) = Cardinality(out) + Cardinality(in)
  BY <1>6, BothKinds DEF Ledger
<1>9. QED
  BY <1>6, <1>7, <1>8 DEF out

\* The failures fill their pages: the rank of one is below their number.
LEMMA PagesOfFailures ==
  ASSUME NEW sys, Ledger(sys), NEW size \in 1..2
  PROVE  LET failed == {j \in sys.jobs : j.status \in FailedStates}
         IN /\ \A j \in failed :
                 Cardinality({p \in 1..FailurePages(sys, size) : j \in FailurePage(sys, p, size)}) = 1
            /\ FailurePage(sys, FailurePages(sys, size) + 1, size) = {}
<1> DEFINE failed == {j \in sys.jobs : j.status \in FailedStates}
           ahead(j) == {i \in failed : FailedBefore(i, j)}
           rank(j) == Cardinality(ahead(j))
           n == Cardinality(failed)
           pages == FailurePages(sys, size)
<1>1. IsFiniteSet(failed) /\ n \in Nat
  <2>1. failed \in SUBSET sys.jobs
    OBVIOUS
  <2> HIDE DEF failed
  <2>2. QED
    BY <2>1, FS_Subset, FS_CardinalityType DEF Ledger
<1>2. ASSUME NEW j \in failed PROVE rank(j) \in Nat /\ rank(j) < n
  <2> DEFINE A == ahead(j)
  <2>1. A \in SUBSET failed /\ j \notin A
    BY DEF FailedBefore, Ledger
  <2> HIDE DEF A, failed
  <2>2. IsFiniteSet(A) /\ Cardinality(A) \in Nat /\ Cardinality(A) <= n /\ Cardinality(A) # n
    BY <1>1, <2>1, FS_Subset, FS_CardinalityType
  <2>3. QED
    BY <1>1, <2>2 DEF A
<1>3. pages = IF (n + size - 1) \div size < 1 THEN 1 ELSE (n + size - 1) \div size
  BY DEF FailurePages
<1>4. \A p : FailurePage(sys, p, size) = {j \in failed : rank(j) \div size = p - 1}
  BY DEF FailurePage
<1>5. pages \in Nat /\ pages >= 1 /\ \A k \in Nat : k < n => k \div size + 1 <= pages /\ k \div size \in Nat
  <2> HIDE DEF n, pages
  <2>1. CASE size = 1
    BY <1>1, <1>3, <2>1
  <2>2. CASE size = 2
    BY <1>1, <1>3, <2>2
  <2>3. QED
    BY <2>1, <2>2
<1> HIDE DEF pages, n, rank, ahead
<1>6. ASSUME NEW j \in failed PROVE Cardinality({p \in 1..pages : j \in FailurePage(sys, p, size)}) = 1
  <2> DEFINE k == rank(j) \div size
  <2>1. k \in Nat /\ k + 1 <= pages
    BY <1>2, <1>5, <1>6
  <2>2. \A p \in 1..pages : j \in FailurePage(sys, p, size) <=> k = p - 1
    BY <1>4
  <2> HIDE DEF k
  <2>3. {p \in 1..pages : j \in FailurePage(sys, p, size)} = {k + 1}
    BY <1>5, <2>1, <2>2
  <2>4. QED
    BY <2>3, FS_Singleton
<1>7. FailurePage(sys, pages + 1, size) = {}
  <2> SUFFICES ASSUME NEW j \in failed, rank(j) \div size = (pages + 1) - 1 PROVE FALSE
    BY <1>4
  <2> DEFINE k == rank(j) \div size
  <2>1. k \in Nat /\ k + 1 <= pages
    BY <1>2, <1>5
  <2> HIDE DEF k
  <2>2. k = (pages + 1) - 1
    BY DEF k
  <2>3. QED
    BY <1>5, <2>1, <2>2
<1>8. QED
  BY <1>6, <1>7 DEF pages

\* The pages of the administrator agree on every ledger, at every minute.
THEOREM EveryDashboardAgrees ==
  ASSUME NEW sys, Ledger(sys), NEW now \in Int
  PROVE  DashboardsAgree(sys, now)
<1> DEFINE of(s) == {j \in sys.jobs : j.status = s}
           size(s) == Cardinality(of(s))
           failed == {j \in sys.jobs : j.status \in FailedStates}
           waiting == {j \in sys.jobs : j.status \in WaitingStates}
           stalled == {j \in sys.jobs : j.status = "running" /\ j.updated < now - StalledAfter}
           queue == [s \in QueueStates |-> size(s)]
           sql == SqlJobMetrics(sys)
           health == Health(sys, now)
<1>1. sql = MemoryJobMetrics(sys)
  BY MetricsAlike
<1>2. /\ sql.total = Cardinality(sys.jobs)
      /\ sql.queue = queue
      /\ sql.failures = Cardinality(failed)
      /\ \A p \in DOMAIN sql.runs : sql.runs[p] = Cardinality({j \in sys.jobs : j.provider = p})
  BY <1>1 DEF MemoryJobMetrics
<1>3. /\ health.queued = Cardinality(waiting) /\ health.failed = Cardinality(failed)
      /\ health.stalled = Cardinality(stalled)
      /\ Kpis(sys).waiting = Cardinality(waiting) /\ Kpis(sys).processing_now = size("running")
  BY DEF Health, Kpis
<1>4. \A S : S \in SUBSET sys.jobs => IsFiniteSet(S) /\ Cardinality(S) \in Nat
  BY FS_Subset, FS_CardinalityType DEF Ledger
<1>5. /\ \A s : of(s) \in SUBSET sys.jobs
      /\ waiting \in SUBSET sys.jobs /\ stalled \in SUBSET of("running")
      /\ waiting = of("queued") \union of("retrying") /\ of("queued") \intersect of("retrying") = {}
  BY DEF WaitingStates
<1>6. \A s \in QueueStates : queue[s] = size(s)
  OBVIOUS
<1>7. "queued" \in QueueStates /\ "retrying" \in QueueStates /\ "running" \in QueueStates
  BY DEF QueueStates
<1>8. sql.total = size("cancelled") + SumFunction(sql.queue)
  BY <1>2, StatesAreAll
<1>9. Cardinality(waiting) = size("queued") + size("retrying")
  <2> HIDE DEF of, waiting
  <2>1. QED
    BY <1>5, BothKinds DEF Ledger
<1>10. Cardinality(stalled) <= size("running") /\ Cardinality(stalled) \in Nat /\ size("running") \in Nat
  <2> HIDE DEF of, stalled
  <2>1. QED
    BY <1>4, <1>5, FS_Subset
<1>11. \A p \in DOMAIN sql.runs : Activity(sys, p).runs = sql.runs[p]
  BY <1>2 DEF Activity
<1>12. \A n \in 1..2 :
          /\ \A j \in failed : Cardinality({p \in 1..FailurePages(sys, n) : j \in FailurePage(sys, p, n)}) = 1
          /\ FailurePage(sys, FailurePages(sys, n) + 1, n) = {}
  BY PagesOfFailures
<1>13. WorkerStatus(sys, now) = "degraded" => Cardinality(stalled) > 0
  BY <1>3 DEF WorkerStatus
<1>14. of("cancelled") = {j \in sys.jobs : j.status = "cancelled"}
  OBVIOUS
<1> HIDE DEF queue, size, stalled, waiting, sql, health
<1>15. /\ sql.queue["queued"] + sql.queue["retrying"] = health.queued
       /\ health.queued = Kpis(sys).waiting
       /\ sql.failures = health.failed
       /\ health.stalled <= Kpis(sys).processing_now
       /\ WorkerStatus(sys, now) = "degraded" => sql.queue["running"] > 0
  BY <1>2, <1>3, <1>6, <1>7, <1>9, <1>10, <1>13
<1>16. sql.total = Cardinality({j \in sys.jobs : j.status = "cancelled"}) + SumFunction(sql.queue)
  BY <1>8, <1>14, Zenon DEF size
<1>17. QED
  BY <1>1, <1>11, <1>12, <1>15, <1>16 DEF DashboardsAgree, sql, health

\* The last of some moments is one of them, and no earlier than any.
LEMMA LatestIsLast ==
  ASSUME NEW S, IsFiniteSet(S), S \subseteq Int
  PROVE  /\ S = {} <=> Latest(S) = Unset
         /\ S # {} => Latest(S) \in S /\ \A t \in S : t <= Latest(S)
<1>1. CASE S = {}
  BY <1>1 DEF Latest
<1>2. CASE S # {}
  <2>1. PICK t \in S : \A u \in S : u <= t
    BY <1>2, FiniteLargest
  <2>2. Latest(S) = CHOOSE x \in S : \A y \in S : x >= y
    BY <1>2 DEF Latest, Max
  <2>3. \A y \in S : t >= y
    BY <2>1
  <2>4. Latest(S) \in S /\ \A y \in S : Latest(S) >= y
    BY <2>2, <2>3
  <2>5. Latest(S) # Unset
    BY <2>4, UnsetAssumption
  <2>6. QED
    BY <1>2, <2>4, <2>5
<1>3. QED
  BY <1>1, <1>2

\* The moments of some jobs are finitely many.
LEMMA MomentsOfJobs ==
  ASSUME NEW sys, Ledger(sys), NEW jobs \in SUBSET sys.jobs
  PROVE  IsFiniteSet({j.updated : j \in jobs}) /\ {j.updated : j \in jobs} \subseteq Int
<1> DEFINE f == [j \in jobs |-> j.updated]
           image == {f[j] : j \in jobs}
<1>1. IsFiniteSet(jobs)
  BY FS_Subset DEF Ledger
<1>2. IsFiniteSet(image)
  <2> HIDE DEF f
  <2> QED
    BY <1>1, FiniteImage
<1>3. image = {j.updated : j \in jobs}
  OBVIOUS
<1>4. {j.updated : j \in jobs} \subseteq Int
  BY DEF Ledger
<1>5. QED
  BY <1>2, <1>3, <1>4

\* A real provider is only operational if a success followed each failure that names it.
LEMMA FailuresWereFollowed ==
  ASSUME NEW sys, Ledger(sys), NEW provider, provider.configured # "mock",
         ProviderService(sys, provider) = "operational",
         NEW j \in sys.jobs, j.status \in FailedStates, j.error = provider.runtime
  PROVE  \E k \in sys.jobs : k.status = "succeeded" /\ k.updated >= j.updated
<1> DEFINE named == {i \in sys.jobs : i.status \in FailedStates /\ i.error \in {provider.runtime, provider.configured}}
           done == {i \in sys.jobs : i.status = "succeeded"}
           failures == {i.updated : i \in named}
           successes == {i.updated : i \in done}
           failure == Latest(failures)
           success == Latest(successes)
<1>1. /\ IsFiniteSet(failures) /\ failures \subseteq Int
      /\ IsFiniteSet(successes) /\ successes \subseteq Int
  <2>1. named \in SUBSET sys.jobs /\ done \in SUBSET sys.jobs
    OBVIOUS
  <2> HIDE DEF named, done
  <2>2. QED
    BY <2>1, MomentsOfJobs
<1>2. ProviderService(sys, provider) =
        IF failure # Unset /\ (success = Unset \/ failure > success) THEN "degraded"
        ELSE IF success # Unset THEN "operational" ELSE "unknown"
  BY DEF ProviderService
<1>3. j.updated \in failures
  OBVIOUS
<1>4. \A t \in successes : \E k \in sys.jobs : k.status = "succeeded" /\ k.updated = t
  OBVIOUS
<1> HIDE DEF failures, successes, named, done
<1>5. failure \in Int /\ j.updated <= failure /\ j.updated \in Int /\ failure # Unset
  BY <1>1, <1>3, LatestIsLast
<1> HIDE DEF failure
<1>6. success # Unset /\ ~(failure > success)
  BY <1>2, <1>5
<1>7. success \in successes
  BY <1>1, <1>6, LatestIsLast
<1>8. PICK k \in sys.jobs : k.status = "succeeded" /\ k.updated = success
  BY <1>4, <1>7
<1>9. k.updated \in Int
  BY DEF Ledger
<1>10. k.updated >= j.updated
  <2> HIDE DEF success
  <2> QED
    BY <1>5, <1>6, <1>8, <1>9
<1>11. QED
  BY <1>8, <1>10

\* The system is only called operational where it has earned it, on every ledger.
THEOREM EveryOperationalIsEarned ==
  ASSUME NEW sys, Ledger(sys), NEW ready, NEW providers, NEW accounting
  PROVE  OperationalIsEarned(sys, ready, providers, accounting)
<1> DEFINE services == Services(sys, ready, providers, accounting)
           both == {providers.reader, providers.extractor}
           failed == {j \in sys.jobs : j.status \in FailedStates}
<1>1. /\ "reader" \in DOMAIN services /\ "extractor" \in DOMAIN services
      /\ services["reader"] = ProviderService(sys, providers.reader)
      /\ services["extractor"] = ProviderService(sys, providers.extractor)
  BY DEF Services
<1>2. ASSUME NEW s \in DOMAIN services PROVE services[s] \in {"operational", "degraded", "unavailable", "unknown"}
  BY DEF Services, ProviderService, ExportService
<1>3. ASSUME Overall(services) = "operational"
      PROVE  \A s \in DOMAIN services : services[s] = "operational"
  <2> HIDE DEF services
  <2>1. QED
    BY <1>2, <1>3 DEF Overall
<1>4. ASSUME Overall(services) = "operational"
      PROVE  NeedsAttention(sys, services) = Min({5, Cardinality(failed)})
  <2>1. {s \in DOMAIN services : services[s] \in {"degraded", "unavailable"}} = {}
    BY <1>3, <1>4
  <2>2. Cardinality({s \in DOMAIN services : services[s] \in {"degraded", "unavailable"}}) = 0
    BY <2>1, FS_EmptySet
  <2>3. Cardinality(failed) \in Nat
    <3>1. failed \in SUBSET sys.jobs
      OBVIOUS
    <3> HIDE DEF failed
    <3>2. QED
      BY <3>1, FS_Subset, FS_CardinalityType DEF Ledger
  <2> DEFINE n == Cardinality(failed)
  <2>4. Min({5, n}) \in Nat
    <3> HIDE DEF n
    <3>1. n \in Nat
      BY <2>3 DEF n
    <3>2. CASE n <= 5
      <4>1. n \in {5, n} /\ \A y \in {5, n} : n <= y
        BY <3>1, <3>2
      <4>2. QED
        BY <3>1, <4>1 DEF Min
    <3>3. CASE 5 <= n
      <4>1. 5 \in {5, n} /\ \A y \in {5, n} : 5 <= y
        BY <3>1, <3>3
      <4>2. QED
        BY <3>1, <4>1 DEF Min
    <3>4. QED
      BY <3>1, <3>2, <3>3
  <2> HIDE DEF services
  <2>5. NeedsAttention(sys, services) = 0 + Min({5, n})
    BY <2>2 DEF NeedsAttention
  <2> HIDE DEF n
  <2>6. 0 + Min({5, n}) = Min({5, n})
    BY <2>4
  <2>7. QED
    BY <2>5, <2>6 DEF n
<1>5. ASSUME Overall(services) = "operational", NEW p \in both, NEW j \in failed,
             p.configured # "mock", j.error = p.runtime
      PROVE  \E k \in sys.jobs : k.status = "succeeded" /\ k.updated >= j.updated
  <2>1. ProviderService(sys, p) = "operational"
    BY <1>1, <1>3, <1>5
  <2>2. QED
    BY <1>5, <2>1, FailuresWereFollowed
<1>6. ASSUME ProvidersOverall(sys, both) = "healthy", NEW p \in both
      PROVE  ProviderService(sys, p) = "operational"
  <2>1. ProviderStatus(sys, p) \in {ProviderStatus(sys, q) : q \in both}
    BY <1>6, Zenon
  <2>2. /\ "degraded" \notin {ProviderStatus(sys, q) : q \in both}
        /\ "ready_unverified" \notin {ProviderStatus(sys, q) : q \in both}
    BY <1>6 DEF ProvidersOverall
  <2>3. ProviderStatus(sys, p) # "degraded" /\ ProviderStatus(sys, p) # "ready_unverified"
    BY <2>1, <2>2
  <2>4. p.configured = "mock"
    BY <2>3 DEF ProviderStatus
  <2>5. QED
    BY <2>4 DEF ProviderService
<1>7. ProvidersOverall(sys, both) = "healthy" =>
        \A s \in {"reader", "extractor"} : services[s] = "operational"
  BY <1>1, <1>6
<1> HIDE DEF services
<1>8. QED
  BY <1>4, <1>5, <1>7 DEF OperationalIsEarned, services

-----------------------------------------------------------------------------
(* Summaries and comparisons of recorded runs.                               *)

\* Records of runs, each with the traces of its tools.
Recordings(R) == \A run \in R : Len(run.traces) \in Nat

\* The failure of a run is one it has, and it has one unless it is a success.
LEMMA FailureOfRun ==
  ASSUME NEW R, Recordings(R), NEW run \in R
  PROVE  /\ FailuresOf(run) \subseteq 0..Len(run.traces)
         /\ EvaluateRun(run).success <=> FailuresOf(run) = {}
         /\ EvaluateRun(run).success <=> EvaluateRun(run).failure = NoFailure
         /\ ~EvaluateRun(run).success =>
              \E j \in FailuresOf(run) : Recorded(run)[j] = EvaluateRun(run).failure
<1>1. FailuresOf(run) \subseteq 0..Len(run.traces) /\ Len(run.traces) \in Nat
  BY DEF FailuresOf, Recorded, Recordings
<1>2. /\ EvaluateRun(run).success <=> FailuresOf(run) = {}
      /\ EvaluateRun(run).failure = IF FailuresOf(run) = {} THEN NoFailure ELSE Recorded(run)[Min(FailuresOf(run))]
  BY DEF EvaluateRun
<1>3. ASSUME FailuresOf(run) # {} PROVE Min(FailuresOf(run)) \in FailuresOf(run)
  <2>1. FailuresOf(run) \in SUBSET Nat
    BY <1>1
  <2>2. \E n \in FailuresOf(run) : \A m \in FailuresOf(run) : n <= m
    BY <1>3, <2>1, Smallest
  <2>3. QED
    BY <2>2 DEF Min
<1>4. \A j \in FailuresOf(run) : Recorded(run)[j] # NoFailure
  BY DEF FailuresOf
<1>5. QED
  BY <1>1, <1>2, <1>3, <1>4

\* A stretch of recorded runs is one, and so are the newest.
LEMMA PartsOfRuns ==
  ASSUME NEW R, NEW runs \in Seq(R), NEW from \in Nat, from >= 1, NEW to \in Nat
  PROVE  SubSeq(runs, from, Min({to, Len(runs)})) \in Seq(R)
<1>1. Len(runs) \in Nat /\ \A i \in 1..Len(runs) : runs[i] \in R
  BY LenProperties
<1>2. PICK m \in Nat : m = Min({to, Len(runs)}) /\ m <= Len(runs)
  BY <1>1, SmallerOfTwo
<1>3. \A i \in from..m : runs[i] \in R
  BY <1>1, <1>2
<1>4. SubSeq(runs, from, m) \in Seq(R)
  BY <1>3, SubSeqProperties
<1>5. QED
  BY <1>2, <1>4

\* The newest recorded runs are recorded runs.
LEMMA NewestRuns ==
  ASSUME NEW R, NEW runs \in Seq(R), NEW to \in Nat
  PROVE  Newest(runs, to) \in Seq(R)
<1>1. PICK one \in Nat : one = 1
  OBVIOUS
<1>2. SubSeq(runs, one, Min({to, Len(runs)})) \in Seq(R)
  BY <1>1, PartsOfRuns
<1>3. QED
  BY <1>1, <1>2 DEF Newest

\* What the parts of a summary count.
Summed(s, runs, limit) ==
  /\ s.total = Len(runs)
  /\ s.completion = <<Cardinality({i \in DOMAIN runs : EvaluateRun(runs[i]).failure = NoFailure}), Len(runs)>>
  /\ s.accuracy = <<Cardinality({i \in DOMAIN runs : EvaluateRun(runs[i]).correct}),
                    Cardinality({i \in DOMAIN runs : EvaluateRun(runs[i]).evaluated})>>
  /\ s.prevention = <<Cardinality({i \in DOMAIN runs : runs[i].blocked > 0}),
                      Cardinality({i \in DOMAIN runs : runs[i].blocked > 0})>>
  /\ s.escalation = <<Cardinality({i \in DOMAIN runs : EvaluateRun(runs[i]).escalated}), Len(runs)>>
  /\ s.confidence = <<SumScores(runs, DOMAIN runs), 2 * Len(runs)>>
  /\ s.failures = [f \in {EvaluateRun(runs[i]).failure : i \in DOMAIN runs} \ {NoFailure} |->
                     Cardinality({i \in DOMAIN runs : EvaluateRun(runs[i]).failure = f})]
  /\ s.trend = FailureTrend(runs, limit)
  /\ s.versions = VersionMetrics(runs)

\* summarize counts what Summed says.
LEMMA PartsOfSummary ==
  ASSUME NEW R, Recordings(R), NEW runs \in Seq(R), NEW limit
  PROVE  Summed(Summarize(runs, limit), runs, limit)
<1> DEFINE s == Summarize(runs, limit)
           is(i) == EvaluateRun(runs[i])
<1>1. DOMAIN runs = 1..Len(runs) /\ \A i \in DOMAIN runs : runs[i] \in R
  BY LenProperties
<1>2. \A i \in DOMAIN runs : is(i).success <=> is(i).failure = NoFailure
  BY <1>1, FailureOfRun
<1>3. {i \in DOMAIN runs : is(i).success} = {i \in DOMAIN runs : is(i).failure = NoFailure}
  BY <1>2, Zenon
<1>4. s.completion = <<Cardinality({i \in DOMAIN runs : is(i).success}), Len(runs)>>
  BY Zenon DEF Summarize, CountRuns, CountAt, Ratio
<1>5. /\ s.total = Len(runs)
      /\ s.prevention = <<Cardinality({i \in DOMAIN runs : runs[i].blocked > 0}),
                          Cardinality({i \in DOMAIN runs : runs[i].blocked > 0})>>
      /\ s.confidence = <<SumScores(runs, DOMAIN runs), 2 * Len(runs)>>
      /\ s.trend = FailureTrend(runs, limit)
      /\ s.versions = VersionMetrics(runs)
  BY DEF Summarize, Ratio
<1>6. /\ s.accuracy = <<Cardinality({i \in DOMAIN runs : is(i).correct}),
                        Cardinality({i \in DOMAIN runs : is(i).evaluated})>>
      /\ s.escalation = <<Cardinality({i \in DOMAIN runs : is(i).escalated}), Len(runs)>>
  BY Zenon DEF Summarize, CountRuns, CountAt, Ratio
<1>7. s.failures = [f \in {is(i).failure : i \in DOMAIN runs} \ {NoFailure} |->
                      Cardinality({i \in DOMAIN runs : is(i).failure = f})]
  BY Zenon DEF Summarize, CountRuns, CountAt
<1>8. QED
  BY <1>3, <1>4, <1>5, <1>6, <1>7, Zenon DEF Summed

\* The parts of a summary add up, for every sequence of runs.
THEOREM EverySummaryAddsUp ==
  ASSUME NEW R, Recordings(R), NEW runs \in Seq(R)
  PROVE  SummaryAddsUp(runs)
<1> SUFFICES ASSUME NEW s, s = Summarize(runs, Len(runs))
             PROVE  /\ SumFunction(s.failures) + s.completion[1] = s.total
                    /\ DOMAIN s.failures \subseteq DOMAIN s.trend
                    /\ \A f \in DOMAIN s.failures : s.trend[f] >= s.failures[f]
                    /\ SumFunction([v \in DOMAIN s.versions |-> s.versions[v].total]) = s.total
                    /\ SumFunction([v \in DOMAIN s.versions |-> s.versions[v].accuracy[2]]) = s.accuracy[2]
  BY Zenon DEF SummaryAddsUp
<1> DEFINE I == DOMAIN runs
           n == Len(runs)
           is == [i \in I |-> EvaluateRun(runs[i])]
           failure == [i \in I |-> is[i].failure]
           failures == {failure[i] : i \in I} \ {NoFailure}
           of == [f \in failures |-> {i \in I : failure[i] = f}]
           evaluated == {i \in I : is[i].evaluated}
           version == [i \in I |-> runs[i].version]
           versions == {version[i] : i \in I}
           group == [v \in versions |-> {i \in I : version[i] = v}]
           asked == [v \in versions |-> group[v] \intersect evaluated]
<1>1. n \in Nat /\ I = 1..n /\ \A i \in I : runs[i] \in R
  BY LenProperties
<1>2. /\ s.total = n
      /\ s.completion = <<Cardinality({i \in I : EvaluateRun(runs[i]).failure = NoFailure}), n>>
      /\ s.accuracy = <<Cardinality({i \in I : EvaluateRun(runs[i]).correct}),
                        Cardinality({i \in I : EvaluateRun(runs[i]).evaluated})>>
      /\ s.failures = [f \in {EvaluateRun(runs[i]).failure : i \in I} \ {NoFailure} |->
                         Cardinality({i \in I : EvaluateRun(runs[i]).failure = f})]
      /\ s.trend = FailureTrend(runs, n)
      /\ s.versions = VersionMetrics(runs)
  <2>1. Summed(s, runs, n)
    BY PartsOfSummary
  <2>2. QED
    BY <2>1, Zenon DEF Summed
<1>3. \A i \in I : is[i] = EvaluateRun(runs[i]) /\ failure[i] = EvaluateRun(runs[i]).failure /\ version[i] = runs[i].version
  OBVIOUS
<1> HIDE DEF is, failure, version
<1>4. IsFiniteSet(I) /\ Cardinality(I) = n
  BY <1>1, FS_Interval
<1>5. IsFiniteSet(failures) /\ IsFiniteSet(versions)
  <2>1. IsFiniteSet({failure[i] : i \in I}) /\ IsFiniteSet(versions)
    BY <1>4, FiniteImage
  <2>2. failures \in SUBSET {failure[i] : i \in I}
    OBVIOUS
  <2> HIDE DEF failures
  <2>3. QED
    BY <2>1, <2>2, FS_Subset
<1>6. \A T : T \in SUBSET I => IsFiniteSet(T) /\ Cardinality(T) \in Nat
  BY <1>4, FS_Subset, FS_CardinalityType
<1>7. /\ {EvaluateRun(runs[i]).failure : i \in I} = {failure[i] : i \in I}
      /\ \A f : {i \in I : EvaluateRun(runs[i]).failure = f} = {i \in I : failure[i] = f}
  BY <1>3
<1>8. s.failures = [f \in failures |-> Cardinality({i \in I : failure[i] = f})]
  <2>1. {EvaluateRun(runs[i]).failure : i \in I} \ {NoFailure} = failures
    BY <1>7
  <2>2. [f \in failures |-> Cardinality({i \in I : EvaluateRun(runs[i]).failure = f})]
          = [f \in failures |-> Cardinality({i \in I : failure[i] = f})]
    <3> HIDE DEF failures
    <3> QED
      BY <1>7
  <2>3. QED
    BY <1>2, <2>1, <2>2, Zenon
<1>9. s.completion[1] = Cardinality({i \in I : failure[i] = NoFailure})
  <2>1. Cardinality({i \in I : EvaluateRun(runs[i]).failure = NoFailure}) = Cardinality({i \in I : failure[i] = NoFailure})
    BY <1>7
  <2>2. QED
    BY <1>2, <2>1
<1>10. SumFunction(s.failures) + s.completion[1] = s.total
  <2> DEFINE part == Union(of, failures)
             rest == {i \in I : failure[i] = NoFailure}
  <2>1. \A f \in failures : of[f] = {i \in I : failure[i] = f} /\ of[f] \in SUBSET I
    OBVIOUS
  <2>2. part = {i \in I : failure[i] # NoFailure}
    <3>1. \A i : i \in part <=> \E f \in failures : i \in of[f]
      <4> HIDE DEF of, failures, I
      <4> QED
        BY DEF Union
    <3>2. \A i \in I : failure[i] # NoFailure => failure[i] \in failures
      OBVIOUS
    <3>3. NoFailure \notin failures
      OBVIOUS
    <3> HIDE DEF part, of, failures, I
    <3>4. QED
      BY <2>1, <3>1, <3>2, <3>3
  <2> HIDE DEF failures, of
  <2>3. Apart(of, failures)
    BY <1>6, <2>1 DEF Apart
  <2>4. DOMAIN s.failures = failures /\ \A f \in failures : s.failures[f] = Cardinality(of[f])
    BY <1>8, <2>1
  <2>5. SumFunction(s.failures) = Cardinality(part)
    BY <1>5, <2>3, <2>4, SumOfParts
  <2>6. part \in SUBSET I /\ rest \in SUBSET I /\ part \intersect rest = {} /\ part \union rest = I
    BY <2>2
  <2> HIDE DEF part, rest
  <2>7. Cardinality(part \union rest) = Cardinality(part) + Cardinality(rest)
    BY <1>4, <2>6, BothKinds
  <2>8. s.completion[1] = Cardinality(rest)
    BY <1>9 DEF rest
  <2>9. QED
    BY <1>2, <1>4, <2>5, <2>6, <2>7, <2>8
<1> DEFINE has(f) == {i \in I : failure[i] = f}
           in(i, f) == {j \in FailuresOf(runs[i]) : Recorded(runs[i])[j] = f}
           times(f) == [i \in I |-> Cardinality(in(i, f))]
<1>11. Newest(runs, n) = runs
  <2>1. Min({n, n}) = n
    <3> HIDE DEF n
    <3>1. n \in {n, n} /\ \A y \in {n, n} : n <= y
      BY <1>1
    <3>2. QED
      BY <3>1 DEF Min
  <2>2. QED
    BY <2>1, SubSeqFull DEF Newest
<1>12. s.trend = [f \in UNION {{Recorded(runs[i])[j] : j \in FailuresOf(runs[i])} : i \in I} |-> SumFunction(times(f))]
  BY <1>2, <1>11 DEF FailureTrend
<1>13. \A f \in failures : \A i \in has(f) : \E j \in FailuresOf(runs[i]) : j \in in(i, f)
  <2> SUFFICES ASSUME NEW f \in failures, NEW i \in I, failure[i] = f
               PROVE  \E j \in FailuresOf(runs[i]) : Recorded(runs[i])[j] = f
    OBVIOUS
  <2>1. EvaluateRun(runs[i]).failure = f /\ f # NoFailure
    BY <1>3
  <2>2. QED
    BY <1>1, <2>1, FailureOfRun
<1>14. DOMAIN s.failures \subseteq DOMAIN s.trend
  <2> SUFFICES ASSUME NEW f \in failures
               PROVE  f \in UNION {{Recorded(runs[i])[j] : j \in FailuresOf(runs[i])} : i \in I}
    <3>1. DOMAIN s.failures = failures
      BY <1>8
    <3>2. DOMAIN s.trend = UNION {{Recorded(runs[i])[j] : j \in FailuresOf(runs[i])} : i \in I}
      BY <1>12
    <3>3. QED
      BY <3>1, <3>2, Zenon
  <2>1. \E i \in I : i \in has(f)
    OBVIOUS
  <2>2. PICK i \in has(f) : \E j \in FailuresOf(runs[i]) : j \in in(i, f)
    BY <1>13, <2>1
  <2>3. i \in I /\ f \in {Recorded(runs[i])[j] : j \in FailuresOf(runs[i])}
    BY <2>2
  <2> DEFINE had == [k \in I |-> {Recorded(runs[k])[j] : j \in FailuresOf(runs[k])}]
             all == {{Recorded(runs[k])[j] : j \in FailuresOf(runs[k])} : k \in I}
  <2>4. \A k \in I : had[k] \in all
    OBVIOUS
  <2>5. f \in had[i]
    BY <2>3
  <2> HIDE DEF had, all
  <2>6. f \in UNION all
    BY <2>3, <2>4, <2>5
  <2>7. QED
    BY <2>6 DEF all
<1>15. ASSUME NEW f \in DOMAIN s.failures PROVE s.trend[f] >= s.failures[f]
  <2>1. f \in failures /\ s.failures[f] = Cardinality(has(f))
    BY <1>8
  <2>2. s.trend[f] = SumFunction(times(f))
    BY <1>12, <1>14
  <2>3. \A i \in I : IsFiniteSet(in(i, f)) /\ Cardinality(in(i, f)) \in Nat
    <3> TAKE i \in I
    <3>1. in(i, f) \in SUBSET (0..Len(runs[i].traces)) /\ Len(runs[i].traces) \in Nat
      BY <1>1, FailureOfRun DEF Recordings
    <3> HIDE DEF in
    <3> DEFINE m == Len(runs[i].traces)
    <3>2. m \in Nat
      BY <3>1
    <3> HIDE DEF m
    <3>3. IsFiniteSet(0..m)
      BY <3>2, FS_Interval
    <3>4. QED
      BY <3>1, <3>3, FS_Subset, FS_CardinalityType DEF m
  <2>4. \A i \in has(f) : Cardinality(in(i, f)) > 0
    <3> TAKE i \in has(f)
    <3>1. in(i, f) # {} /\ i \in I
      BY <1>13, <2>1
    <3> HIDE DEF in
    <3>2. QED
      BY <2>3, <3>1, FS_EmptySet
  <2>5. times(f) \in [I -> Nat] /\ has(f) \in SUBSET I
    BY <2>3
  <2>6. \A i \in has(f) : times(f)[i] > 0
    BY <2>4
  <2> DEFINE g == times(f)
             T == has(f)
  <2> HIDE DEF has, times, in, g, T
  <2>7. SumFunction(g) >= Cardinality(T)
    BY <1>4, <2>5, <2>6, SumAtLeast DEF g, T
  <2>8. QED
    BY <2>1, <2>2, <2>7 DEF g, T
<1>16. \A i \in I : is[i].evaluated <=> EvaluateRun(runs[i]).evaluated
  BY <1>3
<1>17. {i \in I : EvaluateRun(runs[i]).evaluated} = evaluated
  BY <1>16, Zenon
<1>18. /\ DOMAIN s.versions = versions
       /\ \A v \in versions : /\ s.versions[v].total = Cardinality({i \in I : runs[i].version = v})
                              /\ s.versions[v].accuracy[2]
                                   = Cardinality({i \in {k \in I : runs[k].version = v} : EvaluateRun(runs[i]).evaluated})
  <2>1. {runs[i].version : i \in I} = versions
    BY <1>3
  <2> DEFINE metrics(v) ==
               [total     |-> Cardinality({i \in I : runs[i].version = v}),
                accuracy  |-> <<Cardinality({i \in {k \in I : runs[k].version = v} : EvaluateRun(runs[i]).correct}),
                                Cardinality({i \in {k \in I : runs[k].version = v} : EvaluateRun(runs[i]).evaluated})>>,
                escalated |-> Cardinality({i \in {k \in I : runs[k].version = v} : EvaluateRun(runs[i]).escalated}),
                score     |-> SumScores(runs, {k \in I : runs[k].version = v})]
  <2>2. VersionMetrics(runs) = [v \in {runs[i].version : i \in I} |-> metrics(v)]
    BY Zenon DEF VersionMetrics, CountAt, Ratio
  <2>3. s.versions = [v \in versions |-> metrics(v)]
    BY <1>2, <2>1, <2>2, Zenon
  <2> DEFINE those(v) == Cardinality({i \in I : runs[i].version = v})
             some(v) == Cardinality({i \in {k \in I : runs[k].version = v} : EvaluateRun(runs[i]).evaluated})
  <2>4. \A v : metrics(v).total = those(v) /\ metrics(v).accuracy[2] = some(v)
    OBVIOUS
  <2> HIDE DEF versions, metrics, those, some
  <2>5. DOMAIN s.versions = versions /\ \A v \in versions : s.versions[v] = metrics(v)
    BY <2>3
  <2>6. DOMAIN s.versions = versions
        /\ \A v \in versions : s.versions[v].total = those(v) /\ s.versions[v].accuracy[2] = some(v)
    BY <2>4, <2>5
  <2>7. QED
    BY <2>6, Zenon DEF those, some
<1>19. \A v \in versions : /\ {i \in I : runs[i].version = v} = group[v]
                           /\ {i \in {k \in I : runs[k].version = v} : EvaluateRun(runs[i]).evaluated} = asked[v]
  <2> TAKE v \in versions
  <2>1. {i \in I : runs[i].version = v} = group[v]
    BY <1>3
  <2>2. {i \in {k \in I : runs[k].version = v} : EvaluateRun(runs[i]).evaluated}
          = {k \in I : runs[k].version = v} \intersect {i \in I : EvaluateRun(runs[i]).evaluated}
    BY Zenon
  <2>3. QED
    BY <1>17, <2>1, <2>2
<1> DEFINE total == [v \in versions |-> s.versions[v].total]
           whole == [v \in versions |-> s.versions[v].accuracy[2]]
<1>20. SumFunction(total) = n /\ SumFunction(whole) = Cardinality(evaluated)
  <2>1. \A v \in versions : total[v] = Cardinality(group[v]) /\ whole[v] = Cardinality(asked[v])
    BY <1>18, <1>19
  <2>2. \A v \in versions : group[v] = {i \in I : version[i] = v} /\ asked[v] = group[v] \intersect evaluated
    OBVIOUS
  <2>3. \A i \in I : version[i] \in versions
    OBVIOUS
  <2>4. evaluated \in SUBSET I
    OBVIOUS
  <2>5. DOMAIN total = versions /\ DOMAIN whole = versions
    OBVIOUS
  <2> HIDE DEF total, whole, versions, group, asked, evaluated, I
  <2>6. Apart(group, versions) /\ Apart(asked, versions)
    <3>1. \A v \in versions : group[v] \in SUBSET I /\ asked[v] \in SUBSET I
      BY <2>2
    <3>2. QED
      BY <1>6, <2>2, <3>1 DEF Apart
  <2>7. Union(group, versions) = I
    <3>1. \A i : i \in Union(group, versions) <=> \E v \in versions : i \in group[v]
      BY DEF Union
    <3>2. \A i : i \in Union(group, versions) <=> i \in I
      BY <2>2, <2>3, <3>1
    <3>3. QED
      BY <3>2
  <2>8. Union(asked, versions) = evaluated
    <3>1. \A i : i \in Union(asked, versions) <=> \E v \in versions : i \in asked[v]
      BY DEF Union
    <3>2. \A i : i \in Union(asked, versions) <=> i \in evaluated
      BY <2>2, <2>3, <2>4, <3>1
    <3>3. QED
      BY <3>2
  <2>9. QED
    BY <1>4, <1>5, <2>1, <2>5, <2>6, <2>7, <2>8, SumOfParts
<1>21. s.accuracy[2] = Cardinality(evaluated)
  <2>1. s.accuracy[2] = Cardinality({i \in I : EvaluateRun(runs[i]).evaluated})
    BY <1>2
  <2>2. QED
    BY <1>17, <2>1, Zenon
<1> DEFINE versioned == DOMAIN s.versions
<1>22. /\ SumFunction([v \in versioned |-> s.versions[v].total]) = s.total
       /\ SumFunction([v \in versioned |-> s.versions[v].accuracy[2]]) = s.accuracy[2]
  <2>1. versioned = versions
    BY <1>18
  <2> HIDE DEF versioned, versions, evaluated
  <2>2. QED
    BY <1>2, <1>20, <1>21, <2>1
<1>23. QED
  BY <1>10, <1>14, <1>15, <1>22

\* A metric of a summary is a pair of counts.
LEMMA MetricsAreCounts ==
  ASSUME NEW R, Recordings(R), NEW runs \in Seq(R), NEW limit, NEW m \in Metrics
  PROVE  Summarize(runs, limit)[m][1] \in Nat /\ Summarize(runs, limit)[m][2] \in Nat
<1> DEFINE I == DOMAIN runs
           s == Summarize(runs, limit)
           scores == [i \in I |-> EvaluateRun(runs[i]).score]
<1>1. Summed(s, runs, limit)
  BY PartsOfSummary
<1>2. Len(runs) \in Nat /\ I = 1..Len(runs)
  BY LenProperties
<1>3. IsFiniteSet(I)
  BY <1>2, FS_Interval
<1>4. \A T : T \in SUBSET I => Cardinality(T) \in Nat
  BY <1>3, FS_Subset, FS_CardinalityType
<1>5. scores \in [I -> Nat]
  BY DEF EvaluateRun, Score
<1>6. SumScores(runs, I) = SumFunction(scores)
  BY DEF SumScores
<1>7. SumScores(runs, I) \in Nat
  <2> HIDE DEF scores, I
  <2> QED
    BY <1>3, <1>5, <1>6, SumIsCount
<1>8. /\ Cardinality({i \in I : EvaluateRun(runs[i]).failure = NoFailure}) \in Nat
      /\ Cardinality({i \in I : EvaluateRun(runs[i]).correct}) \in Nat
      /\ Cardinality({i \in I : EvaluateRun(runs[i]).evaluated}) \in Nat
      /\ Cardinality({i \in I : EvaluateRun(runs[i]).escalated}) \in Nat
      /\ Cardinality({i \in I : runs[i].blocked > 0}) \in Nat
  <2>1. /\ {i \in I : EvaluateRun(runs[i]).failure = NoFailure} \in SUBSET I
        /\ {i \in I : EvaluateRun(runs[i]).correct} \in SUBSET I
        /\ {i \in I : EvaluateRun(runs[i]).evaluated} \in SUBSET I
        /\ {i \in I : EvaluateRun(runs[i]).escalated} \in SUBSET I
        /\ {i \in I : runs[i].blocked > 0} \in SUBSET I
    BY Zenon
  <2> HIDE DEF I
  <2>2. QED
    BY <1>4, <2>1, Zenon
<1> DEFINE n == Len(runs)
           score == SumScores(runs, I)
           c(k) == CASE k = 1 -> Cardinality({i \in I : EvaluateRun(runs[i]).correct})
                     [] k = 2 -> Cardinality({i \in I : EvaluateRun(runs[i]).evaluated})
                     [] k = 3 -> Cardinality({i \in I : runs[i].blocked > 0})
                     [] k = 4 -> Cardinality({i \in I : EvaluateRun(runs[i]).failure = NoFailure})
                     [] OTHER -> Cardinality({i \in I : EvaluateRun(runs[i]).escalated})
<1>9. /\ s.accuracy = <<c(1), c(2)>> /\ s.prevention = <<c(3), c(3)>> /\ s.completion = <<c(4), n>>
      /\ s.escalation = <<c(5), n>> /\ s.confidence = <<score, 2 * n>>
  BY <1>1 DEF Summed
<1>10. \A k \in 1..5 : c(k) \in Nat
  BY <1>8
<1>11. n \in Nat /\ score \in Nat
  BY <1>2, <1>7
<1> HIDE DEF c, n, score, s
<1>12. s[m][1] \in Nat /\ s[m][2] \in Nat
  BY <1>9, <1>10, <1>11 DEF Metrics
<1>13. QED
  BY <1>12 DEF s

\* Which runs a comparison looks at: the latest, and those just before them.
Compared(runs, previous, current, early, late) ==
  /\ Len(early) = previous /\ Len(late) = current
  /\ SubSeq(runs, current + 1, Min({current + previous, Len(runs)})) = early /\ Newest(runs, current) = late
  /\ Regression(runs, previous, current) = CompareRegression(Summarize(early, 10), Summarize(late, 10))

\* A comparison of two stretches reads the summaries of these two.
LEMMA RegressionParts ==
  ASSUME NEW R, NEW runs \in Seq(R), NEW previous \in Nat, NEW current \in Nat, current + previous <= Len(runs)
  PROVE  /\ SubSeq(runs, current + 1, current + previous) \in Seq(R) /\ SubSeq(runs, 1, current) \in Seq(R)
         /\ Compared(runs, previous, current, SubSeq(runs, current + 1, current + previous), SubSeq(runs, 1, current))
<1>1. PICK n : n = Len(runs)
  OBVIOUS
<1>2. PICK both : both = previous + current
  OBVIOUS
<1>3. PICK recent : recent = SubSeq(runs, 1, both)
  OBVIOUS
<1>4. n \in Nat /\ both \in Nat /\ both <= n /\ current <= both /\ current <= n /\ current + previous = both
  BY <1>1, <1>2, LenProperties
<1>5. recent \in Seq(R) /\ Len(recent) = both
  BY <1>1, <1>3, <1>4, StretchOfStretch
<1>6. /\ SubSeq(recent, current + 1, both) = SubSeq(runs, current + 1, both)
      /\ SubSeq(recent, 1, current) = SubSeq(runs, 1, current)
  BY <1>1, <1>3, <1>4, StretchOfStretch
<1>7. Min({both, n}) = both /\ Min({current, both}) = current /\ Min({both, both}) = both /\ Min({current, n}) = current
  BY <1>4, SmallerOfTwo
<1>8. Newest(runs, both) = recent /\ Newest(recent, current) = SubSeq(recent, 1, current)
      /\ Newest(runs, current) = SubSeq(runs, 1, current)
  BY <1>1, <1>3, <1>5, <1>7, Zenon DEF Newest
<1>9. Regression(runs, previous, current)
        = CompareRegression(Summarize(SubSeq(recent, current + 1, Min({both, both})), 10),
                            Summarize(Newest(recent, current), 10))
  <2>1. previous + current = both /\ current + previous = both
    BY <1>2, <1>4
  <2>2. QED
    BY <1>5, <1>8, <2>1, Zenon DEF Regression
<1>10. Regression(runs, previous, current)
        = CompareRegression(Summarize(SubSeq(runs, current + 1, both), 10),
                            Summarize(SubSeq(runs, 1, current), 10))
  BY <1>6, <1>7, <1>8, <1>9, Zenon
<1>11. SubSeq(runs, current + 1, both) \in Seq(R) /\ Len(SubSeq(runs, current + 1, both)) = previous
  <2>1. current + 1 \in Nat /\ current + 1 >= 1
    OBVIOUS
  <2>2. /\ SubSeq(runs, current + 1, both) \in Seq(R)
        /\ Len(SubSeq(runs, current + 1, both)) = IF current + 1 <= both THEN both - (current + 1) + 1 ELSE 0
    BY <1>1, <1>4, <2>1, Stretch
  <2>3. (IF current + 1 <= both THEN both - (current + 1) + 1 ELSE 0) = previous
    BY <1>2
  <2>4. QED
    BY <2>2, <2>3
<1>12. SubSeq(runs, 1, current) \in Seq(R) /\ Len(SubSeq(runs, 1, current)) = current
  BY <1>1, <1>4, StretchOfStretch
<1>13. Compared(runs, previous, current, SubSeq(runs, current + 1, both), SubSeq(runs, 1, current))
  <2>1. current + previous = both
    BY <1>4
  <2>2. QED
    BY <1>1, <1>7, <1>8, <1>10, <1>11, <1>12, <2>1, Zenon DEF Compared
<1>14. QED
  BY <1>4, <1>11, <1>12, <1>13

\* No comparison contradicts itself, whichever runs are compared.
LEMMA VerdictsAreOne ==
  ASSUME NEW p, NEW c, \A m \in Metrics : /\ p[m][1] \in Int /\ p[m][2] \in Int
                                          /\ c[m][1] \in Int /\ c[m][2] \in Int
  PROVE  CompareRegression(p, c).improved \intersect CompareRegression(p, c).regressed = {}
<1>1. ASSUME NEW m \in Metrics, Less(p[m], c[m]), Less(c[m], p[m]) PROVE FALSE
  <2> DEFINE x == p[m][1] * c[m][2]
             y == c[m][1] * p[m][2]
  <2>1. x \in Int /\ y \in Int
    OBVIOUS
  <2>2. x < y /\ y < x
    BY <1>1 DEF Less
  <2> HIDE DEF x, y
  <2>3. QED
    BY <2>1, <2>2
<1>2. /\ CompareRegression(p, c).improved =
           {m \in Metrics : IF m = "escalation" THEN Less(c[m], p[m]) ELSE Less(p[m], c[m])}
      /\ CompareRegression(p, c).regressed =
           {m \in Metrics : IF m = "escalation" THEN Less(p[m], c[m]) ELSE Less(c[m], p[m])}
  BY DEF CompareRegression
<1>3. QED
  BY <1>1, <1>2

\* The comparison of any two groups of runs gives one verdict, and the other way round the opposite one.
THEOREM EveryRegressionTurnsRound ==
  ASSUME NEW R, Recordings(R), NEW runs \in Seq(R), NEW previous \in Nat, NEW current \in Nat
  PROVE  RegressionTurnsRound(runs, previous, current)
<1> DEFINE both == previous + current
           recent == Newest(runs, both)
           p == Summarize(SubSeq(recent, current + 1, Min({current + previous, Len(recent)})), 10)
           c == Summarize(Newest(recent, current), 10)
           forth == Regression(runs, previous, current)
           turned == SubSeq(runs, current + 1, Min({current + previous, Len(runs)})) \o Newest(runs, current)
           back == Regression(turned, current, previous)
<1>1. forth = CompareRegression(p, c)
  BY DEF Regression
<1>2. forth.improved \intersect forth.regressed = {}
  <2>1. recent \in Seq(R)
    <3>1. both \in Nat
      OBVIOUS
    <3> HIDE DEF both
    <3>2. QED
      BY <3>1, NewestRuns
  <2> HIDE DEF recent
  <2>2. SubSeq(recent, current + 1, Min({current + previous, Len(recent)})) \in Seq(R)
    <3>1. PICK from \in Nat : from = current + 1 /\ from >= 1
      OBVIOUS
    <3>2. PICK to \in Nat : to = current + previous
      OBVIOUS
    <3>3. SubSeq(recent, from, Min({to, Len(recent)})) \in Seq(R)
      BY <2>1, <3>1, PartsOfRuns
    <3>4. QED
      BY <3>1, <3>2, <3>3, Zenon
  <2>3. Newest(recent, current) \in Seq(R)
    BY <2>1, NewestRuns
  <2>4. \A m \in Metrics : p[m][1] \in Nat /\ p[m][2] \in Nat /\ c[m][1] \in Nat /\ c[m][2] \in Nat
    BY <2>2, <2>3, MetricsAreCounts
  <2> HIDE DEF p, c, forth
  <2>5. QED
    BY <1>1, <2>4, VerdictsAreOne
<1>3. ASSUME current + previous <= Len(runs) PROVE back.improved = forth.regressed
  <2>1. PICK early : early = SubSeq(runs, current + 1, current + previous)
    OBVIOUS
  <2>2. PICK late : late = SubSeq(runs, 1, current)
    OBVIOUS
  <2> HIDE DEF forth, back, turned, p, c, recent
  <2>3. early \in Seq(R) /\ late \in Seq(R) /\ Compared(runs, previous, current, early, late)
    <3>1. /\ SubSeq(runs, current + 1, current + previous) \in Seq(R) /\ SubSeq(runs, 1, current) \in Seq(R)
          /\ Compared(runs, previous, current, SubSeq(runs, current + 1, current + previous), SubSeq(runs, 1, current))
      BY <1>3, RegressionParts
    <3>2. QED
      BY <2>1, <2>2, <3>1, Zenon
  <2>4. /\ turned = early \o late /\ Len(early) = previous /\ Len(late) = current
        /\ forth = CompareRegression(Summarize(early, 10), Summarize(late, 10))
    BY <2>3, Zenon DEF Compared, turned, forth
  <2>5. turned \in Seq(R) /\ PutTogether(turned, early, late)
    <3>1. early \o late \in Seq(R) /\ PutTogether(early \o late, early, late)
      BY <2>3, HalvesOfJoined
    <3>2. QED
      BY <2>4, <3>1, Zenon
  <2>6. /\ Len(turned) = previous + current
        /\ SubSeq(turned, 1, previous) = early
        /\ SubSeq(turned, previous + 1, previous + current) = late
    BY <2>4, <2>5, Zenon DEF PutTogether
  <2>7. previous + current <= Len(turned)
    BY <2>6
  <2>8. Compared(turned, current, previous, SubSeq(turned, previous + 1, previous + current), SubSeq(turned, 1, previous))
    BY <2>5, <2>7, RegressionParts
  <2>9. back = CompareRegression(Summarize(late, 10), Summarize(early, 10))
    BY <2>6, <2>8, Zenon DEF Compared, back
  <2>10. QED
    BY <2>4, <2>9 DEF CompareRegression
<1>4. QED
  BY <1>2, <1>3 DEF RegressionTurnsRound

-----------------------------------------------------------------------------
(* Together, in the instance.                                                *)

\* The documents the copilot looks at are there, and none waits for its first job.
CopilotInv ==
  about = "copilot" =>
    \/ input = << >>
    \/ DOMAIN input.doc = Doc /\ \A d \in Doc : input.doc[d].status # "uploaded"

\* A behaviour starts before anything of the copilot is written.
LEMMA InitCopilot == Init => CopilotInv
BY DEF Init, About, CopilotInv

\* The files that are stored and the caller who signs in keep the invariant.
LEMMA NextCopilot == CopilotInv /\ [Next]_<<about, input, evaluation, gates>> => CopilotInv'
<1> SUFFICES ASSUME CopilotInv, [Next]_<<about, input, evaluation, gates>>, about' = "copilot" PROVE CopilotInv'
  BY DEF CopilotInv
<1>1. about = "copilot"
  BY DEF Next, Look, Evaluate, Enter
<1>2. CASE StoreFiles
  <2>1. PICK f \in RestingFiles, g \in {NoFile, File("approved", "here", bob, "clean"),
                                       File("needs_review", "elsewhere", bob, "errors")}, ready \in BOOLEAN :
          input' = [doc |-> [d \in Doc |-> IF d = d1 THEN f ELSE g], ready |-> ready]
    BY <1>2 DEF StoreFiles
  <2>2. \A status, home, user, extraction : File(status, home, user, extraction).status = status
    BY DEF File
  <2>3. f.status # "uploaded"
    BY <2>2 DEF RestingFiles
  <2>4. g.status # "uploaded"
    BY <2>2 DEF NoFile, Absent
  <2>5. input'.doc = [d \in Doc |-> IF d = d1 THEN f ELSE g]
    BY <2>1
  <2>6. QED
    BY <2>3, <2>4, <2>5 DEF CopilotInv
<1>3. CASE SignIn
  <2>1. input # << >> /\ input'.doc = input.doc
    BY <1>3 DEF SignIn
  <2>2. QED
    BY <1>1, <2>1 DEF CopilotInv
<1>4. CASE UNCHANGED input
  BY <1>1, <1>4 DEF CopilotInv
<1>5. QED
  BY <1>1, <1>2, <1>3, <1>4 DEF Next, Look, Evaluate, Enter, WriteFirst, WriteOther, WriteItems,
     WriteBatches, EnterAmounts, EnterDetails, PrintPages, Answer, RecordRuns, RecordJob, RecordAgentRun,
     ChooseCases, ReadCase, RecordReport, NameCredentials, ChooseBackends

\* What starts, starts as its settings promise; a request is let in as the caller it
\* comes from; and the copilot, the policy, the planner and the services behind their
\* tools agree: on what the instance looks at, whatever its documents and clients are.
THEOREM GatesHold == Spec => []GatesAgree
<1>1. Init => GateInv /\ CopilotInv
  BY GateStart, InitCopilot DEF Init
<1>2. GateInv /\ CopilotInv /\ [Next]_<<about, input, evaluation, gates>> => (GateInv /\ CopilotInv)'
  <2>1. [Next]_<<about, input, evaluation, gates>> => [Gates!Next]_gates
    BY DEF Next, Look, Evaluate, Enter
  <2>2. QED
    BY <2>1, GateStep, NextCopilot
<1>3. GateInv /\ CopilotInv => GatesAgree
  <2> SUFFICES ASSUME GateInv, CopilotInv PROVE GatesAgree
    OBVIOUS
  <2>1. /\ Start!SettingsAreLayered(input.process, input.file)
        /\ Start!StartedAppsAreSound(Start!Load(input.process, input.file))
    BY EverySettingIsLayered, EveryStartIsSound
  <2>2. Gates!CallersAreKnown
    BY GateSays
  <2>3. \A request \in Requests : \A caller :
          /\ WordsMoveNothing(request, caller, input)
          /\ WorkspaceIsKept(request, caller, input)
          /\ TableMatchesServices(request, caller, input)
          /\ RunsTellWhatHappened(request, caller, input)
    BY EveryReplyIsPermitted, EveryRunTells
  <2>4. ASSUME about = "copilot", "caller" \in DOMAIN input
        PROVE  /\ ScenariosAreMet(d1, input.caller, input)
               /\ \A request \in Requests :
                    input.caller.role # "operator" => AdviceCanBeFollowed(request, input.caller, input)
    <3>1. input # << >>
      BY <2>4
    <3>2. DOMAIN input.doc = Doc /\ \A d \in Doc : input.doc[d].status # "uploaded"
      BY <2>4, <3>1 DEF CopilotInv
    <3>3. d1 \in DOMAIN input.doc /\ d1 # NoDocument /\ NoDocument \notin DOMAIN input.doc
      BY <3>2, DocumentAssumption
    <3>4. QED
      BY <3>2, <3>3, EveryScenarioIsMet, AdviceIsFollowed
  <2>5. \A item \in WorkItems : \A topics, caller :
          LET inputs == PlanningInput(item, topics, input)
          IN /\ PolicyMatchesTools(item, caller)
             /\ PlansAskFirst(item, inputs, caller, input)
             /\ NoEvidenceNoAction(item, inputs, caller)
             /\ PlanContainsItsSteps(item, inputs, caller)
             /\ PlanRunsTell(item, inputs, caller)
    BY PolicyIsTheTable, EveryPlanAsksFirst, EveryPlanIsContained, EveryPlanRunTells
  <2>6. QED
    BY <2>1, <2>2, <2>3, <2>4, <2>5, Zenon DEF GatesAgree
<1>4. QED
  BY <1>1, <1>2, <1>3, PTL DEF Spec

\* The validator reports finitely many issues, and only of critical fields that they are missing.
LEMMA FewIssuesOfInvoice ==
  ASSUME NEW invoice, NEW others, IsFiniteSet(DOMAIN invoice.line_items)
  PROVE  /\ IsFiniteSet(ValidateDocumentInvoice(invoice, others))
         /\ \A i \in ValidateDocumentInvoice(invoice, others) :
              i.code = "missing_critical_field" => i.field \in CriticalFields
<1> DEFINE lacking == {c \in CriticalFields : invoice[c] = None}
           lack == [c \in lacking |-> Error("missing_critical_field", c)]
           wrong == {j \in DOMAIN invoice.line_items :
                       LET item == invoice.line_items[j]
                       IN /\ None \notin {item.quantity, item.unit_price, item.amount}
                          /\ Distance(item.quantity * item.unit_price, Whole * item.amount) > Whole * Cent}
           mistake == [k \in wrong |-> [Error("line_item_amount_mismatch", "line_items") EXCEPT !.at = k]]
           duplicates == IF /\ None \notin {invoice.vendor_name, invoice.invoice_number}
                            /\ \E other \in others : Identity(other) = Identity(invoice)
                         THEN {Error("duplicate_invoice", "invoice_number")} ELSE {}
           totals == IF invoice.total # None /\ invoice.total <= 0 THEN {Error("invalid_total", "total")} ELSE {}
           sums == IF /\ None \notin {invoice.subtotal, invoice.tax, invoice.total}
                      /\ Distance(invoice.subtotal + invoice.tax, invoice.total) > Cent
                   THEN {Error("total_mismatch", "total")} ELSE {}
<1>1. /\ MissingFields(invoice) = {lack[c] : c \in lacking}
      /\ ItemIssues(invoice) = {mistake[k] : k \in wrong}
      /\ TotalIssues(invoice) = totals \union sums
      /\ ValidateDocumentInvoice(invoice, others) =
           MissingFields(invoice) \union TotalIssues(invoice) \union DateIssues(invoice)
           \union CurrencyIssues(invoice) \union ItemIssues(invoice) \union duplicates
  <2>1. MissingFields(invoice) = {lack[c] : c \in lacking}
    BY DEF MissingFields
  <2>2. ItemIssues(invoice) = {mistake[k] : k \in wrong}
    BY DEF ItemIssues
  <2>3. TotalIssues(invoice) = totals \union sums
    BY DEF TotalIssues
  <2>4. ValidateDocumentInvoice(invoice, others) = ValidateInvoice(invoice) \union duplicates
    BY DEF ValidateDocumentInvoice
  <2>5. QED
    BY <2>1, <2>2, <2>3, <2>4 DEF ValidateInvoice
<1>2. IsFiniteSet(lacking) /\ IsFiniteSet(wrong)
  <2>1. IsFiniteSet(CriticalFields)
    <3>1. IsFiniteSet({"vendor_name"} \union {"invoice_number"} \union {"invoice_date"} \union {"total"})
      BY FS_Singleton, FS_Union
    <3>2. CriticalFields = {"vendor_name"} \union {"invoice_number"} \union {"invoice_date"} \union {"total"}
      BY DEF CriticalFields
    <3>3. QED
      BY <3>1, <3>2
  <2>2. lacking \in SUBSET CriticalFields /\ wrong \in SUBSET DOMAIN invoice.line_items
    OBVIOUS
  <2> HIDE DEF lacking, wrong
  <2>3. QED
    BY <2>1, <2>2, FS_Subset
<1>3. ASSUME NEW x, NEW S, S = {x} \/ S = {} PROVE IsFiniteSet(S)
  <2>1. CASE S = {x}
    BY <2>1, FS_Singleton
  <2>2. CASE S = {}
    BY <2>2, FS_EmptySet
  <2>3. QED
    BY <1>3, <2>1, <2>2
<1>4. /\ IsFiniteSet(totals) /\ IsFiniteSet(sums) /\ IsFiniteSet(duplicates)
      /\ IsFiniteSet(DateIssues(invoice)) /\ IsFiniteSet(CurrencyIssues(invoice))
  <2>1. /\ totals = {Error("invalid_total", "total")} \/ totals = {}
        /\ sums = {Error("total_mismatch", "total")} \/ sums = {}
        /\ duplicates = {Error("duplicate_invoice", "invoice_number")} \/ duplicates = {}
    OBVIOUS
  <2>2. /\ DateIssues(invoice) = {Error("invalid_date_order", "due_date")} \/ DateIssues(invoice) = {}
        /\ CurrencyIssues(invoice) = {Error("unsupported_currency", "currency")} \/ CurrencyIssues(invoice) = {}
    BY DEF DateIssues, CurrencyIssues
  <2> HIDE DEF totals, sums, duplicates
  <2>3. QED
    BY <1>3, <2>1, <2>2
<1>5. \A i \in ValidateDocumentInvoice(invoice, others) :
        i.code = "missing_critical_field" => i.field \in CriticalFields
  <2>1. /\ \A i \in totals \union sums \union duplicates : i.code # "missing_critical_field"
        /\ \A i \in DateIssues(invoice) \union CurrencyIssues(invoice) : i.code # "missing_critical_field"
    BY DEF Error, DateIssues, CurrencyIssues
  <2>2. \A i \in ItemIssues(invoice) : i.code # "missing_critical_field"
    BY <1>1 DEF Error
  <2>3. \A i \in MissingFields(invoice) : i.field \in CriticalFields
    BY DEF MissingFields, Error
  <2> HIDE DEF totals, sums, duplicates
  <2>4. QED
    BY <1>1, <2>1, <2>2, <2>3
<1> HIDE DEF lacking, wrong, lack, mistake, totals, sums, duplicates
<1>6. IsFiniteSet(MissingFields(invoice)) /\ IsFiniteSet(ItemIssues(invoice))
  BY <1>1, <1>2, FiniteImage
<1>7. IsFiniteSet(ValidateDocumentInvoice(invoice, others))
  <2>1. ASSUME NEW A, NEW B, IsFiniteSet(A), IsFiniteSet(B) PROVE IsFiniteSet(A \union B)
    BY <2>1, FS_Union
  <2>2. IsFiniteSet(TotalIssues(invoice))
    BY <1>1, <1>4, <2>1
  <2>3. IsFiniteSet(MissingFields(invoice) \union TotalIssues(invoice) \union DateIssues(invoice))
    BY <1>4, <1>6, <2>1, <2>2
  <2>4. IsFiniteSet(MissingFields(invoice) \union TotalIssues(invoice) \union DateIssues(invoice)
                    \union CurrencyIssues(invoice) \union ItemIssues(invoice))
    BY <1>4, <1>6, <2>1, <2>3
  <2>5. QED
    BY <1>1, <1>4, <2>1, <2>4
<1>8. QED
  BY <1>5, <1>7

\* A row as a document of a snapshot has it.
RowOfDocument(row) ==
  /\ row.status \in Status
  /\ row.date \in Int \union {None}
  /\ row.report = NoReport \/ IsFiniteSet(row.report)
  /\ row.report = NoReport \/
       \A i \in row.report : i.code = "missing_critical_field" => i.field \in CriticalFields

\* What is read of an invoice makes such a row.
LEMMA ReadRows ==
  ASSUME NEW status \in Status, NEW user, NEW invoice, NEW others,
         invoice.invoice_date \in Int \union {None}, IsFiniteSet(DOMAIN invoice.line_items)
  PROVE  RowOfDocument(Read(status, user, invoice, others))
<1>1. /\ Read(status, user, invoice, others).status = status
      /\ Read(status, user, invoice, others).date = invoice.invoice_date
      /\ Read(status, user, invoice, others).report = ValidateDocumentInvoice(invoice, others)
  BY DEF Read, Row
<1>2. QED
  BY <1>1, FewIssuesOfInvoice DEF RowOfDocument

\* The rows of the instance are such rows.
LEMMA RowsOfInstance == \A row \in FirstRows \union OtherRows : RowOfDocument(row)
<1> DEFINE sound(invoice) == invoice.invoice_date \in Int \union {None} /\ IsFiniteSet(DOMAIN invoice.line_items)
           undated == [Clean EXCEPT !.invoice_date = None]
<1>1. sound(Clean) /\ sound(Late) /\ sound(Alien) /\ sound(undated)
  <2>1. DOMAIN << >> = {} /\ IsFiniteSet({})
    BY FS_EmptySet
  <2>2. IsFiniteSet({1}) /\ \A item : DOMAIN <<item>> = {1}
    <3>1. IsFiniteSet({1})
      BY FS_Singleton
    <3>2. \A item : DOMAIN <<item>> = {1}
      OBVIOUS
    <3>3. QED
      BY <3>1, <3>2
  <2>3. /\ Clean.line_items = << >> /\ Late.line_items = << >> /\ undated.line_items = << >>
        /\ \E item : Alien.line_items = <<item>>
        /\ Clean.invoice_date = 1 /\ Late.invoice_date = 2 /\ Alien.invoice_date = 1 /\ undated.invoice_date = None
    BY DEF Clean, Late, Alien, NoInvoice
  <2> HIDE DEF undated
  <2>4. QED
    BY <2>1, <2>2, <2>3
<1> HIDE DEF undated, sound
<1>2. \A status \in Status : \A user, invoice, others :
        sound(invoice) => RowOfDocument(Read(status, user, invoice, others))
  BY ReadRows DEF sound
<1>3. \A status \in Unread : \A user : RowOfDocument(Row(status, user, NoReport, None))
  BY DEF RowOfDocument, Row, Unread, Status
<1>4. "needs_review" \in Status /\ "approved" \in Status /\ "exported" \in Status /\ "queued" \in Unread
  BY DEF Status, Unread
<1>5. ASSUME NEW row \in FirstRows PROVE RowOfDocument(row)
  BY <1>1, <1>2, <1>3, <1>4 DEF FirstRows, undated
<1>6. ASSUME NEW row \in OtherRows PROVE RowOfDocument(row)
  BY <1>1, <1>2, <1>3, <1>4 DEF OtherRows
<1>7. QED
  BY <1>5, <1>6

\* The work items of the instance are updated one after the other.
LEMMA ItemsOfInstance ==
  ASSUME NEW items \in SomeItems \union {{}}
  PROVE  /\ IsFiniteSet(items)
         /\ \A i, j \in items : i.updated \in Int /\ i.id \in Int /\ (i # j => i.updated # j.updated)
<1>1. CASE items = {}
  BY <1>1, FS_EmptySet
<1>2. CASE \E a : items = {a} /\ a.id \in Int /\ a.updated \in Int
  BY <1>2, FS_Singleton
<1>3. ASSUME NEW a, NEW b, items = {a, b}, a.id \in Int, b.id \in Int,
             a.updated \in Int, b.updated \in Int, a.updated # b.updated
      PROVE  /\ IsFiniteSet(items)
             /\ \A i, j \in items : i.updated \in Int /\ i.id \in Int /\ (i # j => i.updated # j.updated)
  <2>1. IsFiniteSet({a} \union {b}) /\ {a, b} = {a} \union {b}
    BY FS_Singleton, FS_Union
  <2>2. QED
    BY <1>3, <2>1
<1>4. CASE items \in SomeItems
  <2> DEFINE states == {<<"new", FALSE>>, <<"awaiting_human", FALSE>>, <<"awaiting_human", TRUE>>, <<"resolved", TRUE>>}
             only(c, s) == Item(1, {d1}, 1, c, s[1], s[2])
             older(u) == Item(1, {d1, d2}, u, "requested", "new", FALSE)
             newer(u, c) == Item(2, {d1}, 3 - u, c, "failed", FALSE)
             ones == {{only(c, s)} : c \in Correction, s \in states}
             twos == {{older(u), newer(u, c)} : u \in {1, 2}, c \in {"none", "submitted"}}
  <2>1. SomeItems = ones \union twos
    BY DEF SomeItems
  <2>2. \A c, s : only(c, s).id = 1 /\ only(c, s).updated = 1
    BY DEF Item
  <2>3. \A u, c : /\ older(u).id = 1 /\ older(u).updated = u
                 /\ newer(u, c).id = 2 /\ newer(u, c).updated = 3 - u
    BY DEF Item
  <2> HIDE DEF states, only, older, newer
  <2>4. ASSUME items \in ones PROVE \E c, s : items = {only(c, s)}
    BY <2>4
  <2>5. ASSUME items \in twos PROVE \E u \in {1, 2} : \E c : items = {older(u), newer(u, c)}
    BY <2>5
  <2> HIDE DEF ones, twos
  <2>6. CASE items \in ones
    <3>1. PICK c, s : items = {only(c, s)}
      BY <2>4, <2>6
    <3>2. QED
      BY <1>2, <2>2, <3>1
  <2>7. CASE items \in twos
    <3>1. PICK u \in {1, 2} : \E c : items = {older(u), newer(u, c)}
      BY <2>5, <2>7
    <3>2. PICK c : items = {older(u), newer(u, c)}
      BY <3>1
    <3>3. u \in Int /\ 3 - u \in Int /\ u # 3 - u
      OBVIOUS
    <3>4. PICK a, b : a = older(u) /\ b = newer(u, c)
      OBVIOUS
    <3>5. /\ items = {a, b} /\ a.id \in Int /\ b.id \in Int
          /\ a.updated \in Int /\ b.updated \in Int /\ a.updated # b.updated
      BY <2>3, <3>2, <3>3, <3>4
    <3>6. QED
      BY <1>3, <3>5
  <2>8. QED
    BY <1>4, <2>1, <2>6, <2>7
<1>5. QED
  BY <1>1, <1>4

\* What the instance looks at is a snapshot, a ledger, or a sequence of recorded runs.
SnapshotInv ==
  about = "snapshot" =>
    /\ DOMAIN input = {"doc", "items", "batches"}
    /\ input.doc \in [Doc -> {NoRow} \union FirstRows \union OtherRows]
    /\ \A d \in Doc : d \in {d1, d2} \/ input.doc[d] = NoRow
    /\ input.items \in SomeItems \union {{}}

LedgerInv == about = "jobs" => DOMAIN input = {"jobs", "runs"} /\ Ledger(input)

RecordingsInv == about = "runs" => input \in Seq(SomeAgentRuns)

\* The snapshots of the instance are snapshots.
LEMMA SnapshotOfInstance == SnapshotInv /\ about = "snapshot" => Snapshot(input)
<1> SUFFICES ASSUME SnapshotInv, about = "snapshot" PROVE Snapshot(input)
  OBVIOUS
<1>1. /\ input.doc \in [Doc -> {NoRow} \union FirstRows \union OtherRows]
      /\ \A d \in Doc : d \in {d1, d2} \/ input.doc[d] = NoRow
      /\ input.items \in SomeItems \union {{}}
  BY DEF SnapshotInv
<1>2. NoRow.status = Absent
  BY DEF NoRow, Row
<1>3. \A d \in Rows(input) : d \in {d1, d2} /\ input.doc[d] \in FirstRows \union OtherRows
  BY <1>1, <1>2 DEF Rows
<1>4. IsFiniteSet(Rows(input))
  <2>1. IsFiniteSet({d1} \union {d2}) /\ Rows(input) \in SUBSET ({d1} \union {d2})
    BY <1>3, FS_Singleton, FS_Union
  <2>2. QED
    BY <2>1, FS_Subset
<1>5. \A d \in Rows(input) : RowOfDocument(input.doc[d])
  BY <1>3, RowsOfInstance
<1>6. /\ IsFiniteSet(input.items)
      /\ \A i, j \in input.items : i.updated \in Int /\ i.id \in Int /\ (i # j => i.updated # j.updated)
  BY <1>1, ItemsOfInstance
<1>7. \A d \in Rows(input) : \A i \in Issues(input, d) : i.code = "missing_critical_field" => i.field \in CriticalFields
  BY <1>5 DEF Issues, RowOfDocument
<1>8. QED
  BY <1>4, <1>5, <1>6, <1>7 DEF Snapshot, RowOfDocument, Linked

\* The recorded runs of the instance have traces.
LEMMA RunsOfInstance == Recordings(SomeAgentRuns)
<1> DEFINE ends == {<<NoTool, NoFailure>>, <<NoTool, "insufficient_evidence">>, <<"list_documents", NoFailure>>,
                    <<"get_document_detail", NoFailure>>, <<"get_document_detail", "insufficient_evidence">>}
           risks == {<<0, "high">>, <<1, "low">>}
           trace(end) == [risk |-> "read_only", failure |-> end[2], escalated |-> end[2] # NoFailure]
           read(end, risk) == Run(end[1], "get_document_detail", end[2], end[2] # NoFailure, risk[2], risk[1],
                                  <<trace(end)>>, "deterministic-v1")
           denial == [risk |-> "read_only", failure |-> "insufficient_evidence", escalated |-> TRUE]
           denied == Run(NoTool, "list_documents", "permission_denied", TRUE, "medium", 0,
                         <<denial>>, "deterministic-v1")
           planned == Run(NoTool, NoTool, NoFailure, TRUE, "low", 1, << >>, "deterministic-backoffice-v1")
           reads == {read(end, risk) : end \in ends, risk \in risks}
<1>1. SomeAgentRuns = reads \union {denied, planned}
  BY DEF SomeAgentRuns
<1>2. /\ \A end, risk : read(end, risk).traces = <<trace(end)>>
      /\ denied.traces = <<denial>> /\ planned.traces = << >>
  BY DEF Run
<1> HIDE DEF ends, risks, trace, read, denial, denied, planned
<1>3. Len(<< >>) \in Nat /\ \A x : Len(<<x>>) \in Nat
  OBVIOUS
<1>4. ASSUME NEW run \in reads PROVE \E end, risk : run = read(end, risk)
  OBVIOUS
<1> HIDE DEF reads
<1>5. ASSUME NEW run \in SomeAgentRuns PROVE Len(run.traces) \in Nat
  BY <1>1, <1>2, <1>3, <1>4
<1>6. QED
  BY <1>5 DEF Recordings

\* The jobs that are recorded are jobs of a ledger.
LEMMA JobsOfInstance ==
  ASSUME NEW job \in SomeJobs
  PROVE  /\ job.status \in QueueStates \union {"cancelled"} /\ job.updated \in Int
         /\ job.started \in Int \union {Unset} /\ job.finished \in Int \union {Unset}
<1>1. \A s, p, e, a, f, u : /\ Job(s, p, e, a, f, u).status = s /\ Job(s, p, e, a, f, u).updated = u
                            /\ Job(s, p, e, a, f, u).started = a /\ Job(s, p, e, a, f, u).finished = f
  BY DEF Job
<1>2. QED
  BY <1>1 DEF SomeJobs, QueueStates

\* A job that is recorded leaves a ledger.
LEMMA RecordKeeps == LedgerInv /\ RecordJob => LedgerInv'
<1> SUFFICES ASSUME LedgerInv, RecordJob PROVE DOMAIN input' = {"jobs", "runs"} /\ Ledger(input')
  BY DEF LedgerInv
<1>1. about = "jobs" /\ DOMAIN input = {"jobs", "runs"} /\ Ledger(input)
  BY DEF LedgerInv, RecordJob
<1>2. PICK job \in SomeJobs :
        input' = [input EXCEPT !.jobs = @ \union {[job EXCEPT !.id = Cardinality(input.jobs) + 1]}]
  BY DEF RecordJob
<1> DEFINE new == [job EXCEPT !.id = Cardinality(input.jobs) + 1]
<1>3. DOMAIN job = {"id", "status", "provider", "error", "started", "finished", "updated"}
  BY DEF SomeJobs, Job
<1>4. Cardinality(input.jobs) \in Nat
  BY <1>1, FS_CardinalityType DEF Ledger
<1>5. /\ new.id \in Int /\ new.status = job.status /\ new.updated = job.updated
      /\ new.started = job.started /\ new.finished = job.finished
  BY <1>3, <1>4
<1> HIDE DEF new
<1>6. input'.jobs = input.jobs \union {new} /\ DOMAIN input' = DOMAIN input
  BY <1>1, <1>2 DEF new
<1>7. IsFiniteSet(input'.jobs)
  BY <1>1, <1>6, FS_AddElement DEF Ledger
<1>8. \A j \in input'.jobs :
        /\ j.status \in QueueStates \union {"cancelled"}
        /\ j.id \in Int /\ j.updated \in Int
        /\ j.started \in Int \union {Unset} /\ j.finished \in Int \union {Unset}
  BY <1>1, <1>5, <1>6, JobsOfInstance DEF Ledger
<1>9. QED
  BY <1>1, <1>6, <1>7, <1>8 DEF Ledger

\* The instance starts with nothing written.
LEMMA InitPages == Init => SnapshotInv /\ LedgerInv /\ RecordingsInv
<1> SUFFICES ASSUME Init PROVE SnapshotInv /\ LedgerInv /\ RecordingsInv
  OBVIOUS
<1>1. About
  BY DEF Init
<1>2. SnapshotInv
  BY <1>1 DEF About, SnapshotInv, NoSnapshot
<1>3. LedgerInv
  <2> SUFFICES ASSUME about = "jobs" PROVE DOMAIN input = {"jobs", "runs"} /\ Ledger(input)
    BY DEF LedgerInv
  <2>1. input = [jobs |-> {}, runs |-> {}]
    BY <1>1 DEF About
  <2>2. QED
    BY <2>1, FS_EmptySet DEF Ledger
<1>4. RecordingsInv
  BY <1>1 DEF About, RecordingsInv
<1>5. QED
  BY <1>2, <1>3, <1>4

\* Every step writes rows, items, jobs or runs of the instance.
LEMMA NextPages ==
  SnapshotInv /\ LedgerInv /\ RecordingsInv /\ [Next]_<<about, input, evaluation, gates>>
    => (SnapshotInv /\ LedgerInv /\ RecordingsInv)'
<1> SUFFICES ASSUME SnapshotInv, LedgerInv, RecordingsInv, [Next]_<<about, input, evaluation, gates>>
             PROVE  (SnapshotInv /\ LedgerInv /\ RecordingsInv)'
  OBVIOUS
<1>1. about' = about
  BY DEF Next, Look, Evaluate, Enter
<1>2. CASE UNCHANGED input
  BY <1>1, <1>2 DEF SnapshotInv, LedgerInv, RecordingsInv, Ledger
<1>3. CASE about = "snapshot" /\ (WriteFirst \/ WriteOther \/ WriteItems \/ WriteBatches)
  <2>1. /\ DOMAIN input = {"doc", "items", "batches"}
        /\ input.doc \in [Doc -> {NoRow} \union FirstRows \union OtherRows]
        /\ \A d \in Doc : d \in {d1, d2} \/ input.doc[d] = NoRow
        /\ input.items \in SomeItems \union {{}}
    BY <1>3 DEF SnapshotInv
  <2> SUFFICES /\ DOMAIN input' = {"doc", "items", "batches"}
               /\ input'.doc \in [Doc -> {NoRow} \union FirstRows \union OtherRows]
               /\ \A d \in Doc : d \in {d1, d2} \/ input'.doc[d] = NoRow
               /\ input'.items \in SomeItems \union {{}}
    BY <1>1, <1>3 DEF SnapshotInv, LedgerInv, RecordingsInv
  <2>2. CASE WriteFirst
    <3>1. PICK row \in FirstRows : input' = [input EXCEPT !.doc[d1] = row]
      BY <2>2 DEF WriteFirst
    <3>2. d1 \in Doc
      BY DocumentAssumption
    <3>3. DOMAIN input' = DOMAIN input /\ input'.items = input.items
      BY <2>1, <3>1
    <3>4. input'.doc = [input.doc EXCEPT ![d1] = row]
      BY <2>1, <3>1
    <3>5. input'.doc \in [Doc -> {NoRow} \union FirstRows \union OtherRows]
      BY <2>1, <3>2, <3>4
    <3>6. \A d \in Doc : d \in {d1, d2} \/ input'.doc[d] = NoRow
      BY <2>1, <3>4
    <3>7. QED
      BY <2>1, <3>3, <3>5, <3>6
  <2>3. CASE WriteOther
    <3>1. PICK row \in OtherRows : input' = [input EXCEPT !.doc[d2] = row]
      BY <2>3 DEF WriteOther
    <3>2. d2 \in Doc
      BY DocumentAssumption
    <3>3. DOMAIN input' = DOMAIN input /\ input'.items = input.items
      BY <2>1, <3>1
    <3>4. input'.doc = [input.doc EXCEPT ![d2] = row]
      BY <2>1, <3>1
    <3>5. input'.doc \in [Doc -> {NoRow} \union FirstRows \union OtherRows]
      BY <2>1, <3>2, <3>4
    <3>6. \A d \in Doc : d \in {d1, d2} \/ input'.doc[d] = NoRow
      BY <2>1, <3>4
    <3>7. QED
      BY <2>1, <3>3, <3>5, <3>6
  <2>4. CASE WriteItems
    BY <2>1, <2>4 DEF WriteItems
  <2>5. CASE WriteBatches
    BY <2>1, <2>5 DEF WriteBatches
  <2>6. QED
    BY <1>3, <2>2, <2>3, <2>4, <2>5
<1>4. CASE about = "jobs" /\ (RecordRuns \/ RecordJob)
  <2>1. CASE RecordRuns
    <3>1. input'.jobs = input.jobs /\ DOMAIN input' = DOMAIN input
      BY <1>4, <2>1 DEF RecordRuns, LedgerInv
    <3>2. QED
      BY <1>1, <1>4, <3>1 DEF SnapshotInv, LedgerInv, RecordingsInv, Ledger
  <2>2. CASE RecordJob
    BY <1>1, <1>4, <2>2, RecordKeeps DEF SnapshotInv, RecordingsInv
  <2>3. QED
    BY <1>4, <2>1, <2>2
<1>5. CASE about = "runs" /\ RecordAgentRun
  <2>1. PICK run \in SomeAgentRuns : input' = <<run>> \o input
    BY <1>5 DEF RecordAgentRun
  <2>2. input \in Seq(SomeAgentRuns) /\ <<run>> \in Seq(SomeAgentRuns)
    BY <1>5 DEF RecordingsInv
  <2> HIDE DEF SnapshotInv, LedgerInv
  <2>3. input' \in Seq(SomeAgentRuns)
    BY <2>1, <2>2, ConcatProperties
  <2>4. QED
    BY <1>1, <1>5, <2>3 DEF SnapshotInv, LedgerInv, RecordingsInv
<1>6. about \notin {"snapshot", "jobs", "runs"} => (SnapshotInv /\ LedgerInv /\ RecordingsInv)'
  BY <1>1 DEF SnapshotInv, LedgerInv, RecordingsInv
<1>7. QED
  BY <1>2, <1>3, <1>4, <1>5, <1>6, Zenon DEF Next, Look, Evaluate, Enter, WriteFirst, WriteOther, WriteItems,
     WriteBatches, EnterAmounts, EnterDetails, PrintPages, Answer, RecordRuns, RecordJob, StoreFiles, SignIn,
     RecordAgentRun, ChooseCases, ReadCase, RecordReport, NameCredentials, ChooseBackends

\* The stores answer a query alike, and what several pages show of one thing is the
\* same on all of them: on every snapshot, ledger and sequence of runs of the instance.
THEOREM PagesHold == Spec => []PagesAgree
<1> DEFINE Inv == SnapshotInv /\ LedgerInv /\ RecordingsInv
<1>1. Init => Inv
  BY InitPages
<1>2. Inv /\ [Next]_<<about, input, evaluation, gates>> => Inv'
  BY NextPages
<1>3. Inv => PagesAgree
  <2> SUFFICES ASSUME SnapshotInv, LedgerInv, RecordingsInv PROVE PagesAgree
    OBVIOUS
  <2>1. about = "snapshot" => StoresAnswerAlike(input) /\ CountsMatchTheirPages(input)
    BY SnapshotOfInstance, EveryStoreAnswersAlike, EveryCountMatchesItsPage
  <2>2. about = "jobs" => /\ DashboardsAgree(input, Now)
                          /\ \A ready, providers, accounting : OperationalIsEarned(input, ready, providers, accounting)
    <3>1. Now \in Int
      BY DEF Now
    <3>2. QED
      BY <3>1, EveryDashboardAgrees, EveryOperationalIsEarned DEF LedgerInv
  <2>3. about = "runs" => /\ SummaryAddsUp(input)
                          /\ \A previous, current \in Nat : RegressionTurnsRound(input, previous, current)
    BY RunsOfInstance, EverySummaryAddsUp, EveryRegressionTurnsRound DEF RecordingsInv
  <2>4. 0..3 \subseteq Nat
    OBVIOUS
  <2>5. about = "runs" => SummaryAddsUp(input) /\ \A previous, current \in 0..3 : RegressionTurnsRound(input, previous, current)
    BY <2>3, <2>4
  <2>6. QED
    BY <2>1, <2>2, <2>5, Zenon DEF PagesAgree
<1> HIDE DEF Inv
<1>4. QED
  BY <1>1, <1>2, <1>3, PTL DEF Spec
=============================================================================
