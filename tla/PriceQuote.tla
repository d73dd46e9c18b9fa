----------------------------- MODULE PriceQuote -----------------------------
(***************************************************************************)
(* The price of a checkout: which rows of the price history it is taken    *)
(* from, and how the rows add up to the order's totals                     *)
(* (fxPricingPublisherService.ts, catalogService.ts, pricingLockService.ts,*)
(* checkoutPricingService.ts, termPricing.ts, couponAllocation.ts).        *)
(*                                                                         *)
(* The first part runs over histories: the changes of one product's prices *)
(* in the order in which they are committed, each with the time it took    *)
(* before its transaction.  A price is the USD price it was derived from:  *)
(* exchange rates and their rounding are left out, and a publication that  *)
(* is skipped (stale rates, no base price) changes nothing.                *)
(***************************************************************************)
EXTENDS Naturals, Sequences, FiniteSets, FiniteSetsExt

CONSTANTS
  Currencies,   \* display currencies of the history part
  MaxChanges,   \* bound: changes of one history
  Baskets       \* item lists of the arithmetic part

Base == "USD"

ASSUME QuoteAssumption ==
  /\ Base \in Currencies
  /\ MaxChanges \in Nat

-----------------------------------------------------------------------------
\* The settlement buckets (fxSettlement.ts, fxConfig.ts).
FX_EUR_SETTLEMENT_BUCKET == {"SEK"}
FX_USD_SETTLEMENT_BUCKET == {"AUD", "CNY", "HKD", "JPY", "MYR", "PHP", "SGD"}

resolveSettlementCurrency(c) ==
  IF c \in FX_EUR_SETTLEMENT_BUCKET THEN "EUR"
  ELSE IF c \in FX_USD_SETTLEMENT_BUCKET \/ c \notin Currencies THEN "USD"
  ELSE c

\* A row of price_history: the price, its currency, its window and the snapshot
\* id of its metadata, which only a publication writes.
NoSnap == 0

\* Later than every change, and the end of a price that is in force then.
Late == 2 * MaxChanges + 1
Open == Late + 1
Row(cur, usd, at, snap) == [cur |-> cur, usd |-> usd, starts |-> at, ends |-> Open, snap |-> snap]

InForce(rows, cur, t) == {r \in rows : r.cur = cur /\ r.starts <= t /\ r.ends > t}

\* ORDER BY starts_at DESC LIMIT 1, as a set with at most one member.
Latest(rows) == {r \in rows : \A q \in rows : q.starts <= r.starts}

getCurrentPriceForCurrency(rows, cur, t) == Latest(InForce(rows, cur, t))

\* Mutant of replaceCurrentPrice: whatever is open is closed, later prices too.
replaceCurrentPrice_EndsLater(rows, new) ==
  {[r EXCEPT !.ends = IF \E n \in new : n.cur = r.cur /\ @ > n.starts
                        THEN (CHOOSE n \in new : TRUE).starts ELSE @] : r \in rows} \cup new

\* The rows in force at the start of the new ones (which have one start) are ended
\* and these put behind them, in one transaction; a later row stays, and stays the
\* one in force.
replaceCurrentPrice(rows, new) ==
  {[r EXCEPT !.ends = IF \E n \in new : n.cur = r.cur /\ r.starts < n.starts /\ @ > n.starts
                        THEN (CHOOSE n \in new : TRUE).starts ELSE @] : r \in rows} \cup new

-----------------------------------------------------------------------------
(***************************************************************************)
(* A publication took its `at' before it started, read the USD price after *)
(* `read' of the commits, and commits a row per currency.  An              *)
(* administrator's change has the time of its request.  The snapshot id of *)
(* a publication, and the price an administrator sets, are its `at'.  A    *)
(* rewrite is an update of a product without variants that gives its       *)
(* duration or currency and not its price: it commits the price that was   *)
(* read, before its transaction, after `read' of the commits.              *)
(***************************************************************************)
Publish(at, read) == [kind |-> "publish", at |-> at, read |-> read]
SetPrice(at, cur) == [kind |-> "set", at |-> at, cur |-> cur]
Rewrite(at, read) == [kind |-> "rewrite", at |-> at, read |-> read]

\* A variant's base price is the USD row in force at the publication's time.
loadCurrentUsdVariantBasePrices(rows, at) ==
  {r.usd : r \in getCurrentPriceForCurrency(rows, Base, at)}

Published(rows, bases, at) ==
  replaceCurrentPrice(rows, {Row(c, usd, at, at) : c \in Currencies, usd \in bases})

\* The rows of a variant after each commit of history h; the first USD price
\* was set before it.
VariantRows(h) ==
  LET after[i \in 0..Len(h)] ==
        IF i = 0 THEN {Row(Base, 0, 0, NoSnap)}
        ELSE IF h[i].kind = "publish"
          THEN Published(after[i - 1],
                         loadCurrentUsdVariantBasePrices(after[h[i].read], h[i].at), h[i].at)
          ELSE replaceCurrentPrice(after[i - 1], {Row(h[i].cur, h[i].at, h[i].at, NoSnap)})
  IN  after

\* The products row of a product without variants: the price last committed, which
\* a rewrite leaves alone.
FixedPrice(h, i) ==
  LET sets == {j \in 1..i : h[j].kind = "set"}
  IN  IF sets = {} THEN 0 ELSE h[Max(sets)].at

\* The same for such a product: its base price is the products row, not the
\* history, and updateProduct writes the history whichever fixed field is given.
FixedRows(h) ==
  LET after[i \in 0..Len(h)] ==
        IF i = 0 THEN {Row(Base, 0, 0, NoSnap)}
        ELSE IF h[i].kind = "publish"
          THEN Published(after[i - 1], {FixedPrice(h, h[i].read)}, h[i].at)
        ELSE IF h[i].kind = "rewrite"
          THEN replaceCurrentPrice(after[i - 1],
                                   {Row(Base, FixedPrice(h, h[i].read), h[i].at, NoSnap)})
          ELSE replaceCurrentPrice(after[i - 1], {Row(h[i].cur, h[i].at, h[i].at, NoSnap)})
  IN  after

\* resolvePricingLockContext: the settlement row must not be of another snapshot,
\* and one of the two must be of some.
Locks(d, s) ==
  /\ d.snap # NoSnap /\ s.snap # NoSnap => d.snap = s.snap
  /\ d.snap # NoSnap \/ s.snap # NoSnap

\* The quotes in currency cur, as pairs of a display and a settlement row.  The
\* display row is read as of now, among the rows `early', the settlement row later,
\* among the rows `late', as of the time `at' or, if that is StartOfDisplay, as of the
\* start of the display row.
StartOfDisplay == -1

Quotes(early, late, cur, now, at) ==
  LET settle == resolveSettlementCurrency(cur)
      Settled(d) ==
        IF settle = cur THEN {d}
        ELSE getCurrentPriceForCurrency(late, settle, IF at = StartOfDisplay THEN d.starts ELSE at)
  IN  UNION {{<<d, s>> : s \in {q \in Settled(d) : Locks(d, q)}} :
               d \in getCurrentPriceForCurrency(early, cur, now)}

\* Mutant of VariantQuotes: the settlement price is read as of now.
VariantQuotes_Now(early, late, cur, now) == Quotes(early, late, cur, now, now)

\* A variant's settlement price is read as of the start of its display price.
VariantQuotes(early, late, cur, now) == Quotes(early, late, cur, now, StartOfDisplay)

\* Of a product without variants resolveVariantPricing makes up a display row that
\* starts when it began, before it read the price; the settlement price is read as
\* of then.
FixedQuotes(early, late, cur, now, began) == Quotes(early, late, cur, now, began)

-----------------------------------------------------------------------------
(***************************************************************************)
(* The histories: no two changes of one price have the same time, and a    *)
(* publication or a rewrite reads before it commits.  Times are even; a    *)
(* quote is asked for at an odd one.                                       *)
(***************************************************************************)
Readers(fixed) == IF fixed THEN {"publish", "rewrite"} ELSE {"publish"}

Kinds(curs, fixed, n) == {<<"set", c>> : c \in curs} \cup (Readers(fixed) \X (0..n - 1))

Committed(k, at) ==
  IF k[1] = "set" THEN SetPrice(at, k[2])
  ELSE IF k[1] = "publish" THEN Publish(at, k[2]) ELSE Rewrite(at, k[2])

\* The times and the kinds of n changes.  updateProduct takes its time while it holds the
\* products row.
Plans(curs, fixed, n) ==
  {c \in Injection(1..n, 1..n)
         \X {k \in [1..n -> Kinds(curs, fixed, n)] : \A i \in 1..n : k[i][1] # "set" => k[i][2] < i} :
    fixed => \A i, j \in 1..n :
               i < j /\ c[2][i][1] # "publish" /\ c[2][j][1] # "publish" => c[1][i] < c[1][j]}

Histories(curs, fixed) ==
  UNION {{[i \in 1..n |-> Committed(c[2][i], 2 * c[1][i])] : c \in Plans(curs, fixed, n)} :
         n \in 0..MaxChanges}

Sets(h) == {i \in 1..Len(h) : h[i].kind = "set" /\ h[i].cur = Base}

VariantHistories == Histories(Currencies, FALSE)
FixedHistories   == Histories({Base}, TRUE)

\* When a quote can be asked for after i commits of h.
Moments(h, i) == {t \in 1..Late : t % 2 = 1 /\ \A k \in 1..i : h[k].at < t}

\* How many histories have a quote of a published price that settles at another
\* one.  (Counts, here and below, since TLC evaluates a constant number once.)
SplitHistories == Cardinality(
  {h \in VariantHistories :
    LET rows == VariantRows(h) IN
    \E j \in 0..Len(h) : \E i \in 0..j : \E c \in Currencies :
      \E q \in VariantQuotes(rows[i], rows[j], c, Late) :
        q[1].snap # NoSnap /\ (q[2].snap # q[1].snap \/ q[2].usd # q[1].usd)})

\* The administrator's latest price is in force, or was overtaken by a change with a
\* later time that had read the price before it.
KeepsPrice(h, rows) ==
  LET sets == Sets(h)
      last == {i \in sets : \A j \in sets : h[j].at <= h[i].at}
      overtaken == \E p \in 1..Len(h), i \in last :
                     h[p].kind # "set" /\ h[p].at > h[i].at /\ h[p].read < i
  IN  overtaken \/ \A r \in getCurrentPriceForCurrency(rows[Len(h)], Base, Late) :
                     r.usd = IF sets = {} THEN 0 ELSE h[CHOOSE i \in last : TRUE].at

LosingHistories == Cardinality(
  {h \in VariantHistories : ~KeepsPrice(h, VariantRows(h))}
    \cup {h \in FixedHistories : ~KeepsPrice(h, FixedRows(h))})

\* The histories in which a product without variants is quoted at two prices
\* that are not an update and the publication before it, with no change that took
\* its time while the request ran.
MixedHistories == Cardinality(
  {h \in FixedHistories :
    LET rows == FixedRows(h) IN
    \E i \in 0..Len(h) : \E t \in Moments(h, i) : \E began \in {m \in 1..t : m % 2 = 1} :
      /\ \A k \in 1..Len(h) : h[k].at < began \/ h[k].at > t
      /\ \E j \in i..Len(h), c \in Currencies : \E q \in FixedQuotes(rows[i], rows[j], c, t, began) :
           /\ q[1].usd # q[2].usd
           /\ q[2].snap # NoSnap \/ q[2].starts <= q[1].starts})

-----------------------------------------------------------------------------
(***************************************************************************)
(* The arithmetic of priceDraft, in cents.  A basket is a function of item *)
(* numbers; its prices come from the lock above.                           *)
(***************************************************************************)
Item == [snap : Nat, base : Nat \ {0}, settle : Nat \ {0}, months : Nat \ {0},
         percent : 0..100, fixed : BOOLEAN, eligible : BOOLEAN]

\* What parsePositiveCents and the clamps of computeTermPricing leave of a basket.
ASSUME BasketAssumption ==
  \A b \in Baskets : /\ IsFiniteSet(DOMAIN b) /\ DOMAIN b \subseteq Nat
                     /\ \A i \in DOMAIN b : b[i] \in Item

Scopes  == {"highest_eligible_item", "order_total"}
Coupons == [scope : Scopes, percent : {0, 1, 33, 50, 85, 100}]

\* Math.round of a quotient.
Round(a, b) == (2 * a + b) \div (2 * b)
SumOver(S, f) == MapThenSumSet(LAMBDA i : f[i], S)
Sum(f) == SumOver(DOMAIN f, f)

\* Math.max(0, a - b).
AtLeastZero(a, b) == IF a > b THEN a - b ELSE 0

computeTermPricing(base, months, percent) ==
  LET subtotal == base * months
      discount == Round(subtotal * percent, 100)
  IN  [subtotal |-> subtotal, discount |-> discount, total |-> subtotal - discount]

\* A product without variants is priced for its whole term.
computeFixedTermPricing(price) == [subtotal |-> price, discount |-> 0, total |-> price]

Term(item, price) ==
  IF item.fixed THEN computeFixedTermPricing(price)
  ELSE computeTermPricing(price, item.months, item.percent)

\* The first of the dearest items.
Dearest(totals, eligible) ==
  Min({i \in eligible : \A j \in eligible : totals[j] <= totals[i]})

\* Mutant of Spread: every item's share is rounded by itself.
Spread_Rounded(totals, eligible, discount) ==
  LET sum == SumOver(eligible, totals)
  IN  [i \in DOMAIN totals |-> IF i \in eligible THEN Round(discount * totals[i], sum) ELSE 0]

\* The discount of an order is spread by largest remainder: the cents that
\* rounding down leaves go to the items that lost most, the first of them first.
Spread(totals, eligible, discount) ==
  LET sum       == SumOver(eligible, totals)
      floor     == [i \in DOMAIN totals |-> (discount * totals[i]) \div sum]
      Lost(i)   == (discount * totals[i]) % sum
      remaining == discount - SumOver(eligible, floor)
      rank(i)   == Cardinality({j \in eligible : Lost(j) > Lost(i) \/ (Lost(j) = Lost(i) /\ j < i)})
  IN  [i \in DOMAIN totals |->
         IF i \notin eligible THEN 0 ELSE IF rank(i) < remaining THEN floor[i] + 1 ELSE floor[i]]

computeCouponAllocation(offer, totals, marked) ==
  LET eligible == {i \in marked : totals[i] > 0}
      sum      == SumOver(eligible, totals)
      top      == Dearest(totals, eligible)
  IN  IF eligible = {} \/ offer.percent = 0 THEN [i \in DOMAIN totals |-> 0]
      ELSE IF offer.scope = "order_total"
        THEN Spread(totals, eligible, Round(sum * offer.percent, 100))
        ELSE [i \in DOMAIN totals |->
                IF i = top THEN Round(totals[top] * offer.percent, 100) ELSE 0]

\* The coupon is reckoned on what the term discount leaves.
Allocated(items, offer, terms) ==
  computeCouponAllocation(offer, [i \in DOMAIN items |-> terms[i].total],
                          {i \in DOMAIN items : items[i].eligible})

\* One half of a draft, in the display or in the settlement currency.
Priced(items, prices, offer) ==
  LET terms   == [i \in DOMAIN items |-> Term(items[i], prices[i])]
      coupons == Allocated(items, offer, terms)
  IN  [terms   |-> terms,
       coupons |-> coupons,
       final   |-> [i \in DOMAIN items |-> AtLeastZero(terms[i].total, coupons[i])]]

Refused == [ok |-> FALSE]

\* priceDraft: the order's total is taken from the order's sums, the settlement
\* total from the items'.  The settlement currency is a function of the display
\* currency, so that the items always agree on it.
priceDraft(items, offer) ==
  LET display == Priced(items, [i \in DOMAIN items |-> items[i].base], offer)
      settled == Priced(items, [i \in DOMAIN items |-> items[i].settle], offer)
      subtotal == Sum([i \in DOMAIN items |-> display.terms[i].subtotal])
      discount == Sum([i \in DOMAIN items |-> display.terms[i].discount])
      couponed == Sum(display.coupons)
      total    == AtLeastZero(subtotal, discount + couponed)
      owed     == Sum(settled.final)
  IN  IF Cardinality({items[i].snap : i \in DOMAIN items}) # 1 \/ total = 0 \/ owed = 0
        THEN Refused
        ELSE [ok |-> TRUE, total |-> total, owed |-> owed, display |-> display, settled |-> settled]

\* What an allocation owes its basket.
Exact(items, offer) ==
  LET totals   == [i \in DOMAIN items |-> items[i].base]
      marked   == {i \in DOMAIN items : items[i].eligible}
      cents    == computeCouponAllocation(offer, totals, marked)
      sum      == SumOver(marked, totals)
      discount == Round(sum * offer.percent, 100)
  IN  /\ \A i \in DOMAIN items : cents[i] <= totals[i] /\ (i \notin marked => cents[i] = 0)
      /\ offer.scope = "order_total" =>
           /\ Sum(cents) = discount
           /\ \A i \in marked : /\ cents[i] * sum < discount * totals[i] + sum
                                /\ discount * totals[i] < cents[i] * sum + sum
      /\ offer.scope = "highest_eligible_item" =>
           \A i, j \in marked :
             cents[i] > 0 => totals[j] <= totals[i] /\ (j # i => cents[j] = 0)

Inexact == Cardinality({b \in Baskets \X Coupons : ~Exact(b[1], b[2])})

AddsUp(draft) ==
  LET half == draft.settled
      left == Sum([i \in DOMAIN half.final |-> half.terms[i].total]) - Sum(half.coupons)
  IN  draft.total = Sum(draft.display.final) /\ draft.owed = left

Disagreeing ==
  Cardinality({b \in Baskets \X Coupons : LET d == priceDraft(b[1], b[2]) IN d.ok /\ ~AddsUp(d)})

=============================================================================
