------------------------------ MODULE Billing ------------------------------
(***************************************************************************)
(* What an invoice costs: recompute_invoice of                             *)
(* backend/apps/sales/services.py with the scheme engine of                *)
(* backend/apps/catalog, against the office editing the schemes.  Each     *)
(* line is priced by queries of its own, a scheme is saved in several      *)
(* transactions: its slabs are deleted and then inserted one by one.       *)
(* Amounts are in paise, quantities whole.                                 *)
(***************************************************************************)
EXTENDS Integers, FiniteSetsExt, Functions

CONSTANTS Lines, ItemOf, Rate,    \* the lines the agent enters, item and rate of each
          GstRate,                \* GstRate[i], per cent
          Schemes, SchemeItems,   \* SchemeItems[s]: the item or its category's items
          Offers,                 \* [kind, value, slabs] the office may save
          Bonuses,                \* SchemeBXGY: [trigger, needed, bonus, given, cap, rate]
          Quantities, Discounts,  \* of a line, as entered
          MaxLineEdits, MaxOffers \* bounds

VARIABLES
    line,     \* line[l]: [qty, discount, taxable, cgst, sgst, igst]
    bonus,    \* the bonus lines: [scheme, qty]
    bill,     \* [subtotal, discount, tax, grand]
    scheme,   \* scheme[s]: an offer, slabs as inserted so far
    saving,   \* [scheme, slabs still to insert, cleared], or NoSaving
    pricing,  \* a recomputation runs
    todo,     \* its lines not priced yet
    interstate, calm, lineEdits, offers

billingVars == <<line, bonus, bill, scheme, saving, pricing, todo, interstate, calm, lineEdits, offers>>

NoSaving == [scheme |-> "none", slabs |-> {}, cleared |-> TRUE]
NoOffer  == [kind |-> "percent", value |-> 0, slabs |-> {}]
NoLine   == [qty |-> 0, discount |-> 0, taxable |-> 0, cgst |-> 0, sgst |-> 0, igst |-> 0]

BillInit ==
    /\ line = [l \in Lines |-> NoLine]
    /\ bonus = {}
    /\ bill = [subtotal |-> 0, discount |-> 0, tax |-> 0, grand |-> 0]
    /\ scheme = [s \in Schemes |-> NoOffer]
    /\ saving = NoSaving
    /\ pricing = FALSE /\ todo = {} /\ interstate = FALSE /\ calm = FALSE
    /\ lineEdits = 0 /\ offers = 0

\* Decimal.quantize of a fraction of paise: half to even.
Quantize(n, d) ==
    LET q == n \div d
        r == 2 * (n % d)
    IN  IF r > d \/ (r = d /\ q % 2 = 1) THEN q + 1 ELSE q

Gross(l, q) == q * Rate[l]

Off(kind, value, gross) ==
    IF kind = "percent" THEN Quantize(gross * value, 100)
    ELSE IF value < gross THEN value ELSE gross

Matches(slab, q) == slab.from <= q /\ (slab.upto = 0 \/ q <= slab.upto)

SlabOff(slabs, q, gross) ==
    LET fitting == {b \in slabs : Matches(b, q)}
    IN  IF fitting = {} THEN 0
        ELSE LET first == CHOOSE b \in fitting : \A c \in fitting : b.from <= c.from
             IN  Off(first.kind, first.value, gross)

SchemeOff(offer, q, gross) ==
    IF offer.kind = "slab" THEN SlabOff(offer.slabs, q, gross) ELSE Off(offer.kind, offer.value, gross)

\* The best of the schemes as they are saved.
BestSchemeDiscount(saved, l, q) ==
    Max({0} \cup {SchemeOff(saved[s], q, Gross(l, q)) : s \in {t \in Schemes : ItemOf[l] \in SchemeItems[t]}})

QtyOrdered == [l \in Lines |-> line[l].qty]

TriggerQty(ordered, i) == SumFunctionOnSet(ordered, {l \in Lines : ItemOf[l] = i})

Multiples(ordered, b) ==
    LET m == TriggerQty(ordered, b.trigger) \div b.needed IN IF b.cap # 0 /\ m > b.cap THEN b.cap ELSE m

Earned(ordered) ==
    {[scheme |-> b, qty |-> b.given * Multiples(ordered, b)] : b \in {c \in Bonuses : Multiples(ordered, c) > 0}}

BonusLines == Earned(QtyOrdered)

\* Mutant of Rebonused: the bonus lines there are stay.
Rebonused_Kept == bonus \cup BonusLines

\* The bonus lines are deleted and derived again.
Rebonused == BonusLines

Taxed(away, x, taxable, discount, rate) ==
    LET tax == Quantize(taxable * rate, 100)
        cgst == IF away THEN 0 ELSE Quantize(tax, 2)
    IN  [qty |-> x.qty, discount |-> discount, taxable |-> taxable, cgst |-> cgst,
         sgst |-> IF away THEN 0 ELSE tax - cgst, igst |-> IF away THEN tax ELSE 0]

\* A discount that is there already, entered or computed, is kept.
Computed(saved, away, l, x) ==
    LET discount == IF x.discount # 0 THEN x.discount ELSE BestSchemeDiscount(saved, l, x.qty)
    IN  Taxed(away, x, Gross(l, x.qty) - discount, discount, GstRate[ItemOf[l]])

ComputeLine(l) == Computed(scheme, interstate, l, line[l])

BonusGross == SumFunctionOnSet([b \in bonus |-> b.qty * b.scheme.rate], bonus)

\* The sum of a column of the lines.
LinesTotal(column) == SumFunctionOnSet(column, Lines)

\* A bonus line is waived in full: it raises the subtotal and the discount.
Totals ==
    LET discount == LinesTotal([l \in Lines |-> line[l].discount]) + BonusGross
        subtotal == LinesTotal([l \in Lines |-> line[l].taxable]) + discount
        tax      == LinesTotal([l \in Lines |-> line[l].cgst + line[l].sgst + line[l].igst])
    IN  [subtotal |-> subtotal, discount |-> discount, tax |-> tax,
         grand |-> subtotal - discount + tax]

(* The agent's draft. *)
SetLine(l, q, d) ==
    /\ lineEdits < MaxLineEdits /\ ~pricing
    /\ line' = [line EXCEPT ![l].qty = q, ![l].discount = d]
    /\ calm' = FALSE /\ lineEdits' = lineEdits + 1
    /\ UNCHANGED <<bonus, bill, scheme, saving, pricing, todo, interstate, offers>>

(* recompute_invoice. *)
StartRecompute ==
    /\ ~pricing /\ ~calm
    /\ bonus' = Rebonused
    /\ pricing' = TRUE /\ todo' = Lines /\ calm' = TRUE
    /\ UNCHANGED <<line, bill, scheme, saving, interstate, lineEdits, offers>>

PriceLine(l) ==
    /\ l \in todo
    /\ line' = [line EXCEPT ![l] = ComputeLine(l)]
    /\ todo' = todo \ {l}
    /\ UNCHANGED <<bonus, bill, scheme, saving, pricing, interstate, calm, lineEdits, offers>>

FinishRecompute ==
    /\ pricing /\ todo = {}
    /\ bill' = Totals
    /\ pricing' = FALSE
    /\ UNCHANGED <<line, bonus, scheme, saving, todo, interstate, calm, lineEdits, offers>>

(* SchemeSerializer.update, each statement a transaction. *)
SaveScheme(s, o) ==
    /\ offers < MaxOffers /\ saving = NoSaving
    /\ scheme' = [scheme EXCEPT ![s].kind = o.kind, ![s].value = o.value]
    /\ saving' = IF o.slabs = {} THEN NoSaving ELSE [scheme |-> s, slabs |-> o.slabs, cleared |-> FALSE]
    /\ calm' = FALSE /\ offers' = offers + 1
    /\ UNCHANGED <<line, bonus, bill, pricing, todo, interstate, lineEdits>>

DeleteSlabs ==
    /\ ~saving.cleared
    /\ scheme' = [scheme EXCEPT ![saving.scheme].slabs = {}]
    /\ saving' = [saving EXCEPT !.cleared = TRUE]
    /\ calm' = FALSE
    /\ UNCHANGED <<line, bonus, bill, pricing, todo, interstate, lineEdits, offers>>

InsertSlab(b) ==
    /\ saving.cleared /\ b \in saving.slabs
    /\ scheme' = [scheme EXCEPT ![saving.scheme].slabs = @ \cup {b}]
    /\ saving' = IF saving.slabs = {b} THEN NoSaving ELSE [saving EXCEPT !.slabs = @ \ {b}]
    /\ calm' = FALSE
    /\ UNCHANGED <<line, bonus, bill, pricing, todo, interstate, lineEdits, offers>>

\* The company's GST registration moves to another state.
MoveRegistration ==
    /\ offers < MaxOffers /\ saving = NoSaving
    /\ interstate' = ~interstate /\ calm' = FALSE /\ offers' = offers + 1
    /\ UNCHANGED <<line, bonus, bill, scheme, saving, pricing, todo, lineEdits>>

BillNext ==
    \/ StartRecompute \/ FinishRecompute \/ DeleteSlabs \/ MoveRegistration
    \/ \E l \in Lines : PriceLine(l) \/ \E q \in Quantities, d \in Discounts : SetLine(l, q, d)
    \/ \E s \in Schemes, o \in Offers : SaveScheme(s, o)
    \/ \E b \in saving.slabs : InsertSlab(b)

BillSpec == BillInit /\ [][BillNext]_billingVars
-----------------------------------------------------------------------------
BillTypeOK ==
    /\ \A l \in Lines : line[l].qty \in {0} \cup Quantities /\ line[l].discount \in Nat
    /\ \A s \in Schemes : scheme[s].kind \in {"percent", "flat", "slab"}
    /\ todo \subseteq Lines /\ saving.scheme \in Schemes \cup {"none"}
    /\ bill.discount \in Nat

\* Once an invoice is priced, and until a line, a scheme or the registration
\* changes, pricing it again would find the same bonus lines, the same amounts
\* on every line and the same totals (apply_bxgy_bonus_lines: "safe to call on
\* every recompute").
RecomputeStable ==
    calm /\ ~pricing =>
        /\ bonus = BonusLines
        /\ \A l \in Lines : ComputeLine(l) = line[l]
        /\ bill = Totals
=============================================================================
