--------------------------- MODULE MCSalesPosting ---------------------------
(* Instances of SalesPosting for TLC. *)
EXTENDS SalesPosting

Line(i, q) == [item |-> i, qty |-> q]

\* One request with the fields every document has.
Sent(kind, amount, lines) ==
    [kind |-> kind, pushed |-> TRUE, override |-> FALSE, blocked |-> FALSE, amount |-> amount,
     allocated |-> 0, against |-> 1, lines |-> lines]

InvoiceAB == Sent("invoice", 3, <<Line("A", -1), Line("B", -2)>>)
InvoiceBA == Sent("invoice", 2, <<Line("B", -1), Line("A", -1)>>)
Override  == [InvoiceBA EXCEPT !.override = TRUE]
Return    == Sent("credit_note", 1, <<Line("A", 1), Line("B", 1), Line("A", 1)>>)
Receipt(amount, allocated) == [Sent("receipt", amount, <<>>) EXCEPT !.allocated = allocated]

Online(r) == [r EXCEPT !.pushed = FALSE]

AB == {"A", "B"}

Docs2 == 1..2
Docs4 == 1..4
Docs5 == 1..5

\* Two invoices with their lines in opposite orders, a return, two part
\* payments of the first invoice.
PushedMix == <<InvoiceAB, InvoiceBA, Return, Receipt(2, 2), Receipt(2, 1)>>
\* Online and pushed documents; the receipt allocates more than it received.
BooksMix == <<Online(InvoiceAB), InvoiceBA, Online(Return), Online(Receipt(2, 3))>>
\* Two part payments of one invoice, an override.
SerialMix == <<InvoiceAB, Override, Receipt(2, 2), Receipt(2, 1)>>
TwoInvoices == <<InvoiceAB, InvoiceBA>>
=============================================================================
