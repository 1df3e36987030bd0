----------------------------- MODULE SalesPosting -----------------------------
(***************************************************************************)
(* Finalizing the documents of a sale: finalize_invoice, finalize_receipt  *)
(* and finalize_credit_note (backend/apps/sales/services.py) with          *)
(* post_stock_movement (backend/apps/inventory/services.py), called from   *)
(* the serializers by concurrent requests, online or through mobile push.  *)
(*                                                                         *)
(* Every finalization is a database transaction at READ COMMITTED: what it *)
(* writes is kept in its txn record until it commits, and only the rows    *)
(* taken with select_for_update or updated earlier in the transaction are  *)
(* locked.  The customer row is neither: its balance is the one read while *)
(* the request was validated, before the transaction began.                *)
(*                                                                         *)
(* One customer, one godown and one series per kind of document (a GST     *)
(* registration and a financial year) stand for all: the rows of others    *)
(* are disjoint from these.                                                *)
(***************************************************************************)
EXTENDS Integers, Sequences, FiniteSets, Functions

CONSTANTS Docs,        \* documents: invoices, receipts and credit notes
          Doc,         \* Doc[d]: what the client sent
          Items,
          CreditLimit, \* Customer.credit_limit
          Edits,       \* kinds of other requests that may interfere
          MaxOpen,     \* bound: requests being served at a time
          MaxAborts,   \* bound: transactions that die
          MaxEdits     \* bound: other requests

Kinds == {"invoice", "receipt", "credit_note"}

EditKinds == {"signature", "customer", "approve", "destroy"}

\* pushed: received by PushView, which wraps creation and finalization in one
\* transaction; override: sent with override=true by a permitted user; blocked: the
\* customer is blocked when is_valid reads it; against: the invoice a receipt is
\* allocated to or a credit note returns; allocated: the amount of that allocation,
\* 0 without one, as the phone sends receipts; lines: the lines with the sign of
\* their movement.  A receipt is not divided between invoices.
Request == [kind : Kinds, pushed : BOOLEAN, override : BOOLEAN, blocked : BOOLEAN, amount : Nat,
            allocated : Nat, against : Docs, lines : Seq([item : Items, qty : Int])]

ASSUME SalesPostingAssumption ==
    /\ IsFiniteSet(Docs)
    /\ Doc \in [Docs -> Request]
    /\ CreditLimit \in Nat
    /\ Edits \subseteq EditKinds
    /\ MaxOpen \in Nat /\ MaxAborts \in Nat /\ MaxEdits \in Nat

VARIABLES
    row,     \* row[d]: the committed row of the document
    balance, \* Customer.outstanding_balance
    last,    \* last[k]: DocumentSequence.last_number
    stock,   \* stock[i]: VanStock.qty_on_hand
    ledger,  \* ledger[i]: the StockLedgerEntry rows of an item
    txn,     \* txn[d]: the request that creates and finalizes d
    patch,   \* patch[d]: the copy of the invoice a signature PATCH holds
    edit,    \* the copies of the balance held by customer edits
    aborts,  \* transactions that died so far
    edits    \* other requests so far

vars == <<row, balance, last, stock, ledger, txn, patch, edit, aborts, edits>>

books == <<row, balance, last, stock, ledger>>

Payment == {"unpaid", "partial", "paid"}
Credit  == {"ok", "pending_review", "overridden"}

\* "bare": the row exists but its finalization has not committed.
Row == [state : {"none", "bare", "final", "deleted"}, number : Nat,
        credit : Credit, payment : Payment]

NoRow == [state |-> "none", number |-> 0, credit |-> "ok", payment |-> "unpaid"]

Entry == [doc : Docs, qty : Int, after : Int]

\* The rows that are locked: of DocumentSequence, VanStock and Invoice.
SeqRow(k)     == <<"seq", k>>
StockRow(i)   == <<"stock", i>>
InvoiceRow(d) == <<"invoice", d>>

LockNames == ({"seq"} \X Kinds) \cup ({"stock"} \X Items) \cup ({"invoice"} \X Docs)

\* A request: the balance it read, and the writes of its open transaction.
Txn == [stage : {"idle", "valid", "begun", "lines", "paying", "posted"},
        snapshot : Int, number : Nat, credit : Credit, done : Nat,
        moves : [Items -> Seq(Entry)], payment : Payment,
        held : SUBSET LockNames]

NoTxn == [stage |-> "idle", snapshot |-> 0, number |-> 0, credit |-> "ok", done |-> 0,
          moves |-> [i \in Items |-> <<>>], payment |-> "unpaid", held |-> {}]

TypeOK ==
    /\ row \in [Docs -> Row]
    /\ balance \in Int
    /\ last \in [Kinds -> Nat]
    /\ stock \in [Items -> Int]
    /\ ledger \in [Items -> Seq(Entry)]
    /\ txn \in [Docs -> Txn]
    /\ patch \in [Docs -> Row]
    /\ edit \in SUBSET Int
    /\ aborts \in 0..MaxAborts
    /\ edits \in 0..MaxEdits

Init ==
    /\ row = [d \in Docs |-> NoRow]
    /\ balance = 0
    /\ last = [k \in Kinds |-> 0]
    /\ stock = [i \in Items |-> 0]
    /\ ledger = [i \in Items |-> <<>>]
    /\ txn = [d \in Docs |-> NoTxn]
    /\ patch = [d \in Docs |-> NoRow]
    /\ edit = {}
    /\ aborts = 0
    /\ edits = 0

-----------------------------------------------------------------------------
(* Rows, locks and amounts *)

Exists(d) == row[d].state \in {"bare", "final"}
IsFinal(d) == row[d].state = "final"
Busy(d)   == txn[d].stage # "idle"

\* Another transaction does not hold the row's lock.
Free(d, r) == \A e \in Docs \ {d} : r \notin txn[e].held

Unlocked(r) == \A e \in Docs : r \notin txn[e].held

\* What the transaction of d reads of a stock row it has locked.
OnHand(d, i) ==
    LET m == txn[d].moves[i] IN IF m = <<>> THEN stock[i] ELSE m[Len(m)].after

\* grand_total is 0 until recompute_invoice.
GrandTotal(d) == IF IsFinal(d) THEN Doc[d].amount ELSE 0

\* A receipt with an allocation; a document that refers to an invoice.
Pays(d) == Doc[d].kind = "receipt" /\ Doc[d].allocated > 0
Refers(d) == Doc[d].kind = "credit_note" \/ Pays(d)

Allocated == [d \in Docs |-> Doc[d].allocated]

ReceiptsOf(inv) == {e \in Docs : Pays(e) /\ Doc[e].against = inv}

\* Mutant of PaidSoFar: a dirty read of the allocations of open transactions.
PaidSoFar_Dirty(d) ==
    SumFunctionOnSet(Allocated, {e \in ReceiptsOf(Doc[d].against) : Exists(e) \/ Busy(e)})

\* invoice.payment_allocations.all(), read by the transaction of receipt d.
PaidSoFar(d) ==
    SumFunctionOnSet(Allocated, {e \in ReceiptsOf(Doc[d].against) : Exists(e) \/ e = d})

\* Mutant of Breach: the amount of the new invoice is left out.
Breach_Before(d) == Doc[d].blocked \/ txn[d].snapshot > CreditLimit

\* credit_status: anything but "ok".
Breach(d) == Doc[d].blocked \/ txn[d].snapshot + Doc[d].amount > CreditLimit

\* Mutant of CreditOf: the raw result of credit_status is stored.
CreditOf_Raw(d) ==
    IF Doc[d].kind = "invoice" /\ Breach(d) THEN "over_limit" ELSE "ok"

CreditOf(d) ==
    IF Doc[d].kind = "invoice" /\ Breach(d)
    THEN IF Doc[d].override THEN "overridden" ELSE "pending_review"
    ELSE "ok"

\* What each document does to the outstanding balance.
Charge == [d \in Docs |-> IF Doc[d].kind = "invoice" THEN Doc[d].amount ELSE -Doc[d].amount]

-----------------------------------------------------------------------------
(* A request that creates a document *)

\* serializer.is_valid: the related rows are read, the customer's balance too.
Receive(d) ==
    /\ ~Busy(d)
    /\ row[d].state = "none"
    /\ Refers(d) => Exists(Doc[d].against)
    /\ Cardinality({e \in Docs : Busy(e)}) < MaxOpen
    /\ txn' = [txn EXCEPT ![d].stage = "valid", ![d].snapshot = balance]
    /\ UNCHANGED <<books, patch, edit, aborts, edits>>

\* Serializer.create up to the call of finalize: an online request commits the
\* row at once, a pushed one inserts it in the transaction PushView opened.
Create(d) ==
    /\ txn[d].stage = "valid"
    /\ Refers(d) => Exists(Doc[d].against)
    /\ row' = IF Doc[d].pushed THEN row ELSE [row EXCEPT ![d].state = "bare"]
    /\ txn' = [txn EXCEPT ![d].stage = "begun"]
    /\ UNCHANGED <<balance, last, stock, ledger, patch, edit, aborts, edits>>

\* Mutants of Number: the sequence row is read without a lock; the number is
\* one more than the number of documents there are.
Number_Unlocked(d) ==
    /\ txn[d].stage = "begun"
    /\ txn' = [txn EXCEPT ![d].stage  = "lines",
                          ![d].number = last[Doc[d].kind] + 1,
                          ![d].credit = CreditOf(d),
                          ![d].held   = @ \cup {InvoiceRow(d)}]
    /\ UNCHANGED <<books, patch, edit, aborts, edits>>

Number_Counted(d) ==
    LET k == Doc[d].kind IN
    /\ txn[d].stage = "begun"
    /\ Free(d, SeqRow(k))
    /\ Free(d, InvoiceRow(d))
    /\ txn' = [txn EXCEPT ![d].stage  = "lines",
                          ![d].number = 1 + Cardinality({e \in Docs : IsFinal(e) /\ Doc[e].kind = k}),
                          ![d].credit = CreditOf(d),
                          ![d].held   = @ \cup {SeqRow(k), InvoiceRow(d)}]
    /\ UNCHANGED <<books, patch, edit, aborts, edits>>

\* recompute and credit check, next_document_number, the save of the document.
Number(d) ==
    LET k == Doc[d].kind IN
    /\ txn[d].stage = "begun"
    /\ Free(d, SeqRow(k))
    /\ Free(d, InvoiceRow(d))
    /\ txn' = [txn EXCEPT ![d].stage  = "lines",
                          ![d].number = last[k] + 1,
                          ![d].credit = CreditOf(d),
                          ![d].held   = @ \cup {SeqRow(k), InvoiceRow(d)}]
    /\ UNCHANGED <<books, patch, edit, aborts, edits>>

\* Mutant of PostLine: VanStock is read without select_for_update.
PostLine_Unlocked(d) ==
    LET line == Doc[d].lines[txn[d].done + 1] IN
    /\ txn[d].stage = "lines"
    /\ txn[d].done < Len(Doc[d].lines)
    /\ txn' = [txn EXCEPT ![d].done = @ + 1,
                          ![d].moves[line.item] =
                              Append(@, [doc |-> d, qty |-> line.qty,
                                         after |-> OnHand(d, line.item) + line.qty])]
    /\ UNCHANGED <<books, patch, edit, aborts, edits>>

\* post_stock_movement for the next line.
PostLine(d) ==
    LET line  == Doc[d].lines[txn[d].done + 1]
        after == OnHand(d, line.item) + line.qty IN
    /\ txn[d].stage = "lines"
    /\ txn[d].done < Len(Doc[d].lines)
    /\ Free(d, StockRow(line.item))
    /\ txn' = [txn EXCEPT ![d].done = @ + 1,
                          ![d].moves[line.item] =
                              Append(@, [doc |-> d, qty |-> line.qty, after |-> after]),
                          ![d].held = @ \cup {StockRow(line.item)}]
    /\ UNCHANGED <<books, patch, edit, aborts, edits>>

LinesPosted(d) == txn[d].stage = "lines" /\ txn[d].done = Len(Doc[d].lines)

\* The lines of an invoice or a credit note are through, or there is no allocation.
EndLines(d) ==
    /\ LinesPosted(d)
    /\ ~Pays(d)
    /\ txn' = [txn EXCEPT ![d].stage = "posted"]
    /\ UNCHANGED <<books, patch, edit, aborts, edits>>

\* Mutant of ReadPaid: > instead of >=.
ReadPaid_Strict(d) ==
    /\ LinesPosted(d)
    /\ Pays(d)
    /\ Doc[d].allocated <= Doc[d].amount
    /\ txn' = [txn EXCEPT ![d].stage = "paying",
                          ![d].payment = IF PaidSoFar(d) > GrandTotal(Doc[d].against)
                                         THEN "paid" ELSE "partial"]
    /\ UNCHANGED <<books, patch, edit, aborts, edits>>

\* finalize_receipt adds up the allocations of the invoice ...
ReadPaid(d) ==
    /\ LinesPosted(d)
    /\ Pays(d)
    /\ Doc[d].allocated <= Doc[d].amount
    /\ txn' = [txn EXCEPT ![d].stage = "paying",
                          ![d].payment = IF PaidSoFar(d) >= GrandTotal(Doc[d].against)
                                         THEN "paid" ELSE "partial"]
    /\ UNCHANGED <<books, patch, edit, aborts, edits>>

\* ... and updates its payment_status, which waits for the row's lock.
WritePaid(d) ==
    /\ txn[d].stage = "paying"
    /\ Free(d, InvoiceRow(Doc[d].against))
    /\ txn' = [txn EXCEPT ![d].stage = "posted",
                          ![d].held = @ \cup {InvoiceRow(Doc[d].against)}]
    /\ UNCHANGED <<books, patch, edit, aborts, edits>>

Finalized(d) == [row[d] EXCEPT !.state = "final", !.number = txn[d].number,
                               !.credit = txn[d].credit]

\* Mutants of Commit: every document adds to the balance; a transaction that
\* is left open after its last statement.
Commit_Unsigned(d) ==
    /\ txn[d].stage = "posted"
    /\ balance' = txn[d].snapshot + Doc[d].amount
    /\ last' = [last EXCEPT ![Doc[d].kind] = txn[d].number]
    /\ stock' = [i \in Items |-> OnHand(d, i)]
    /\ ledger' = [i \in Items |-> ledger[i] \o txn[d].moves[i]]
    /\ row' = [row EXCEPT ![d] = Finalized(d)]
    /\ txn' = [txn EXCEPT ![d] = NoTxn]
    /\ UNCHANGED <<patch, edit, aborts, edits>>

Commit_Holding(d) ==
    /\ txn[d].stage = "posted"
    /\ balance' = txn[d].snapshot + Charge[d]
    /\ last' = [last EXCEPT ![Doc[d].kind] = txn[d].number]
    /\ stock' = [i \in Items |-> OnHand(d, i)]
    /\ ledger' = [i \in Items |-> ledger[i] \o txn[d].moves[i]]
    /\ row' = [row EXCEPT ![d] = Finalized(d)]
    /\ txn' = [txn EXCEPT ![d] = [NoTxn EXCEPT !.held = txn[d].held]]
    /\ UNCHANGED <<patch, edit, aborts, edits>>

\* The balance is saved and the transaction commits: all its writes show.
Commit(d) ==
    /\ txn[d].stage = "posted"
    /\ balance' = txn[d].snapshot + Charge[d]
    /\ last' = [last EXCEPT ![Doc[d].kind] = txn[d].number]
    /\ stock' = [i \in Items |-> OnHand(d, i)]
    /\ ledger' = [i \in Items |-> ledger[i] \o txn[d].moves[i]]
    /\ row' = IF Pays(d)
              THEN [row EXCEPT ![d] = Finalized(d),
                               ![Doc[d].against].payment = txn[d].payment]
              ELSE [row EXCEPT ![d] = Finalized(d)]
    /\ txn' = [txn EXCEPT ![d] = NoTxn]
    /\ UNCHANGED <<patch, edit, aborts, edits>>

\* Mutants of RollBack: post_stock_movement, or next_document_number, commits
\* on its own.
RollBack_Moves(d) ==
    /\ stock' = [i \in Items |-> OnHand(d, i)]
    /\ ledger' = [i \in Items |-> ledger[i] \o txn[d].moves[i]]
    /\ txn' = [txn EXCEPT ![d] = NoTxn]
    /\ UNCHANGED <<row, balance, last, patch, edit, edits>>

RollBack_Number(d) ==
    /\ last' = IF txn[d].number = 0 THEN last
               ELSE [last EXCEPT ![Doc[d].kind] = txn[d].number]
    /\ txn' = [txn EXCEPT ![d] = NoTxn]
    /\ UNCHANGED <<row, balance, stock, ledger, patch, edit, edits>>

RollBack(d) ==
    /\ txn' = [txn EXCEPT ![d] = NoTxn]
    /\ UNCHANGED <<books, patch, edit, edits>>

\* DomainError: allocations exceed the receipt; or the invoice is gone.
Refuse(d) ==
    /\ \/ LinesPosted(d) /\ Pays(d) /\ Doc[d].allocated > Doc[d].amount
       \/ /\ txn[d].stage = "valid"
          /\ Refers(d) /\ ~Exists(Doc[d].against)
    /\ RollBack(d)
    /\ UNCHANGED aborts

\* The process or the connection dies.
Abort(d) ==
    /\ Busy(d)
    /\ aborts < MaxAborts
    /\ aborts' = aborts + 1
    /\ RollBack(d)

-----------------------------------------------------------------------------
(* PostgreSQL: a transaction of a wait-for cycle is aborted *)

\* d waits for a lock that e holds.
WaitsFor(d, e) ==
    /\ e # d
    /\ \/ txn[d].stage = "begun" /\ {SeqRow(Doc[d].kind), InvoiceRow(d)} \cap txn[e].held # {}
       \/ /\ txn[d].stage = "lines" /\ txn[d].done < Len(Doc[d].lines)
          /\ StockRow(Doc[d].lines[txn[d].done + 1].item) \in txn[e].held
       \/ txn[d].stage = "paying" /\ InvoiceRow(Doc[d].against) \in txn[e].held

\* d is on a cycle of the wait-for relation.
Deadlocked(d) ==
    \E S \in SUBSET Docs :
        /\ d \in S
        /\ \A x \in S : (\E y \in S : WaitsFor(x, y)) /\ (\E y \in S : WaitsFor(y, x))

DeadlockVictim(d) ==
    /\ Deadlocked(d)
    /\ RollBack(d)
    /\ UNCHANGED aborts

-----------------------------------------------------------------------------
(* Other requests on the same rows *)

Edit(kind) ==
    /\ kind \in Edits
    /\ edits < MaxEdits
    /\ edits' = edits + 1

\* PATCH of an invoice (the signature upload): get_object reads the whole row ...
ReadInvoice(d) ==
    /\ Edit("signature")
    /\ Doc[d].kind = "invoice" /\ IsFinal(d) /\ patch[d] = NoRow
    /\ patch' = [patch EXCEPT ![d] = row[d]]
    /\ UNCHANGED <<books, txn, edit, aborts>>

\* ... and ModelSerializer.update saves every field of it: save() inserts the
\* row again if it has been deleted.
SaveInvoice(d) ==
    /\ patch[d] # NoRow
    /\ Unlocked(InvoiceRow(d))
    /\ row' = [row EXCEPT ![d] = patch[d]]
    /\ patch' = [patch EXCEPT ![d] = NoRow]
    /\ UNCHANGED <<balance, last, stock, ledger, txn, edit, aborts, edits>>

\* PATCH of the customer: the same two steps on the customer row.
ReadCustomer ==
    /\ Edit("customer")
    /\ edit' = edit \cup {balance}
    /\ UNCHANGED <<books, txn, patch, aborts>>

SaveCustomer(b) ==
    /\ b \in edit
    /\ balance' = b
    /\ edit' = edit \ {b}
    /\ UNCHANGED <<row, last, stock, ledger, txn, patch, aborts, edits>>

\* approve_credit: update_fields, whatever credit_check_status says.
ApproveCredit(d) ==
    /\ Edit("approve")
    /\ Doc[d].kind = "invoice" /\ Exists(d)
    /\ Unlocked(InvoiceRow(d))
    /\ row' = [row EXCEPT ![d].credit = "overridden"]
    /\ UNCHANGED <<balance, last, stock, ledger, txn, patch, edit, aborts>>

\* DELETE of a document: ModelViewSet.destroy; an invoice is PROTECTed by the
\* allocations and credit notes that refer to it.
Destroy(d) ==
    /\ Edit("destroy")
    /\ Exists(d) /\ ~Busy(d) /\ Unlocked(InvoiceRow(d))
    /\ \A e \in Docs : Refers(e) /\ Doc[e].against = d
          => ~Exists(e) /\ txn[e].stage \in {"idle", "valid"}
    /\ row' = [row EXCEPT ![d].state = "deleted"]
    /\ UNCHANGED <<balance, last, stock, ledger, txn, patch, edit, aborts>>

-----------------------------------------------------------------------------

Step(d) == \/ Create(d) \/ Number(d) \/ PostLine(d) \/ EndLines(d)
           \/ ReadPaid(d) \/ WritePaid(d) \/ Commit(d) \/ Refuse(d)

EditStep(d) == ReadInvoice(d) \/ SaveInvoice(d) \/ ApproveCredit(d) \/ Destroy(d)

Next ==
    \/ \E d \in Docs : Receive(d) \/ Step(d) \/ Abort(d) \/ DeadlockVictim(d) \/ EditStep(d)
    \/ ReadCustomer
    \/ \E b \in edit : SaveCustomer(b)

Spec == Init /\ [][Next]_vars

\* A request that is not waiting goes on, and PostgreSQL's deadlock detector runs.
Fairness == \A d \in Docs : SF_vars(Step(d)) /\ WF_vars(DeadlockVictim(d))

FairSpec == Spec /\ Fairness

-----------------------------------------------------------------------------
(* Safety *)

\* The number of a document that was finalized, even if deleted since.
Numbered(d) == row[d].number # 0

\* VanStock is the running total of the ledger: the entries of concurrent
\* finalizations form one chain of balances that ends in qty_on_hand, so no
\* movement is lost or counted twice whichever order their lines lock the rows.
LedgerExplainsStock ==
    \A i \in Items :
        LET l == ledger[i]
            After(n) == IF n = 0 THEN 0 ELSE l[n].after IN
        /\ stock[i] = After(Len(l))
        /\ \A n \in 1..Len(l) : l[n].after = After(n - 1) + l[n].qty

\* Where the movements of d are in the ledger of i, and its lines for i.
EntriesOf(d, i) == {n \in DOMAIN ledger[i] : ledger[i][n].doc = d}
LinesOf(d, i)   == {n \in DOMAIN Doc[d].lines : Doc[d].lines[n].item = i}

\* The entries of l at P move what the lines of d at L say, each once and in order.
InOrder(l, P, d, L) ==
    \E line \in [P -> L] :
        /\ \A n \in L : \E p \in P : line[p] = n
        /\ \A p, q \in P : p < q => line[p] < line[q]
        /\ \A p \in P : l[p].qty = Doc[d].lines[line[p]].qty

\* A document's stock movements are all in the ledger, each once and in order,
\* if it got its number, and none of them is otherwise: no crash, deadlock,
\* refusal or retry of a request leaves half of it behind.
PostedWhole ==
    \A d \in Docs, i \in Items :
        IF Numbered(d) THEN InOrder(ledger[i], EntriesOf(d, i), d, LinesOf(d, i))
        ELSE EntriesOf(d, i) = {}

\* next_document_number never hands out a number twice, not to concurrent
\* transactions and not after one of them was rolled back or deleted.
NumbersUnique ==
    \A d, e \in Docs :
        d # e /\ Doc[d].kind = Doc[e].kind /\ Numbered(d) => row[d].number # row[e].number

\* A series has no gaps: a number taken by a transaction that dies is reused.
SeriesGapless ==
    \A k \in Kinds : \A n \in 1..last[k] :
        \E d \in Docs : Doc[d].kind = k /\ IsFinal(d) /\ row[d].number = n

\* With pushed documents an invoice is never shown as paid unless finalized
\* receipts cover it: allocations of other open transactions are not counted.
PaidMeansCovered ==
    \A d \in Docs :
        Doc[d].kind = "invoice" /\ IsFinal(d) /\ row[d].payment = "paid" =>
            SumFunctionOnSet(Allocated, {e \in ReceiptsOf(d) : IsFinal(e)}) >= Doc[d].amount

Posted == {d \in Docs : IsFinal(d)}

\* Customer.outstanding_balance is the sum of the invoices less the receipts
\* and credit notes.
BalanceExact == balance = SumFunctionOnSet(Charge, Posted)

\* payment_status is what the allocations of the finalized receipts say.
PaymentStatusExact ==
    \A d \in Docs :
        Doc[d].kind = "invoice" /\ IsFinal(d) =>
            LET paying == {e \in ReceiptsOf(d) : IsFinal(e)} IN
            row[d].payment =
                IF paying = {} THEN "unpaid"
                ELSE IF SumFunctionOnSet(Allocated, paying) >= Doc[d].amount
                THEN "paid" ELSE "partial"

\* An invoice of a blocked customer, or one that takes the customer over the credit
\* limit, is flagged for review, or overridden, when it is finalized.
BreachFlagged ==
    [][\A d \in Docs :
          /\ Doc[d].kind = "invoice"
          /\ ~Numbered(d) /\ Numbered(d)'
          /\ Doc[d].blocked \/ SumFunctionOnSet(Charge, Posted') > CreditLimit
          => row'[d].credit # "ok"]_vars

-----------------------------------------------------------------------------
(* The abstract specification: documents are entered in a book one by one *)

Book == INSTANCE DocumentBook
            WITH entered <- {d \in Docs : Numbered(d)},
                 number  <- [d \in Docs |-> row[d].number]

\* The interleaved, abortable, lock-by-lock finalizations act as if each
\* document were entered in one step, in the order of their commits.
ImplementsBook == Book!Spec

-----------------------------------------------------------------------------
(* Liveness *)

\* Every request is answered, although documents lock the rows of their items
\* in different orders and may deadlock.
EveryRequestAnswered == \A d \in Docs : Busy(d) ~> ~Busy(d)
=============================================================================
