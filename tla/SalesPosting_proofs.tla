------------------------- MODULE SalesPosting_proofs -------------------------
(***************************************************************************)
(* Theorems about SalesPosting, for any documents, lines, amounts, items,  *)
(* credit limit, and any number of requests, deaths and edits.             *)
(***************************************************************************)
EXTENDS SalesPosting, SequenceTheorems, Sums

\* Nobody else holds a lock that a transaction holds.
LocksExclude ==
    \A d, e \in Docs : \A r : d # e /\ r \in txn[d].held => r \notin txn[e].held

\* A transaction that has passed next_document_number holds the sequence row
\* and the number after the last one that was committed.
NumberHeld ==
    \A d \in Docs :
        txn[d].stage \in {"lines", "paying", "posted"} =>
            /\ SeqRow(Doc[d].kind) \in txn[d].held
            /\ txn[d].number = last[Doc[d].kind] + 1

\* Numbers are handed out upwards, only by a commit, and survive a re-save.
RowsNumbered ==
    \A d \in Docs :
        /\ row[d].number <= last[Doc[d].kind]
        /\ row[d].state \in {"none", "bare"} => row[d].number = 0
        /\ txn[d].stage # "idle" => row[d].state \in {"none", "bare"}
        /\ patch[d] # NoRow =>
              /\ patch[d].state = "final"
              /\ row[d].state \in {"final", "deleted"}
              /\ patch[d].number = row[d].number

\* l is a chain of running totals that begins at b, and ends at EndOf(l, b).
Chain(l, b) ==
    \A n \in 1..Len(l) : l[n].after = (IF n = 1 THEN b ELSE l[n - 1].after) + l[n].qty

EndOf(l, b) == IF l = <<>> THEN b ELSE l[Len(l)].after

\* The ledger is such a chain from zero to the stock, and what an open
\* transaction has moved, under the lock of the stock row, continues it.
LedgerChained ==
    \A i \in Items : Chain(ledger[i], 0) /\ stock[i] = EndOf(ledger[i], 0)

MovesChained ==
    \A d \in Docs, i \in Items :
        /\ txn[d].moves[i] # <<>> => StockRow(i) \in txn[d].held
        /\ Chain(txn[d].moves[i], stock[i])

\* The inductive invariant.
BooksInv ==
    /\ TypeOK
    /\ LocksExclude
    /\ NumberHeld
    /\ RowsNumbered
    /\ NumbersUnique
    /\ LedgerChained
    /\ MovesChained

USE SalesPostingAssumption DEF SalesPostingAssumption

-----------------------------------------------------------------------------
(* Types *)

Line == [item : Items, qty : Int]

LEMMA DocTypes ==
    ASSUME NEW d \in Docs
    PROVE  /\ Doc[d].kind \in Kinds
           /\ Doc[d].amount \in Nat
           /\ Doc[d].against \in Docs
           /\ Doc[d].lines \in Seq(Line)
BY DEF Request, Line

LEMMA NoRowType == NoRow \in Row
BY DEF NoRow, Row, Credit, Payment

LEMMA NoTxnType == NoTxn \in Txn
BY DEF NoTxn, Txn, Credit, Payment

LEMMA LockTypes ==
    /\ \A d \in Docs : InvoiceRow(d) \in LockNames /\ SeqRow(Doc[d].kind) \in LockNames
    /\ \A i \in Items : StockRow(i) \in LockNames
BY DocTypes DEF LockNames, InvoiceRow, SeqRow, StockRow

LEMMA OnHandType ==
    ASSUME TypeOK, NEW d \in Docs, NEW i \in Items
    PROVE  OnHand(d, i) \in Int
<1> DEFINE m == txn[d].moves[i]
<1>1. m \in Seq(Entry) /\ stock[i] \in Int
  BY DEF TypeOK, Txn
<1>2. CASE m = <<>>
  BY <1>1, <1>2 DEF OnHand
<1>3. CASE m # <<>>
  <2>1. m[Len(m)] \in Entry
    BY <1>1, <1>3
  <2> QED
    BY <1>3, <2>1 DEF OnHand, Entry
<1> QED
  BY <1>2, <1>3

LEMMA ChargeType ==
    ASSUME NEW d \in Docs
    PROVE  Charge[d] \in Int
BY DocTypes DEF Charge

LEMMA CreditType ==
    ASSUME NEW d \in Docs
    PROVE  CreditOf(d) \in Credit
BY DEF CreditOf, Credit

\* The next line of a document and the stock row it moves.
LEMMA LineTypes ==
    ASSUME NEW d \in Docs, NEW n \in Nat, n < Len(Doc[d].lines)
    PROVE  /\ Doc[d].lines[n + 1].item \in Items
           /\ Doc[d].lines[n + 1].qty \in Int
<1>1. Doc[d].lines \in Seq(Line)
  BY DocTypes
<1>2. n + 1 \in 1..Len(Doc[d].lines)
  BY <1>1, LenProperties
<1>3. Doc[d].lines[n + 1] \in Line
  BY <1>1, <1>2, ElementOfSeq
<1> QED
  BY <1>3 DEF Line

THEOREM InitTypes == Init => TypeOK
BY NoRowType, NoTxnType DEF Init, TypeOK

\* A step that writes only the transaction of one document.
LEMMA TxnStepTypes ==
    ASSUME TypeOK, NEW d \in Docs, NEW t \in Txn, txn' = [txn EXCEPT ![d] = t],
           UNCHANGED <<books, patch, edit, edits>>, aborts' \in 0..MaxAborts
    PROVE  TypeOK'
BY DEF TypeOK, books

LEMMA ReceiveTypes == ASSUME TypeOK, NEW d \in Docs, Receive(d) PROVE TypeOK'
<1>1. [txn[d] EXCEPT !.stage = "valid", !.snapshot = balance] \in Txn
  BY DEF TypeOK, Txn
<1>2. txn' = [txn EXCEPT ![d] = [txn[d] EXCEPT !.stage = "valid", !.snapshot = balance]]
  BY DEF TypeOK, Receive
<1> QED
  BY <1>1, <1>2, TxnStepTypes DEF Receive, TypeOK

LEMMA CreateTypes == ASSUME TypeOK, NEW d \in Docs, Create(d) PROVE TypeOK'
<1>1. row' \in [Docs -> Row]
  BY DEF TypeOK, Create, Row
<1>2. [txn[d] EXCEPT !.stage = "begun"] \in Txn
  BY DEF TypeOK, Txn
<1>3. txn' \in [Docs -> Txn]
  BY <1>2 DEF TypeOK, Create
<1> QED
  BY <1>1, <1>3 DEF TypeOK, Create

\* The fields that number_document and post_stock_movement write.
LEMMA NumberedTxn ==
    ASSUME NEW t \in Txn, NEW n \in Nat, NEW c \in Credit, NEW h \in SUBSET LockNames
    PROVE  [t EXCEPT !.stage = "lines", !.number = n, !.credit = c, !.held = h] \in Txn
BY DEF Txn

LEMMA MovedTxn ==
    ASSUME NEW t \in Txn, NEW n \in Nat, NEW m \in [Items -> Seq(Entry)],
           NEW h \in SUBSET LockNames
    PROVE  [t EXCEPT !.done = n, !.moves = m, !.held = h] \in Txn
BY DEF Txn

LEMMA NumberTypes == ASSUME TypeOK, NEW d \in Docs, Number(d) PROVE TypeOK'
<1> DEFINE k == Doc[d].kind
           t == [txn[d] EXCEPT !.stage = "lines", !.number = last[k] + 1,
                               !.credit = CreditOf(d),
                               !.held = txn[d].held \cup {SeqRow(k), InvoiceRow(d)}]
<1>1. txn[d] \in Txn /\ last[k] \in Nat
  BY DocTypes DEF TypeOK
<1>2. txn[d].held \cup {SeqRow(k), InvoiceRow(d)} \in SUBSET LockNames
  BY <1>1, LockTypes DEF Txn
<1>3. t \in Txn
  <2>1. last[k] + 1 \in Nat /\ CreditOf(d) \in Credit
    BY <1>1, CreditType
  <2> QED
    BY <1>1, <1>2, <2>1, NumberedTxn
<1>4. txn' = [txn EXCEPT ![d] = t]
  BY DEF TypeOK, Number
<1> QED
  BY <1>3, <1>4, TxnStepTypes DEF Number, TypeOK

LEMMA PostLineTypes == ASSUME TypeOK, NEW d \in Docs, PostLine(d) PROVE TypeOK'
<1> DEFINE line  == Doc[d].lines[txn[d].done + 1]
           e     == [doc |-> d, qty |-> line.qty, after |-> OnHand(d, line.item) + line.qty]
           moved == [txn[d].moves EXCEPT ![line.item] = Append(@, e)]
           held  == txn[d].held \cup {StockRow(line.item)}
           t     == [txn[d] EXCEPT !.done = txn[d].done + 1, !.moves = moved, !.held = held]
<1>1. txn[d] \in Txn
  BY DEF TypeOK
<1>2. line.item \in Items /\ line.qty \in Int
  BY <1>1, LineTypes DEF PostLine, Txn
<1>3. e \in Entry
  BY <1>2, OnHandType DEF Entry
<1>4. Append(txn[d].moves[line.item], e) \in Seq(Entry)
  BY <1>1, <1>2, <1>3 DEF Txn
<1>5. held \in SUBSET LockNames
  BY <1>1, <1>2, LockTypes DEF Txn
<1>6. moved \in [Items -> Seq(Entry)]
  BY <1>1, <1>2, <1>4 DEF Txn
<1>7. t \in Txn
  <2>1. txn[d].done + 1 \in Nat
    BY <1>1 DEF Txn
  <2> HIDE DEF e, line, moved, held
  <2> QED
    BY <1>1, <1>5, <1>6, <2>1, MovedTxn
<1>8. txn' = [txn EXCEPT ![d] = t]
  BY DEF TypeOK, PostLine
<1> QED
  BY <1>7, <1>8, TxnStepTypes DEF PostLine, TypeOK

LEMMA EndLinesTypes == ASSUME TypeOK, NEW d \in Docs, EndLines(d) PROVE TypeOK'
<1>1. [txn[d] EXCEPT !.stage = "posted"] \in Txn
  BY DEF TypeOK, Txn
<1>2. txn' = [txn EXCEPT ![d] = [txn[d] EXCEPT !.stage = "posted"]]
  BY DEF TypeOK, EndLines
<1> QED
  BY <1>1, <1>2, TxnStepTypes DEF EndLines, TypeOK

LEMMA ReadPaidTypes == ASSUME TypeOK, NEW d \in Docs, ReadPaid(d) PROVE TypeOK'
<1> DEFINE p == IF PaidSoFar(d) >= GrandTotal(Doc[d].against) THEN "paid" ELSE "partial"
<1>1. p \in Payment
  BY DEF Payment
<1> HIDE DEF p
<1>2. [txn[d] EXCEPT !.stage = "paying", !.payment = p] \in Txn
  BY <1>1 DEF TypeOK, Txn
<1>3. txn' = [txn EXCEPT ![d] = [txn[d] EXCEPT !.stage = "paying", !.payment = p]]
  BY DEF TypeOK, ReadPaid, p
<1> QED
  BY <1>2, <1>3, TxnStepTypes DEF ReadPaid, TypeOK

LEMMA WritePaidTypes == ASSUME TypeOK, NEW d \in Docs, WritePaid(d) PROVE TypeOK'
<1> DEFINE t == [txn[d] EXCEPT !.stage = "posted", !.held = @ \cup {InvoiceRow(Doc[d].against)}]
<1>1. txn[d].held \cup {InvoiceRow(Doc[d].against)} \in SUBSET LockNames
  BY LockTypes, DocTypes DEF TypeOK, Txn
<1>2. t \in Txn
  BY <1>1 DEF TypeOK, Txn
<1>3. txn' = [txn EXCEPT ![d] = t]
  BY DEF TypeOK, WritePaid
<1> QED
  BY <1>2, <1>3, TxnStepTypes DEF WritePaid, TypeOK

\* The row a commit writes for its own document, and for any other.
LEMMA CommitRows ==
    ASSUME TypeOK, NEW d \in Docs, Commit(d), NEW e \in Docs
    PROVE  /\ row'[e].state  = IF e = d THEN "final" ELSE row[e].state
           /\ row'[e].number = IF e = d THEN txn[d].number ELSE row[e].number
           /\ row'[e] \in Row
<1>1. Finalized(d) \in Row /\ Finalized(d).state = "final" /\ Finalized(d).number = txn[d].number
  BY DEF Finalized, TypeOK, Row, Txn
<1>2. txn[d].payment \in Payment /\ Doc[d].against \in Docs /\ row \in [Docs -> Row]
  BY DocTypes DEF TypeOK, Txn
<1>3. CASE ~Pays(d)
  BY <1>1, <1>2, <1>3 DEF Commit
<1>4. CASE Pays(d)
  <2>1. row' = [row EXCEPT ![d] = Finalized(d), ![Doc[d].against].payment = txn[d].payment]
    BY <1>4 DEF Commit
  <2>2. CASE e # Doc[d].against
    BY <1>1, <1>2, <2>1, <2>2
  <2>3. CASE e = Doc[d].against /\ e # d
    <3>1. row'[e] = [row[e] EXCEPT !.payment = txn[d].payment]
      BY <1>2, <2>1, <2>3
    <3> QED
      BY <1>2, <2>3, <3>1 DEF Row
  <2>4. CASE e = Doc[d].against /\ e = d
    <3>1. row'[e] = [Finalized(d) EXCEPT !.payment = txn[d].payment]
      BY <1>2, <2>1, <2>4
    <3> QED
      BY <1>1, <1>2, <2>4, <3>1 DEF Row
  <2> QED
    BY <2>2, <2>3, <2>4
<1> QED
  BY <1>3, <1>4

LEMMA CommitTypes == ASSUME TypeOK, NEW d \in Docs, Commit(d) PROVE TypeOK'
<1>1. balance' \in Int
  BY ChargeType DEF Commit, TypeOK, Txn
<1>2. last' \in [Kinds -> Nat]
  BY DEF Commit, TypeOK, Txn
<1>3. stock' \in [Items -> Int]
  BY OnHandType DEF Commit
<1>4. ledger' \in [Items -> Seq(Entry)]
  BY DEF Commit, TypeOK, Txn
<1>5. DOMAIN row' = Docs /\ row' = [e \in DOMAIN row' |-> row'[e]]
  BY DEF Commit, TypeOK
<1>6. row' \in [Docs -> Row]
  BY <1>5, CommitRows
<1>7. txn' \in [Docs -> Txn]
  BY NoTxnType DEF Commit, TypeOK
<1> QED
  BY <1>1, <1>2, <1>3, <1>4, <1>6, <1>7 DEF Commit, TypeOK

LEMMA RollBackTypes ==
    ASSUME TypeOK, NEW d \in Docs, RollBack(d), aborts' \in 0..MaxAborts
    PROVE  TypeOK'
BY NoTxnType, TxnStepTypes DEF RollBack

LEMMA EditStepTypes == ASSUME TypeOK, NEW d \in Docs, EditStep(d) PROVE TypeOK'
<1>1. CASE ReadInvoice(d)
  BY <1>1 DEF ReadInvoice, Edit, TypeOK, books
<1>2. CASE SaveInvoice(d)
  BY <1>2, NoRowType DEF SaveInvoice, TypeOK
<1>3. CASE ApproveCredit(d)
  <2>1. [row[d] EXCEPT !.credit = "overridden"] \in Row
    BY DEF TypeOK, Row, Credit
  <2> QED
    BY <1>3, <2>1 DEF ApproveCredit, Edit, TypeOK
<1>4. CASE Destroy(d)
  <2>1. [row[d] EXCEPT !.state = "deleted"] \in Row
    BY DEF TypeOK, Row
  <2> QED
    BY <1>4, <2>1 DEF Destroy, Edit, TypeOK
<1> QED
  BY <1>1, <1>2, <1>3, <1>4 DEF EditStep

LEMMA TypeStep == TypeOK /\ [Next]_vars => TypeOK'
<1> SUFFICES ASSUME TypeOK, [Next]_vars PROVE TypeOK'
  OBVIOUS
<1>1. ASSUME NEW d \in Docs, Receive(d) PROVE TypeOK'
  BY <1>1, ReceiveTypes
<1>2. ASSUME NEW d \in Docs, Step(d) PROVE TypeOK'
  <2>1. CASE Refuse(d)
    BY <2>1, RollBackTypes DEF Refuse, TypeOK
  <2> QED
    BY <1>2, <2>1, CreateTypes, NumberTypes, PostLineTypes, EndLinesTypes, ReadPaidTypes,
       WritePaidTypes, CommitTypes DEF Step
<1>3. ASSUME NEW d \in Docs, Abort(d) PROVE TypeOK'
  BY <1>3, RollBackTypes DEF Abort, TypeOK
<1>4. ASSUME NEW d \in Docs, DeadlockVictim(d) PROVE TypeOK'
  BY <1>4, RollBackTypes DEF DeadlockVictim, TypeOK
<1>5. ASSUME NEW d \in Docs, EditStep(d) PROVE TypeOK'
  BY <1>5, EditStepTypes
<1>6. CASE ReadCustomer
  BY <1>6 DEF ReadCustomer, Edit, TypeOK, books
<1>7. ASSUME NEW b \in edit, SaveCustomer(b) PROVE TypeOK'
  BY <1>7 DEF SaveCustomer, TypeOK
<1>8. CASE UNCHANGED vars
  BY <1>8 DEF vars, TypeOK
<1> QED
  BY <1>1, <1>2, <1>3, <1>4, <1>5, <1>6, <1>7, <1>8 DEF Next

\* Every reachable state is within the types, whatever the documents and bounds.
THEOREM TypeCorrect == Spec => []TypeOK
<1>1. Init => TypeOK
  BY InitTypes
<1> QED
  BY <1>1, TypeStep, PTL DEF Spec

-----------------------------------------------------------------------------
(* Which steps write what *)

\* The rows of documents.
LEMMA RowWriters ==
    ASSUME [Next]_vars
    PROVE  \/ \E d \in Docs : Create(d) \/ Commit(d) \/ SaveInvoice(d) \/ ApproveCredit(d) \/ Destroy(d)
           \/ UNCHANGED row
<1>1. ASSUME NEW d \in Docs, \/ Receive(d) \/ Number(d) \/ PostLine(d) \/ EndLines(d) \/ ReadPaid(d)
                             \/ WritePaid(d)
      PROVE  UNCHANGED row
  BY <1>1 DEF Receive, Number, PostLine, EndLines, ReadPaid, WritePaid, books
<1>2. ASSUME NEW d \in Docs, Refuse(d) \/ Abort(d) \/ DeadlockVictim(d) \/ ReadInvoice(d)
      PROVE  UNCHANGED row
  BY <1>2 DEF Refuse, Abort, DeadlockVictim, RollBack, ReadInvoice, books
<1>3. CASE ReadCustomer \/ (\E b \in edit : SaveCustomer(b)) \/ UNCHANGED vars
  BY <1>3 DEF ReadCustomer, SaveCustomer, vars, books
<1> QED BY <1>1, <1>2, <1>3 DEF Next, Step, EditStep

\* The series, the stock and the ledger are written by commits only.
LEMMA BookWriters ==
    ASSUME [Next]_vars, \A d \in Docs : ~Commit(d)
    PROVE  UNCHANGED <<last, stock, ledger>>
<1>1. ASSUME NEW d \in Docs, \/ Receive(d) \/ Create(d) \/ Number(d) \/ PostLine(d) \/ EndLines(d)
                             \/ ReadPaid(d) \/ WritePaid(d)
      PROVE  UNCHANGED <<last, stock, ledger>>
  BY <1>1 DEF Receive, Create, Number, PostLine, EndLines, ReadPaid, WritePaid, books
<1>2. ASSUME NEW d \in Docs, Refuse(d) \/ Abort(d) \/ DeadlockVictim(d) \/ EditStep(d)
      PROVE  UNCHANGED <<last, stock, ledger>>
  BY <1>2 DEF Refuse, Abort, DeadlockVictim, RollBack, EditStep, ReadInvoice, SaveInvoice,
     ApproveCredit, Destroy, books
<1>3. CASE ReadCustomer \/ (\E b \in edit : SaveCustomer(b)) \/ UNCHANGED vars
  BY <1>3 DEF ReadCustomer, SaveCustomer, vars, books
<1> QED BY <1>1, <1>2, <1>3 DEF Next, Step

\* The balance is written by commits and by customer edits.
LEMMA BalanceWriters ==
    ASSUME [Next]_vars, \A d \in Docs : ~Commit(d), \A b \in edit : ~SaveCustomer(b)
    PROVE  UNCHANGED balance
<1>1. ASSUME NEW d \in Docs, \/ Receive(d) \/ Create(d) \/ Number(d) \/ PostLine(d) \/ EndLines(d)
                             \/ ReadPaid(d) \/ WritePaid(d)
      PROVE  UNCHANGED balance
  BY <1>1 DEF Receive, Create, Number, PostLine, EndLines, ReadPaid, WritePaid, books
<1>2. ASSUME NEW d \in Docs, Refuse(d) \/ Abort(d) \/ DeadlockVictim(d) \/ EditStep(d)
      PROVE  UNCHANGED balance
  BY <1>2 DEF Refuse, Abort, DeadlockVictim, RollBack, EditStep, ReadInvoice, SaveInvoice,
     ApproveCredit, Destroy, books
<1>3. CASE ReadCustomer \/ UNCHANGED vars
  BY <1>3 DEF ReadCustomer, vars, books
<1> QED BY <1>1, <1>2, <1>3 DEF Next, Step

\* The copies of an invoice are taken and saved by signature edits only.
LEMMA PatchWriters ==
    ASSUME [Next]_vars
    PROVE  (\E d \in Docs : ReadInvoice(d) \/ SaveInvoice(d)) \/ UNCHANGED patch
<1>1. ASSUME NEW d \in Docs, \/ Receive(d) \/ Create(d) \/ Number(d) \/ PostLine(d) \/ EndLines(d)
                             \/ ReadPaid(d) \/ WritePaid(d) \/ Commit(d)
      PROVE  UNCHANGED patch
  BY <1>1 DEF Receive, Create, Number, PostLine, EndLines, ReadPaid, WritePaid, Commit
<1>2. ASSUME NEW d \in Docs, Refuse(d) \/ Abort(d) \/ DeadlockVictim(d) \/ ApproveCredit(d) \/ Destroy(d)
      PROVE  UNCHANGED patch
  BY <1>2 DEF Refuse, Abort, DeadlockVictim, RollBack, ApproveCredit, Destroy
<1>3. CASE ReadCustomer \/ (\E b \in edit : SaveCustomer(b)) \/ UNCHANGED vars
  BY <1>3 DEF ReadCustomer, SaveCustomer, vars
<1> QED BY <1>1, <1>2, <1>3 DEF Next, Step, EditStep

-----------------------------------------------------------------------------
(* Locks *)

\* Only the transaction of d changes.
OthersKeep(d) == \A e \in Docs \ {d} : txn'[e] = txn[e]

\* A transaction that adds free locks, or gives all of its locks back.
LEMMA LockStep ==
    ASSUME LocksExclude, NEW d \in Docs, OthersKeep(d),
           \A r \in txn'[d].held : r \in txn[d].held \/ Free(d, r)
    PROVE  LocksExclude'
BY DEF LocksExclude, OthersKeep, Free

\* What every step of a transaction other than its commit does to the transaction.
LEMMA TxnEffect ==
    ASSUME TypeOK, NEW d \in Docs, Receive(d) \/ Step(d) \/ Abort(d) \/ DeadlockVictim(d)
    PROVE  OthersKeep(d)
<1>1. CASE Refuse(d) \/ Abort(d) \/ DeadlockVictim(d)
  BY <1>1 DEF OthersKeep, Refuse, Abort, DeadlockVictim, RollBack, TypeOK
<1>2. CASE Receive(d) \/ Create(d) \/ Number(d) \/ PostLine(d)
  BY <1>2 DEF OthersKeep, Receive, Create, Number, PostLine, TypeOK
<1>3. CASE EndLines(d) \/ ReadPaid(d) \/ WritePaid(d) \/ Commit(d)
  BY <1>3 DEF OthersKeep, EndLines, ReadPaid, WritePaid, Commit, TypeOK
<1> QED
  BY <1>1, <1>2, <1>3 DEF Step

\* How the stage, the number and the locks of the transaction of d change.
LEMMA ReceiveEffect ==
    ASSUME TypeOK, NEW d \in Docs, Receive(d)
    PROVE  /\ txn'[d].stage = "valid" /\ txn'[d].held = txn[d].held
           /\ txn'[d].moves = txn[d].moves
BY DEF Receive, TypeOK, Txn

LEMMA CreateEffect ==
    ASSUME TypeOK, NEW d \in Docs, Create(d)
    PROVE  /\ txn[d].stage = "valid" /\ txn'[d].stage = "begun"
           /\ txn'[d].held = txn[d].held /\ txn'[d].moves = txn[d].moves
BY DEF Create, TypeOK, Txn

LEMMA NumberEffect ==
    ASSUME TypeOK, NEW d \in Docs, Number(d)
    PROVE  /\ txn[d].stage = "begun" /\ txn'[d].stage = "lines"
           /\ txn'[d].number = last[Doc[d].kind] + 1
           /\ txn'[d].held = txn[d].held \cup {SeqRow(Doc[d].kind), InvoiceRow(d)}
           /\ txn'[d].moves = txn[d].moves
BY DEF Number, TypeOK, Txn

LEMMA PostLineEffect ==
    ASSUME TypeOK, NEW d \in Docs, PostLine(d)
    PROVE  /\ txn[d].stage = "lines" /\ txn'[d].stage = "lines"
           /\ txn'[d].number = txn[d].number
           /\ txn'[d].held = txn[d].held \cup {StockRow(Doc[d].lines[txn[d].done + 1].item)}
BY DEF PostLine, TypeOK, Txn

LEMMA EndLinesEffect ==
    ASSUME TypeOK, NEW d \in Docs, EndLines(d) \/ ReadPaid(d)
    PROVE  /\ txn[d].stage = "lines" /\ txn'[d].stage \in {"posted", "paying"}
           /\ txn'[d].number = txn[d].number /\ txn'[d].held = txn[d].held
           /\ txn'[d].moves = txn[d].moves
BY DEF EndLines, ReadPaid, LinesPosted, TypeOK, Txn

LEMMA WritePaidEffect ==
    ASSUME TypeOK, NEW d \in Docs, WritePaid(d)
    PROVE  /\ txn[d].stage = "paying" /\ txn'[d].stage = "posted"
           /\ txn'[d].number = txn[d].number
           /\ txn'[d].held = txn[d].held \cup {InvoiceRow(Doc[d].against)}
           /\ txn'[d].moves = txn[d].moves
BY DEF WritePaid, TypeOK, Txn

LEMMA EndEffect ==
    ASSUME TypeOK, NEW d \in Docs,
           Refuse(d) \/ Abort(d) \/ DeadlockVictim(d) \/ Commit(d)
    PROVE  /\ txn'[d].stage = "idle" /\ txn'[d].held = {}
           /\ txn'[d].moves = [i \in Items |-> <<>>]
<1>1. txn'[d] = NoTxn
  BY DEF Refuse, Abort, DeadlockVictim, RollBack, Commit, TypeOK
<1> QED
  BY <1>1 DEF NoTxn

LEMMA LockPreserved ==
    ASSUME TypeOK, LocksExclude, [Next]_vars
    PROVE  LocksExclude'
<1>1. ASSUME NEW d \in Docs, Receive(d) \/ Step(d) \/ Abort(d) \/ DeadlockVictim(d)
      PROVE  LocksExclude'
  <2> SUFFICES \A r \in txn'[d].held : r \in txn[d].held \/ Free(d, r)
    BY <1>1, TxnEffect, LockStep
  <2>1. CASE Receive(d) \/ Create(d) \/ EndLines(d) \/ ReadPaid(d)
    BY <2>1, ReceiveEffect, CreateEffect, EndLinesEffect
  <2>2. CASE Number(d)
    BY <2>2, NumberEffect DEF Number
  <2>3. CASE PostLine(d)
    BY <2>3, PostLineEffect DEF PostLine
  <2>4. CASE WritePaid(d)
    BY <2>4, WritePaidEffect DEF WritePaid
  <2>5. CASE Refuse(d) \/ Abort(d) \/ DeadlockVictim(d) \/ Commit(d)
    BY <2>5, EndEffect
  <2> QED
    BY <1>1, <2>1, <2>2, <2>3, <2>4, <2>5 DEF Step
<1>2. CASE UNCHANGED txn
  BY <1>2 DEF LocksExclude
<1> QED
  BY <1>1, <1>2 DEF Next, EditStep, ReadInvoice, SaveInvoice, ApproveCredit, Destroy,
                    ReadCustomer, SaveCustomer, vars

-----------------------------------------------------------------------------
(* Numbers *)

LEMMA NumberHeldPreserved ==
    ASSUME TypeOK, LocksExclude, NumberHeld, [Next]_vars
    PROVE  NumberHeld'
<1>1. ASSUME NEW d \in Docs, Receive(d) \/ Step(d) \/ Abort(d) \/ DeadlockVictim(d)
      PROVE  NumberHeld'
  <2>0. OthersKeep(d)
    BY <1>1, TxnEffect
  <2>1. CASE Receive(d) \/ Create(d) \/ Refuse(d) \/ Abort(d) \/ DeadlockVictim(d)
    <3>1. last' = last
      BY <2>1 DEF Receive, Create, Refuse, Abort, DeadlockVictim, RollBack, books
    <3>2. txn'[d].stage \in {"valid", "begun", "idle"}
      BY <2>1, ReceiveEffect, CreateEffect, EndEffect
    <3> QED
      BY <2>0, <3>1, <3>2 DEF NumberHeld, OthersKeep
  <2>2. CASE Number(d)
    <3>1. last' = last
      BY <2>2 DEF Number, books
    <3> QED
      BY <2>0, <2>2, <3>1, NumberEffect DEF NumberHeld, OthersKeep
  <2>3. CASE PostLine(d) \/ EndLines(d) \/ ReadPaid(d) \/ WritePaid(d)
    <3>1. last' = last
      BY <2>3 DEF PostLine, EndLines, ReadPaid, WritePaid, books
    <3>2. /\ txn[d].stage \in {"lines", "paying"} /\ txn'[d].number = txn[d].number
          /\ txn[d].held \subseteq txn'[d].held
      BY <2>3, PostLineEffect, EndLinesEffect, WritePaidEffect
    <3> QED
      BY <2>0, <3>1, <3>2 DEF NumberHeld, OthersKeep
  <2>4. CASE Commit(d)
    <3> SUFFICES ASSUME NEW e \in Docs, txn'[e].stage \in {"lines", "paying", "posted"}
                 PROVE  /\ SeqRow(Doc[e].kind) \in txn'[e].held
                        /\ txn'[e].number = last'[Doc[e].kind] + 1
      BY DEF NumberHeld
    <3>1. e # d /\ txn'[e] = txn[e]
      BY <2>0, <2>4, EndEffect DEF OthersKeep
    <3>2. txn[d].stage = "posted" /\ SeqRow(Doc[d].kind) \in txn[d].held
      BY <2>4 DEF Commit, NumberHeld
    <3>3. SeqRow(Doc[e].kind) \in txn[e].held /\ txn[e].number = last[Doc[e].kind] + 1
      BY <3>1 DEF NumberHeld
    <3>4. Doc[e].kind # Doc[d].kind
      BY <3>1, <3>2, <3>3 DEF LocksExclude
    <3>5. last'[Doc[e].kind] = last[Doc[e].kind]
      BY <2>4, <3>4, DocTypes DEF Commit, TypeOK
    <3> QED
      BY <3>1, <3>3, <3>5
  <2> QED
    BY <1>1, <2>1, <2>2, <2>3, <2>4 DEF Step
<1>2. CASE UNCHANGED <<txn, last>>
  BY <1>2 DEF NumberHeld
<1> QED
  BY <1>1, <1>2 DEF Next, EditStep, ReadInvoice, SaveInvoice, ApproveCredit, Destroy,
                    ReadCustomer, SaveCustomer, vars, books

LEMMA RowsNumberedPreserved ==
    ASSUME TypeOK, NumberHeld, RowsNumbered, [Next]_vars
    PROVE  RowsNumbered'
<1>1. ASSUME NEW d \in Docs,
             \/ Number(d) \/ PostLine(d) \/ EndLines(d) \/ ReadPaid(d) \/ WritePaid(d)
             \/ Refuse(d) \/ Abort(d) \/ DeadlockVictim(d)
      PROVE  RowsNumbered'
  <2>1. UNCHANGED <<row, last, patch>>
    BY <1>1 DEF Number, PostLine, EndLines, ReadPaid, WritePaid, Refuse, Abort,
                DeadlockVictim, RollBack, books
  <2>2. OthersKeep(d) /\ (txn'[d].stage # "idle" => txn[d].stage # "idle")
    BY <1>1, TxnEffect, NumberEffect, PostLineEffect, EndLinesEffect, WritePaidEffect,
       EndEffect DEF Step
  <2> QED
    BY <2>1, <2>2 DEF RowsNumbered, OthersKeep
<1>2. ASSUME NEW d \in Docs, Receive(d) PROVE RowsNumbered'
  <2>1. UNCHANGED <<row, last, patch>> /\ row[d].state = "none"
    BY <1>2 DEF Receive, books
  <2>2. OthersKeep(d)
    BY <1>2, TxnEffect
  <2> QED
    BY <2>1, <2>2 DEF RowsNumbered, OthersKeep
<1>3. ASSUME NEW d \in Docs, Create(d) PROVE RowsNumbered'
  <2>1. UNCHANGED <<last, patch>> /\ txn[d].stage = "valid" /\ OthersKeep(d)
    BY <1>3, TxnEffect DEF Create, Step
  <2>2. row[d].state \in {"none", "bare"}
    BY <2>1 DEF RowsNumbered
  <2>3. /\ \A e \in Docs \ {d} : row'[e] = row[e]
        /\ row'[d].number = row[d].number
        /\ row'[d].state \in {"none", "bare"}
    BY <1>3, <2>2 DEF Create, TypeOK, Row
  <2> QED
    BY <2>1, <2>2, <2>3 DEF RowsNumbered, OthersKeep
<1>4. ASSUME NEW d \in Docs, Commit(d) PROVE RowsNumbered'
  <2>1. /\ patch' = patch /\ txn'[d].stage = "idle" /\ OthersKeep(d)
        /\ txn[d].stage = "posted" /\ txn[d].number = last[Doc[d].kind] + 1
    BY <1>4, TxnEffect, EndEffect DEF Commit, Step, NumberHeld
  <2>2. /\ last'[Doc[d].kind] = last[Doc[d].kind] + 1
        /\ \A k \in Kinds : last[k] \in Nat /\ last'[k] >= last[k]
    BY <1>4, <2>1, DocTypes DEF Commit, TypeOK
  <2>3. patch[d] = NoRow
    BY <2>1 DEF RowsNumbered
  <2> SUFFICES ASSUME NEW e \in Docs
               PROVE  /\ row'[e].number <= last'[Doc[e].kind]
                      /\ row'[e].state \in {"none", "bare"} => row'[e].number = 0
                      /\ txn'[e].stage # "idle" => row'[e].state \in {"none", "bare"}
                      /\ patch'[e] # NoRow =>
                            /\ patch'[e].state = "final"
                            /\ row'[e].state \in {"final", "deleted"}
                            /\ patch'[e].number = row'[e].number
    BY DEF RowsNumbered
  <2>4. CASE e = d
    <3>1. row'[d].state = "final" /\ row'[d].number = last'[Doc[d].kind]
      BY <1>4, <2>1, <2>2, CommitRows
    <3>2. last'[Doc[d].kind] \in Nat
      BY <1>4, DocTypes, CommitTypes DEF TypeOK
    <3> QED
      BY <2>1, <2>3, <2>4, <3>1, <3>2
  <2>5. CASE e # d
    <3>1. row'[e].state = row[e].state /\ row'[e].number = row[e].number
      BY <1>4, <2>5, CommitRows
    <3>2. row'[e].number <= last'[Doc[e].kind]
      <4>1. row[e].number <= last[Doc[e].kind] /\ row[e].number \in Nat
        BY DEF RowsNumbered, TypeOK, Row
      <4>2. last[Doc[e].kind] \in Nat /\ last'[Doc[e].kind] \in Nat
            /\ last'[Doc[e].kind] >= last[Doc[e].kind]
        BY <1>4, <2>2, DocTypes, CommitTypes DEF TypeOK
      <4> QED
        BY <3>1, <4>1, <4>2
    <3> QED
      BY <2>1, <2>5, <3>1, <3>2 DEF RowsNumbered, OthersKeep
  <2> QED
    BY <2>4, <2>5
<1>5. ASSUME NEW d \in Docs, EditStep(d) PROVE RowsNumbered'
  <2>1. UNCHANGED <<last, txn>>
    BY <1>5 DEF EditStep, ReadInvoice, SaveInvoice, ApproveCredit, Destroy, books
  <2>2. CASE ReadInvoice(d)
    BY <2>1, <2>2 DEF ReadInvoice, IsFinal, RowsNumbered, TypeOK, books
  <2>3. CASE SaveInvoice(d)
    <3>1. row' = [row EXCEPT ![d] = patch[d]] /\ patch' = [patch EXCEPT ![d] = NoRow]
          /\ patch[d] # NoRow
      BY <2>3 DEF SaveInvoice
    <3>2. patch[d].state = "final" /\ patch[d].number = row[d].number
          /\ txn[d].stage = "idle"
      BY <3>1 DEF RowsNumbered
    <3> QED
      BY <2>1, <3>1, <3>2 DEF RowsNumbered, TypeOK
  <2>4. CASE ApproveCredit(d)
    <3>1. patch' = patch /\ row' = [row EXCEPT ![d].credit = "overridden"]
      BY <2>4 DEF ApproveCredit
    <3>2. \A e \in Docs : row'[e].number = row[e].number /\ row'[e].state = row[e].state
      BY <3>1 DEF TypeOK, Row
    <3> QED
      BY <2>1, <3>1, <3>2 DEF RowsNumbered
  <2>5. CASE Destroy(d)
    <3>1. /\ patch' = patch /\ row' = [row EXCEPT ![d].state = "deleted"]
          /\ txn[d].stage = "idle"
      BY <2>5 DEF Destroy, Busy
    <3>2. /\ \A e \in Docs : row'[e].number = row[e].number
          /\ \A e \in Docs \ {d} : row'[e].state = row[e].state
          /\ row'[d].state = "deleted"
      BY <3>1 DEF TypeOK, Row
    <3> QED
      BY <2>1, <3>1, <3>2 DEF RowsNumbered
  <2> QED
    BY <1>5, <2>2, <2>3, <2>4, <2>5 DEF EditStep
<1>6. CASE UNCHANGED <<row, last, txn, patch>>
  BY <1>6 DEF RowsNumbered
<1> QED
  BY <1>1, <1>2, <1>3, <1>4, <1>5, <1>6
  DEF Next, Step, ReadCustomer, SaveCustomer, vars, books

LEMMA NumbersUniquePreserved ==
    ASSUME TypeOK, NumberHeld, RowsNumbered, NumbersUnique, [Next]_vars
    PROVE  NumbersUnique'
<1>1. ASSUME NEW d \in Docs, Commit(d) PROVE NumbersUnique'
  <2>1. /\ row'[d].number = last[Doc[d].kind] + 1
        /\ \A e \in Docs \ {d} : row'[e].number = row[e].number
    <3>1. txn[d].number = last[Doc[d].kind] + 1
      BY <1>1 DEF Commit, NumberHeld
    <3> QED
      BY <1>1, <3>1, CommitRows
  <2>2. \A e \in Docs : row[e].number <= last[Doc[e].kind] /\ row[e].number \in Nat
    BY DEF RowsNumbered, TypeOK, Row
  <2>3. last[Doc[d].kind] \in Nat
    BY DocTypes DEF TypeOK
  <2>4. \A e \in Docs \ {d} : Doc[e].kind = Doc[d].kind => row'[e].number < row'[d].number
    BY <2>1, <2>2, <2>3
  <2>5. \A e \in Docs \ {d} : Doc[e].kind = Doc[d].kind => row'[e].number # row'[d].number
    BY <2>1, <2>2, <2>3, <2>4
  <2> QED
    BY <2>1, <2>5 DEF NumbersUnique, Numbered
<1>2. ASSUME NEW d \in Docs, Create(d) \/ EditStep(d) PROVE NumbersUnique'
  <2>1. \A e \in Docs : row'[e].number = row[e].number
    <3>1. CASE Create(d)
      BY <3>1 DEF Create, TypeOK, Row
    <3>2. CASE ReadInvoice(d)
      BY <3>2 DEF ReadInvoice, books
    <3>3. CASE SaveInvoice(d)
      BY <3>3 DEF SaveInvoice, RowsNumbered, TypeOK
    <3>4. CASE ApproveCredit(d)
      BY <3>4 DEF ApproveCredit, TypeOK, Row
    <3>5. CASE Destroy(d)
      BY <3>5 DEF Destroy, TypeOK, Row
    <3> QED
      BY <1>2, <3>1, <3>2, <3>3, <3>4, <3>5 DEF EditStep
  <2> QED
    BY <2>1 DEF NumbersUnique, Numbered
<1>3. CASE UNCHANGED row
  BY <1>3 DEF NumbersUnique, Numbered
<1> QED
  BY <1>1, <1>2, <1>3 DEF Next, Step, Receive, Number, PostLine, EndLines, ReadPaid, WritePaid,
     Refuse, Abort, DeadlockVictim, RollBack, ReadCustomer, SaveCustomer, vars, books

-----------------------------------------------------------------------------
(* The stock ledger *)

\* A chain goes on by one entry.
LEMMA ChainAppend ==
    ASSUME NEW l \in Seq(Entry), NEW b \in Int, NEW e \in Entry, Chain(l, b),
           e.after = EndOf(l, b) + e.qty
    PROVE  Chain(Append(l, e), b)
<1>1. /\ Len(l) \in Nat /\ Len(Append(l, e)) = Len(l) + 1
      /\ \A n \in 1..Len(l) : Append(l, e)[n] = l[n]
      /\ Append(l, e)[Len(l) + 1] = e
  OBVIOUS
<1> SUFFICES ASSUME NEW n \in 1..Len(l) + 1
             PROVE  Append(l, e)[n].after =
                      (IF n = 1 THEN b ELSE Append(l, e)[n - 1].after) + Append(l, e)[n].qty
  BY <1>1 DEF Chain
<1>2. CASE n \in 1..Len(l)
  <2>1. l[n].after = (IF n = 1 THEN b ELSE l[n - 1].after) + l[n].qty
    BY <1>2 DEF Chain
  <2>2. n # 1 => n - 1 \in 1..Len(l)
    BY <1>1, <1>2
  <2> QED
    BY <1>1, <1>2, <2>1, <2>2
<1>3. CASE n = Len(l) + 1
  <2>1. EndOf(l, b) = IF n = 1 THEN b ELSE l[n - 1].after
    BY <1>1, <1>3 DEF EndOf
  <2>2. n # 1 => n - 1 \in 1..Len(l)
    BY <1>1, <1>3
  <2> QED
    BY <1>1, <1>3, <2>1, <2>2
<1> QED
  BY <1>1, <1>2, <1>3

\* A chain that continues another one makes one chain with it.
LEMMA ChainConcat ==
    ASSUME NEW l \in Seq(Entry), NEW m \in Seq(Entry), NEW b \in Int,
           Chain(l, b), Chain(m, EndOf(l, b))
    PROVE  Chain(l \o m, b) /\ EndOf(l \o m, b) = EndOf(m, EndOf(l, b))
<1> DEFINE c == l \o m
<1>1. /\ Len(l) \in Nat /\ Len(m) \in Nat /\ Len(c) = Len(l) + Len(m)
      /\ \A n \in 1..Len(l) : c[n] = l[n]
      /\ \A n \in 1..Len(m) : c[Len(l) + n] = m[n]
  OBVIOUS
<1>2. (l = <<>> <=> Len(l) = 0) /\ (m = <<>> <=> Len(m) = 0) /\ (c = <<>> <=> Len(c) = 0)
  OBVIOUS
<1> HIDE DEF c
<1>3. Chain(c, b)
  <2> SUFFICES ASSUME NEW n \in 1..Len(c)
               PROVE  c[n].after = (IF n = 1 THEN b ELSE c[n - 1].after) + c[n].qty
    BY DEF Chain
  <2>1. CASE n \in 1..Len(l)
    <3>1. l[n].after = (IF n = 1 THEN b ELSE l[n - 1].after) + l[n].qty
      BY <2>1 DEF Chain
    <3>2. n # 1 => n - 1 \in 1..Len(l)
      BY <1>1, <2>1
    <3> QED
      BY <1>1, <2>1, <3>1, <3>2
  <2>2. CASE n = Len(l) + 1
    <3>1. 1 \in 1..Len(m) /\ c[n] = m[1]
      BY <1>1, <2>2
    <3>2. m[1].after = EndOf(l, b) + m[1].qty
      BY <3>1 DEF Chain
    <3>3. EndOf(l, b) = IF n = 1 THEN b ELSE c[n - 1].after
      BY <1>1, <1>2, <2>2 DEF EndOf
    <3> QED
      BY <3>1, <3>2, <3>3
  <2>3. CASE n \in Len(l) + 2 .. Len(c)
    <3> DEFINE k == n - Len(l)
    <3>1. k \in 2..Len(m) /\ c[n] = m[k] /\ c[n - 1] = m[k - 1]
      <4>1. k \in 2..Len(m) /\ n = Len(l) + k /\ n - 1 = Len(l) + (k - 1) /\ k - 1 \in 1..Len(m)
        BY <1>1, <2>3
      <4> QED
        BY <1>1, <4>1
    <3>2. m[k].after = m[k - 1].after + m[k].qty
      BY <3>1, <1>1 DEF Chain
    <3> QED
      BY <1>1, <2>3, <3>1, <3>2
  <2> QED
    BY <1>1, <2>1, <2>2, <2>3
<1>4. EndOf(c, b) = EndOf(m, EndOf(l, b))
  BY <1>1, <1>2 DEF EndOf
<1> QED
  BY <1>3, <1>4 DEF c

\* The empty chain, of a transaction that has moved nothing.
LEMMA ChainEmpty == \A b : Chain(<<>>, b) /\ EndOf(<<>>, b) = b
BY DEF Chain, EndOf

\* What a transaction reads of a stock row is the end of its own chain.
LEMMA OnHandIsEnd ==
    ASSUME NEW d \in Docs, NEW i \in Items
    PROVE  OnHand(d, i) = EndOf(txn[d].moves[i], stock[i])
BY DEF OnHand, EndOf

LEMMA LedgerPreserved ==
    ASSUME TypeOK, LedgerChained, MovesChained, [Next]_vars
    PROVE  LedgerChained'
<1>1. ASSUME NEW d \in Docs, Commit(d) PROVE LedgerChained'
  <2> SUFFICES ASSUME NEW i \in Items
               PROVE  Chain(ledger'[i], 0) /\ stock'[i] = EndOf(ledger'[i], 0)
    BY DEF LedgerChained, Chain, EndOf
  <2>1. /\ ledger'[i] = ledger[i] \o txn[d].moves[i]
        /\ stock'[i] = EndOf(txn[d].moves[i], stock[i])
    BY <1>1, OnHandIsEnd DEF Commit
  <2>2. ledger[i] \in Seq(Entry) /\ txn[d].moves[i] \in Seq(Entry)
    BY DEF TypeOK, Txn
  <2>3. Chain(ledger[i], 0) /\ stock[i] = EndOf(ledger[i], 0) /\ Chain(txn[d].moves[i], stock[i])
    BY DEF LedgerChained, MovesChained
  <2> QED
    BY <2>1, <2>2, <2>3, ChainConcat
<1>2. CASE UNCHANGED <<stock, ledger>>
  BY <1>2 DEF LedgerChained, Chain, EndOf
<1> QED
  BY <1>1, <1>2, BookWriters

LEMMA MovesPreserved ==
    ASSUME TypeOK, LocksExclude, MovesChained, [Next]_vars
    PROVE  MovesChained'
<1>1. ASSUME NEW d \in Docs, Receive(d) \/ Step(d) \/ Abort(d) \/ DeadlockVictim(d)
      PROVE  MovesChained'
  <2> SUFFICES ASSUME NEW e \in Docs, NEW i \in Items
               PROVE  /\ txn'[e].moves[i] # <<>> => StockRow(i) \in txn'[e].held
                      /\ Chain(txn'[e].moves[i], stock'[i])
    BY DEF MovesChained, Chain
  <2>0. /\ OthersKeep(d)
        /\ \A f \in Docs : txn[f].moves[i] # <<>> => StockRow(i) \in txn[f].held
        /\ \A f \in Docs : Chain(txn[f].moves[i], stock[i])
    BY <1>1, TxnEffect DEF MovesChained
  <2>1. CASE Commit(d)
    <3>1. CASE e = d \/ txn[e].moves[i] = <<>>
      <4>1. txn'[e].moves[i] = <<>>
        BY <2>0, <2>1, <3>1, EndEffect DEF OthersKeep
      <4> QED
        BY <4>1, ChainEmpty
    <3>2. CASE e # d /\ txn[e].moves[i] # <<>>
      <4>1. StockRow(i) \in txn[e].held /\ txn'[e] = txn[e]
        BY <2>0, <3>2 DEF OthersKeep
      <4>2. txn[d].moves[i] = <<>>
        BY <2>0, <3>2, <4>1 DEF LocksExclude
      <4>3. stock'[i] = stock[i]
        BY <2>1, <4>2 DEF Commit, OnHand
      <4> QED
        BY <2>0, <4>1, <4>3
    <3> QED
      BY <3>1, <3>2
  <2>2. CASE ~Commit(d) /\ e # d
    <3>1. stock' = stock
      BY <1>1, <2>2 DEF Step, Receive, Create, Number, PostLine, EndLines, ReadPaid, WritePaid,
         Refuse, Abort, DeadlockVictim, RollBack, books
    <3> QED
      BY <2>0, <2>2, <3>1 DEF OthersKeep
  <2>3. CASE e = d /\ (Receive(d) \/ Create(d) \/ Number(d) \/ EndLines(d) \/ ReadPaid(d) \/ WritePaid(d))
    <3>1. stock' = stock
      BY <2>3 DEF Receive, Create, Number, EndLines, ReadPaid, WritePaid, books
    <3>2. txn'[d].moves = txn[d].moves /\ txn[d].held \subseteq txn'[d].held
      BY <2>3, ReceiveEffect, CreateEffect, NumberEffect, EndLinesEffect, WritePaidEffect
    <3> QED
      BY <2>0, <2>3, <3>1, <3>2
  <2>4. CASE e = d /\ PostLine(d)
    <3> DEFINE line == Doc[d].lines[txn[d].done + 1]
               m    == txn[d].moves[line.item]
               new  == [doc |-> d, qty |-> line.qty, after |-> OnHand(d, line.item) + line.qty]
    <3>1. line.item \in Items /\ line.qty \in Int
      BY <2>4, LineTypes DEF PostLine, TypeOK, Txn
    <3>2. /\ stock' = stock
          /\ txn'[d].held = txn[d].held \cup {StockRow(line.item)}
          /\ txn'[d].moves = [txn[d].moves EXCEPT ![line.item] = Append(m, new)]
      BY <2>4 DEF PostLine, TypeOK, Txn, books
    <3>3. m \in Seq(Entry) /\ stock[line.item] \in Int /\ txn[d].moves \in [Items -> Seq(Entry)]
      BY <3>1 DEF TypeOK, Txn
    <3>4. new \in Entry /\ new.after = EndOf(m, stock[line.item]) + new.qty
      BY <3>1, OnHandType, OnHandIsEnd DEF Entry
    <3> HIDE DEF line, new
    <3>5. CASE i = line.item
      <4>1. Chain(Append(m, new), stock[i])
        BY <2>0, <3>3, <3>4, <3>5, ChainAppend
      <4> QED
        BY <2>4, <3>1, <3>2, <3>3, <3>5, <4>1
    <3>6. CASE i # line.item
      BY <2>0, <2>4, <3>2, <3>3, <3>6
    <3> QED
      BY <3>5, <3>6
  <2>5. CASE e = d /\ (Refuse(d) \/ Abort(d) \/ DeadlockVictim(d))
    BY <2>5, EndEffect, ChainEmpty
  <2> QED
    BY <1>1, <2>1, <2>2, <2>3, <2>4, <2>5 DEF Step
<1>2. CASE UNCHANGED <<txn, stock>>
  BY <1>2 DEF MovesChained, Chain
<1> QED
  BY <1>1, <1>2 DEF Next, EditStep, ReadInvoice, SaveInvoice, ApproveCredit, Destroy,
     ReadCustomer, SaveCustomer, vars, books

-----------------------------------------------------------------------------
(* The theorems *)

LEMMA IInvInit == Init => BooksInv
<1> SUFFICES ASSUME Init PROVE BooksInv
  OBVIOUS
<1>1. TypeOK
  BY InitTypes
<1>2. \A d \in Docs : txn[d] = NoTxn /\ row[d] = NoRow /\ patch[d] = NoRow
  BY DEF Init
<1>3. LocksExclude /\ NumberHeld
  BY <1>2 DEF LocksExclude, NumberHeld, NoTxn
<1>4. RowsNumbered /\ NumbersUnique
  <2>1. \A d \in Docs : last[Doc[d].kind] = 0
    BY DocTypes DEF Init
  <2> QED
    BY <1>2, <2>1 DEF RowsNumbered, NumbersUnique, Numbered, NoTxn, NoRow
<1>5. LedgerChained
  BY ChainEmpty DEF Init, LedgerChained
<1>6. MovesChained
  BY <1>2, ChainEmpty DEF MovesChained, NoTxn
<1> QED
  BY <1>1, <1>3, <1>4, <1>5, <1>6 DEF BooksInv

THEOREM Invariant == Spec => []BooksInv
<1>1. Init => BooksInv
  BY IInvInit
<1>2. BooksInv /\ [Next]_vars => BooksInv'
  BY TypeStep, LockPreserved, NumberHeldPreserved, RowsNumberedPreserved,
     NumbersUniquePreserved, LedgerPreserved, MovesPreserved DEF BooksInv
<1> QED
  BY <1>1, <1>2, PTL DEF Spec

\* No two documents of a series ever have the same number, for any number of
\* concurrent, dying and retried requests, deletions and re-saves.
THEOREM SeriesUnique == Spec => []NumbersUnique
<1>1. BooksInv => NumbersUnique
  BY DEF BooksInv
<1> QED
  BY <1>1, Invariant, PTL

\* Without DELETE, what is finalized stays so and keeps its number.
NoneDeleted == \A d \in Docs : row[d].state # "deleted"

LEMMA FinalStays ==
    ASSUME "destroy" \notin Edits, BooksInv, NoneDeleted, [Next]_vars
    PROVE  /\ NoneDeleted'
           /\ \A e \in Docs : IsFinal(e) => row'[e].state = "final" /\ row'[e].number = row[e].number
<1> USE DEF IsFinal, NoneDeleted
<1>1. ASSUME NEW d \in Docs, Create(d)
      PROVE  /\ NoneDeleted'
             /\ \A e \in Docs : IsFinal(e) => row'[e].state = "final" /\ row'[e].number = row[e].number
  <2>1. row[d].state \in {"none", "bare"}
    BY <1>1 DEF Create, BooksInv, RowsNumbered
  <2>2. /\ \A e \in Docs \ {d} : row'[e] = row[e]
        /\ row'[d].state \in {"none", "bare"}
    BY <1>1, <2>1 DEF Create, BooksInv, TypeOK, Row
  <2> QED BY <2>1, <2>2
<1>2. ASSUME NEW d \in Docs, Commit(d)
      PROVE  /\ NoneDeleted'
             /\ \A e \in Docs : IsFinal(e) => row'[e].state = "final" /\ row'[e].number = row[e].number
  <2>1. row[d].state \in {"none", "bare"}
    BY <1>2 DEF Commit, BooksInv, RowsNumbered
  <2> QED BY <1>2, <2>1, CommitRows DEF BooksInv
<1>3. ASSUME NEW d \in Docs, SaveInvoice(d)
      PROVE  /\ NoneDeleted'
             /\ \A e \in Docs : IsFinal(e) => row'[e].state = "final" /\ row'[e].number = row[e].number
  <2>1. patch[d].state = "final" /\ patch[d].number = row[d].number
    BY <1>3 DEF SaveInvoice, BooksInv, RowsNumbered
  <2>2. row'[d] = patch[d] /\ \A e \in Docs \ {d} : row'[e] = row[e]
    BY <1>3 DEF SaveInvoice, BooksInv, TypeOK
  <2> QED BY <2>1, <2>2
<1>4. ASSUME NEW d \in Docs, ApproveCredit(d)
      PROVE  /\ NoneDeleted'
             /\ \A e \in Docs : IsFinal(e) => row'[e].state = "final" /\ row'[e].number = row[e].number
  <2>1. \A e \in Docs : row'[e].state = row[e].state /\ row'[e].number = row[e].number
    BY <1>4 DEF ApproveCredit, BooksInv, TypeOK, Row
  <2> QED BY <2>1
<1>5. ASSUME NEW d \in Docs, Destroy(d) PROVE FALSE
  BY <1>5 DEF Destroy, Edit
<1>6. CASE UNCHANGED row
  BY <1>6
<1> QED
  BY <1>1, <1>2, <1>3, <1>4, <1>5, <1>6, RowWriters

LEMMA GapStep ==
    ASSUME "destroy" \notin Edits, BooksInv, NoneDeleted, SeriesGapless, [Next]_vars
    PROVE  SeriesGapless'
<1>1. \A e \in Docs : IsFinal(e) => row'[e].state = "final" /\ row'[e].number = row[e].number
  BY FinalStays
<1>2. ASSUME NEW d \in Docs, Commit(d) PROVE SeriesGapless'
  <2>1. txn[d].number = last[Doc[d].kind] + 1
    BY <1>2 DEF Commit, BooksInv, NumberHeld
  <2>2. last' = [last EXCEPT ![Doc[d].kind] = txn[d].number] /\ last \in [Kinds -> Nat] /\ Doc[d].kind \in Kinds
    BY <1>2, DocTypes DEF Commit, BooksInv, TypeOK
  <2>3. row'[d].state = "final" /\ row'[d].number = last[Doc[d].kind] + 1
    BY <1>2, <2>1, CommitRows DEF BooksInv
  <2> SUFFICES ASSUME NEW k \in Kinds, NEW n \in 1..last'[k]
               PROVE  \E e \in Docs : Doc[e].kind = k /\ row'[e].state = "final" /\ row'[e].number = n
    BY DEF SeriesGapless, IsFinal
  <2>4. CASE k = Doc[d].kind /\ n = last[k] + 1
    BY <2>3, <2>4
  <2>5. CASE ~(k = Doc[d].kind /\ n = last[k] + 1)
    <3>1. n \in 1..last[k]
      BY <2>1, <2>2, <2>5
    <3>2. PICK e \in Docs : Doc[e].kind = k /\ IsFinal(e) /\ row[e].number = n
      BY <3>1 DEF SeriesGapless
    <3> QED BY <1>1, <3>2
  <2> QED BY <2>4, <2>5
<1>3. CASE UNCHANGED last
  BY <1>1, <1>3 DEF SeriesGapless, IsFinal
<1> QED
  BY <1>2, <1>3, BookWriters

\* Where documents are not deleted (DELETE takes a finalized one with its number),
\* a series has no gaps: every number up to the last belongs to a finalized document,
\* whichever transactions died with a number in hand (next_document_number).
THEOREM SeriesWithoutGaps ==
    ASSUME "destroy" \notin Edits
    PROVE  Spec => []SeriesGapless
<1>1. Init => BooksInv /\ NoneDeleted /\ SeriesGapless
  <2>1. Init => NoneDeleted
    BY DEF Init, NoneDeleted, NoRow
  <2>2. Init => SeriesGapless
    BY DEF Init, SeriesGapless
  <2> QED BY <2>1, <2>2, IInvInit
<1>2. BooksInv /\ NoneDeleted /\ SeriesGapless /\ [Next]_vars => NoneDeleted' /\ SeriesGapless'
  BY FinalStays, GapStep
<1> QED
  BY <1>1, <1>2, Invariant, PTL DEF Spec

\* The stock is the running total of the ledger, for any lines in any order, and
\* under any interleaving and death of the transactions that move it.
THEOREM LedgerExplains == Spec => []LedgerExplainsStock
<1>1. TypeOK /\ LedgerChained => LedgerExplainsStock
  <2> SUFFICES ASSUME TypeOK, LedgerChained, NEW i \in Items
               PROVE  LET l == ledger[i]
                          After(n) == IF n = 0 THEN 0 ELSE l[n].after IN
                      /\ stock[i] = After(Len(l))
                      /\ \A n \in 1..Len(l) : l[n].after = After(n - 1) + l[n].qty
    BY DEF LedgerExplainsStock
  <2>1. ledger[i] \in Seq(Entry) /\ (ledger[i] = <<>> <=> Len(ledger[i]) = 0)
    BY DEF TypeOK
  <2>2. stock[i] = IF Len(ledger[i]) = 0 THEN 0 ELSE ledger[i][Len(ledger[i])].after
    BY <2>1 DEF LedgerChained, EndOf
  <2>3. ASSUME NEW n \in 1..Len(ledger[i])
        PROVE  ledger[i][n].after =
                 (IF n - 1 = 0 THEN 0 ELSE ledger[i][n - 1].after) + ledger[i][n].qty
    <3>1. n - 1 = 0 <=> n = 1
      BY <2>1
    <3> QED
      BY <3>1 DEF LedgerChained, Chain
  <2> QED
    BY <2>2, <2>3
<1>2. BooksInv => TypeOK /\ LedgerChained
  BY DEF BooksInv
<1> QED
  BY <1>1, <1>2, Invariant, PTL

-----------------------------------------------------------------------------
(* Whole movements *)

HIDE SalesPostingAssumption

\* The first k lines of d, those for i.
LinesUpTo(d, i, k) == {n \in LinesOf(d, i) : n <= k}

\* The movements of an open transaction are those of the lines it has posted.
MovesWhole ==
    \A d \in Docs, i \in Items :
        /\ txn[d].stage \in {"idle", "valid", "begun"} => txn[d].done = 0
        /\ txn[d].stage \in {"paying", "posted"} => txn[d].done = Len(Doc[d].lines)
        /\ \A n \in DOMAIN txn[d].moves[i] : txn[d].moves[i][n].doc = d
        /\ InOrder(txn[d].moves[i], DOMAIN txn[d].moves[i], d,
                   LinesUpTo(d, i, txn[d].done))

\* No entries for no lines.
LEMMA OrderNone == \A l, d : InOrder(l, {}, d, {})
<1> SUFFICES ASSUME NEW l, NEW d PROVE InOrder(l, {}, d, {})
  OBVIOUS
<1>1. [p \in {} |-> 0] \in [{} -> {}]
  OBVIOUS
<1> QED BY <1>1 DEF InOrder

\* One more entry, for a later line.
LEMMA OrderAppend ==
    ASSUME NEW l, NEW S, l \in Seq(S), NEW e \in S, NEW d, NEW L, NEW n,
           InOrder(l, DOMAIN l, d, L), \A k \in L : k < n, n \notin L,
           e.qty = Doc[d].lines[n].qty
    PROVE  InOrder(Append(l, e), DOMAIN Append(l, e), d, L \cup {n})
<1> DEFINE a == Append(l, e)
<1>1. PICK f \in [DOMAIN l -> L] :
          /\ \A k \in L : \E p \in DOMAIN l : f[p] = k
          /\ \A p, q \in DOMAIN l : p < q => f[p] < f[q]
          /\ \A p \in DOMAIN l : l[p].qty = Doc[d].lines[f[p]].qty
  BY DEF InOrder
<1>2. /\ Len(l) \in Nat /\ DOMAIN l = 1..Len(l) /\ DOMAIN a = 1..Len(l) + 1
      /\ a[Len(l) + 1] = e /\ \A p \in 1..Len(l) : a[p] = l[p]
  OBVIOUS
<1> HIDE DEF a
<1> DEFINE g == [p \in DOMAIN a |-> IF p \in DOMAIN l THEN f[p] ELSE n]
<1>3. g \in [DOMAIN a -> L \cup {n}]
  OBVIOUS
<1>4. \A p \in DOMAIN a : p \in DOMAIN l \/ (p = Len(l) + 1 /\ p \notin DOMAIN l)
  BY <1>2
<1>5. g[Len(l) + 1] = n /\ Len(l) + 1 \in DOMAIN a /\ \A p \in DOMAIN l : p \in DOMAIN a /\ g[p] = f[p]
  BY <1>2
<1> HIDE DEF g
<1>6. \A k \in L \cup {n} : \E p \in DOMAIN a : g[p] = k
  <2> SUFFICES ASSUME NEW k \in L \cup {n} PROVE \E p \in DOMAIN a : g[p] = k
    OBVIOUS
  <2>1. CASE k = n
    BY <1>5, <2>1
  <2>2. CASE k \in L
    <3>1. PICK p \in DOMAIN l : f[p] = k
      BY <1>1, <2>2
    <3> QED BY <1>5, <3>1
  <2> QED BY <2>1, <2>2
<1>7. \A p, q \in DOMAIN a : p < q => g[p] < g[q]
  BY <1>1, <1>2, <1>4, <1>5
<1>8. \A p \in DOMAIN a : a[p].qty = Doc[d].lines[g[p]].qty
  BY <1>1, <1>2, <1>4, <1>5
<1> QED BY <1>3, <1>6, <1>7, <1>8 DEF InOrder, a

\* The same entries behind others.
LEMMA OrderShift ==
    ASSUME NEW l, NEW m, NEW S, l \in Seq(S), m \in Seq(S), NEW d, NEW L, InOrder(m, DOMAIN m, d, L)
    PROVE  InOrder(l \o m, Len(l) + 1 .. Len(l) + Len(m), d, L)
<1> DEFINE c == l \o m
           P == Len(l) + 1 .. Len(l) + Len(m)
<1>1. PICK f \in [DOMAIN m -> L] :
          /\ \A k \in L : \E p \in DOMAIN m : f[p] = k
          /\ \A p, q \in DOMAIN m : p < q => f[p] < f[q]
          /\ \A p \in DOMAIN m : m[p].qty = Doc[d].lines[f[p]].qty
  BY DEF InOrder
<1>2. /\ Len(l) \in Nat /\ Len(m) \in Nat /\ DOMAIN m = 1..Len(m)
      /\ \A p \in 1..Len(m) : c[Len(l) + p] = m[p]
  OBVIOUS
<1>3. \A p \in P : p - Len(l) \in DOMAIN m /\ p \in Int /\ c[p] = m[p - Len(l)]
  <2> SUFFICES ASSUME NEW p \in P PROVE p - Len(l) \in DOMAIN m /\ p \in Int /\ c[p] = m[p - Len(l)]
    OBVIOUS
  <2>1. p - Len(l) \in 1..Len(m) /\ p = Len(l) + (p - Len(l)) /\ p \in Int
    BY <1>2
  <2> QED BY <1>2, <2>1
<1>4. \A p \in DOMAIN m : Len(l) + p \in P /\ (Len(l) + p) - Len(l) = p
  BY <1>2
<1> HIDE DEF c, P
<1> DEFINE g == [p \in P |-> f[p - Len(l)]]
<1>5. g \in [P -> L]
  BY <1>3
<1>6. \A k \in L : \E p \in P : g[p] = k
  <2> SUFFICES ASSUME NEW k \in L PROVE \E p \in P : g[p] = k
    OBVIOUS
  <2>1. PICK p \in DOMAIN m : f[p] = k
    BY <1>1
  <2> QED BY <1>4, <2>1
<1>7. \A p, q \in P : p < q => g[p] < g[q]
  <2> SUFFICES ASSUME NEW p \in P, NEW q \in P, p < q PROVE f[p - Len(l)] < f[q - Len(l)]
    OBVIOUS
  <2>1. p - Len(l) < q - Len(l)
    BY <1>2, <1>3
  <2> QED BY <1>1, <1>3, <2>1
<1>8. \A p \in P : c[p].qty = Doc[d].lines[g[p]].qty
  BY <1>1, <1>3
<1> HIDE DEF g
<1> QED BY <1>5, <1>6, <1>7, <1>8 DEF InOrder, c, P

\* Entries before others.
LEMMA OrderKept ==
    ASSUME NEW l, NEW m, NEW S, l \in Seq(S), m \in Seq(S), NEW P, P \subseteq DOMAIN l,
           NEW d, NEW L, InOrder(l, P, d, L)
    PROVE  InOrder(l \o m, P, d, L)
<1>1. \A p \in P : (l \o m)[p] = l[p]
  OBVIOUS
<1> QED BY <1>1 DEF InOrder

\* The lines of a document for an item are finitely many, with whole quantities.
LEMMA LinesFinite ==
    ASSUME NEW d \in Docs, NEW i \in Items
    PROVE  /\ LinesOf(d, i) \subseteq Nat
           /\ IsFiniteSet(LinesOf(d, i))
           /\ \A n \in LinesOf(d, i) : n \in 1..Len(Doc[d].lines) /\ Doc[d].lines[n].qty \in Int
<1>1. Doc[d].lines \in Seq(Line)
  BY DocTypes
<1>2. DOMAIN Doc[d].lines = 1..Len(Doc[d].lines) /\ Len(Doc[d].lines) \in Nat
  BY <1>1
<1>3. \A n \in 1..Len(Doc[d].lines) : Doc[d].lines[n] \in Line
  BY <1>1, <1>2, ElementOfSeq
<1>4. IsFiniteSet(1..Len(Doc[d].lines))
  BY <1>2, FS_Interval
<1>5. LinesOf(d, i) \in SUBSET (1..Len(Doc[d].lines))
  BY <1>2 DEF LinesOf
<1> QED BY <1>2, <1>3, <1>4, <1>5, FS_Subset DEF Line

\* Line by line.
LEMMA LinesSteps ==
    ASSUME NEW d \in Docs, NEW i \in Items
    PROVE  /\ LinesUpTo(d, i, 0) = {}
           /\ LinesUpTo(d, i, Len(Doc[d].lines)) = LinesOf(d, i)
           /\ \A k \in Nat : k + 1 \in DOMAIN Doc[d].lines =>
                 /\ Doc[d].lines[k + 1].item = i => LinesUpTo(d, i, k + 1) = LinesUpTo(d, i, k) \cup {k + 1}
                 /\ Doc[d].lines[k + 1].item # i => LinesUpTo(d, i, k + 1) = LinesUpTo(d, i, k)
                 /\ k + 1 \notin LinesUpTo(d, i, k)
                 /\ \A n \in LinesUpTo(d, i, k) : n < k + 1
<1>1. /\ \A n \in LinesOf(d, i) : n \in Nat /\ n >= 1 /\ n <= Len(Doc[d].lines)
      /\ Len(Doc[d].lines) \in Nat
  BY LinesFinite, DocTypes, LenProperties
<1>2. LinesUpTo(d, i, 0) = {} /\ LinesUpTo(d, i, Len(Doc[d].lines)) = LinesOf(d, i)
  BY <1>1 DEF LinesUpTo
<1>3. ASSUME NEW k \in Nat, k + 1 \in DOMAIN Doc[d].lines
      PROVE  /\ Doc[d].lines[k + 1].item = i => LinesUpTo(d, i, k + 1) = LinesUpTo(d, i, k) \cup {k + 1}
             /\ Doc[d].lines[k + 1].item # i => LinesUpTo(d, i, k + 1) = LinesUpTo(d, i, k)
             /\ k + 1 \notin LinesUpTo(d, i, k)
             /\ \A n \in LinesUpTo(d, i, k) : n < k + 1
  <2>1. \A n \in LinesOf(d, i) : n <= k + 1 <=> n <= k \/ n = k + 1
    BY <1>1
  <2>2. k + 1 \in LinesOf(d, i) <=> Doc[d].lines[k + 1].item = i
    BY <1>3 DEF LinesOf
  <2>3. \A n \in LinesUpTo(d, i, k) : n < k + 1
    BY <1>1 DEF LinesUpTo
  <2>4. k + 1 \notin LinesUpTo(d, i, k)
    BY <2>3
  <2> QED BY <2>1, <2>2, <2>3, <2>4 DEF LinesUpTo
<1> QED BY <1>2, <1>3

\* The next line joins those that went before.
LEMMA LinesNext ==
    ASSUME NEW d \in Docs, NEW i \in Items, NEW k \in Nat, k + 1 \in DOMAIN Doc[d].lines,
           Doc[d].lines[k + 1].item = i
    PROVE  LinesUpTo(d, i, k + 1) = LinesUpTo(d, i, k) \cup {k + 1}
BY LinesSteps

\* A concatenation, position by position.
LEMMA ConcatParts ==
    ASSUME NEW l \in Seq(Entry), NEW m \in Seq(Entry)
    PROVE  /\ DOMAIN l = 1..Len(l) /\ DOMAIN m = 1..Len(m) /\ Len(l) \in Nat /\ Len(m) \in Nat
           /\ DOMAIN (l \o m) = 1..(Len(l) + Len(m))
           /\ \A n \in 1..Len(l) : (l \o m)[n] = l[n]
           /\ \A n \in 1..Len(m) : (l \o m)[Len(l) + n] = m[n]
<1>1. l \o m \in Seq(Entry) /\ Len(l \o m) = Len(l) + Len(m)
  OBVIOUS
<1>2. DOMAIN (l \o m) = 1..(Len(l) + Len(m))
  BY <1>1
<1> QED BY <1>2

\* What the steps of a transaction make of the lines posted and the movements.
LEMMA KeptMoves ==
    ASSUME TypeOK, NEW d \in Docs,
           Receive(d) \/ Create(d) \/ Number(d) \/ EndLines(d) \/ ReadPaid(d) \/ WritePaid(d)
    PROVE  txn'[d].done = txn[d].done /\ txn'[d].moves = txn[d].moves
BY DEF Receive, Create, Number, EndLines, ReadPaid, WritePaid, TypeOK, Txn

\* The lines end when the last one is posted ...
LEMMA EndLinesDone ==
    ASSUME TypeOK, NEW d \in Docs, EndLines(d) \/ ReadPaid(d)
    PROVE  txn[d].done = Len(Doc[d].lines)
BY DEF EndLines, ReadPaid, LinesPosted

\* ... and each appends its entry to the movements of its item.
LEMMA PostLineMoves ==
    ASSUME TypeOK, NEW d \in Docs, PostLine(d)
    PROVE  \E line \in Line, e \in Entry :
              /\ line = Doc[d].lines[txn[d].done + 1]
              /\ e = [doc |-> d, qty |-> line.qty, after |-> OnHand(d, line.item) + line.qty]
              /\ txn[d].done \in Nat /\ txn[d].done + 1 \in DOMAIN Doc[d].lines
              /\ txn'[d].done = txn[d].done + 1 /\ txn'[d].stage = "lines"
              /\ txn'[d].moves = [txn[d].moves EXCEPT ![line.item] = Append(@, e)]
<1> DEFINE line == Doc[d].lines[txn[d].done + 1]
           e    == [doc |-> d, qty |-> line.qty, after |-> OnHand(d, line.item) + line.qty]
<1>1. txn[d] \in Txn /\ txn[d].done \in Nat /\ txn[d].done < Len(Doc[d].lines) /\ txn[d].stage = "lines"
  BY DEF TypeOK, Txn, PostLine
<1>2. Doc[d].lines \in Seq(Line)
  BY DocTypes
<1>3. txn[d].done + 1 \in DOMAIN Doc[d].lines
  BY <1>1, <1>2
<1>4. line \in Line
  BY <1>2, <1>3
<1>5. line.item \in Items /\ line.qty \in Int
  BY <1>4 DEF Line
<1>6. e \in Entry
  BY <1>5, OnHandType DEF Entry
<1>7. txn'[d].done = txn[d].done + 1 /\ txn'[d].stage = txn[d].stage
      /\ txn'[d].moves = [txn[d].moves EXCEPT ![line.item] = Append(@, e)]
  BY DEF PostLine, TypeOK, Txn
<1> HIDE DEF line, e
<1>8. /\ line = Doc[d].lines[txn[d].done + 1]
      /\ e = [doc |-> d, qty |-> line.qty, after |-> OnHand(d, line.item) + line.qty]
  BY DEF line, e
<1> WITNESS line \in Line, e \in Entry
<1> QED BY <1>1, <1>3, <1>7, <1>8

\* MovesWhole is inductive.
LEMMA MovesWholeStep ==
    ASSUME TypeOK, MovesWhole, [Next]_vars
    PROVE  MovesWhole'
<1>1. ASSUME NEW d \in Docs, Receive(d) \/ Step(d) \/ Abort(d) \/ DeadlockVictim(d)
      PROVE  MovesWhole'
  <2> SUFFICES ASSUME NEW e \in Docs, NEW i \in Items
               PROVE  /\ txn'[e].stage \in {"idle", "valid", "begun"} => txn'[e].done = 0
                      /\ txn'[e].stage \in {"paying", "posted"} => txn'[e].done = Len(Doc[e].lines)
                      /\ \A n \in DOMAIN txn'[e].moves[i] : txn'[e].moves[i][n].doc = e
                      /\ InOrder(txn'[e].moves[i], DOMAIN txn'[e].moves[i], e,
                                 LinesUpTo(e, i, txn'[e].done))
    BY DEF MovesWhole, InOrder
  <2>0. /\ OthersKeep(d)
        /\ txn[e].stage \in {"idle", "valid", "begun"} => txn[e].done = 0
        /\ txn[e].stage \in {"paying", "posted"} => txn[e].done = Len(Doc[e].lines)
        /\ \A n \in DOMAIN txn[e].moves[i] : txn[e].moves[i][n].doc = e
        /\ InOrder(txn[e].moves[i], DOMAIN txn[e].moves[i], e, LinesUpTo(e, i, txn[e].done))
    BY <1>1, TxnEffect DEF MovesWhole
  <2>1. CASE e # d
    BY <2>0, <2>1 DEF OthersKeep
  <2>2. CASE e = d /\ (Receive(d) \/ Create(d) \/ Number(d))
    <3>1. txn[d].stage \in {"idle", "valid", "begun"} /\ txn'[d].stage \in {"valid", "begun", "lines"}
      BY <2>2, ReceiveEffect, CreateEffect, NumberEffect DEF Receive, Busy
    <3> QED BY <2>0, <2>2, <3>1, KeptMoves
  <2>3. CASE e = d /\ (EndLines(d) \/ ReadPaid(d) \/ WritePaid(d))
    <3>1. txn'[d].stage \in {"posted", "paying"} /\ txn[d].done = Len(Doc[d].lines)
      BY <2>0, <2>3, EndLinesEffect, WritePaidEffect, EndLinesDone
    <3> QED BY <2>0, <2>3, <3>1, KeptMoves
  <2>4. CASE e = d /\ (Refuse(d) \/ Abort(d) \/ DeadlockVictim(d) \/ Commit(d))
    <3>1. txn'[d] = NoTxn
      BY <2>4 DEF Refuse, Abort, DeadlockVictim, RollBack, Commit, TypeOK
    <3>2. txn'[d].stage = "idle" /\ txn'[d].done = 0 /\ txn'[d].moves[i] = <<>>
      BY <3>1 DEF NoTxn
    <3>3. LinesUpTo(e, i, 0) = {}
      BY LinesSteps
    <3>4. DOMAIN txn'[d].moves[i] = {}
      BY <3>2
    <3> QED BY <2>4, <3>2, <3>3, <3>4, OrderNone
  <2>5. CASE e = d /\ PostLine(d)
    <3>1. PICK line \in Line, x \in Entry :
              /\ line = Doc[d].lines[txn[d].done + 1]
              /\ x = [doc |-> d, qty |-> line.qty, after |-> OnHand(d, line.item) + line.qty]
              /\ txn[d].done \in Nat /\ txn[d].done + 1 \in DOMAIN Doc[d].lines
              /\ txn'[d].done = txn[d].done + 1 /\ txn'[d].stage = "lines"
              /\ txn'[d].moves = [txn[d].moves EXCEPT ![line.item] = Append(@, x)]
      BY <2>5, PostLineMoves
    <3>2. txn[d].moves \in [Items -> Seq(Entry)] /\ line.item \in Items
      BY DEF TypeOK, Txn, Line
    <3>k. PICK k \in Nat : k = txn[d].done
      BY <3>1
    <3>l. Doc[d].lines[k + 1] = line /\ k + 1 \in DOMAIN Doc[d].lines /\ txn'[d].done = k + 1
      BY <3>1, <3>k
    <3>3. CASE i # line.item
      <4>1. txn'[d].moves[i] = txn[d].moves[i]
        BY <3>1, <3>2, <3>3
      <4>2. LinesUpTo(d, i, k + 1) = LinesUpTo(d, i, k)
        <5>1. Doc[d].lines[k + 1].item # i
          BY <3>l, <3>3
        <5> QED BY <3>l, <5>1, LinesSteps
      <4> QED BY <2>0, <2>5, <3>1, <3>k, <3>l, <4>1, <4>2
    <3>4. CASE i = line.item
      <4>1. txn'[d].moves[i] = Append(txn[d].moves[i], x) /\ txn[d].moves[i] \in Seq(Entry)
        BY <3>1, <3>2, <3>4
      <4>2. LinesUpTo(d, i, k + 1) = LinesUpTo(d, i, k) \cup {k + 1}
        <5>1. Doc[d].lines[k + 1].item = i
          BY <3>l, <3>4
        <5> QED BY <3>l, <5>1, LinesNext
      <4>3. /\ \A n \in LinesUpTo(d, i, k) : n < k + 1
            /\ k + 1 \notin LinesUpTo(d, i, k)
        BY <3>l, LinesSteps
      <4>4. x.qty = Doc[d].lines[k + 1].qty /\ x.doc = d
        BY <3>1, <3>l
      <4>5. InOrder(txn[d].moves[i], DOMAIN txn[d].moves[i], d, LinesUpTo(d, i, k))
        BY <2>0, <2>5, <3>k
      <4> DEFINE m == txn[d].moves[i]
      <4>6. InOrder(txn'[d].moves[i], DOMAIN txn'[d].moves[i], d, LinesUpTo(d, i, k + 1))
        <5>1. InOrder(Append(m, x), DOMAIN Append(m, x), d, LinesUpTo(d, i, k) \cup {k + 1})
          BY <4>1, <4>3, <4>4, <4>5, OrderAppend
        <5> QED BY <4>1, <4>2, <5>1
      <4>7. \A n \in DOMAIN txn'[d].moves[i] : txn'[d].moves[i][n].doc = d
        <5>1. \A n \in DOMAIN txn[d].moves[i] : txn[d].moves[i][n].doc = d
          BY <2>0, <2>5
        <5> QED BY <4>1, <4>4, <5>1
      <4> QED BY <2>5, <3>1, <3>l, <4>6, <4>7
    <3> QED BY <3>3, <3>4
  <2> QED
    BY <1>1, <2>1, <2>2, <2>3, <2>4, <2>5 DEF Step
<1>2. CASE UNCHANGED txn
  BY <1>2 DEF MovesWhole, InOrder, LinesUpTo
<1> QED
  BY <1>1, <1>2 DEF Next, EditStep, ReadInvoice, SaveInvoice, ApproveCredit, Destroy,
     ReadCustomer, SaveCustomer, vars

\* Whether a row has its number changes only by its own commit.
LEMMA NumbersKept ==
    ASSUME BooksInv, [Next]_vars, \A d \in Docs : ~Commit(d)
    PROVE  \A e \in Docs : row'[e].number = row[e].number
<1>1. CASE UNCHANGED row
  BY <1>1
<1>2. ASSUME NEW d \in Docs, Create(d)
      PROVE  \A e \in Docs : row'[e].number = row[e].number
  BY <1>2 DEF Create, BooksInv, TypeOK, Row
<1>3. ASSUME NEW d \in Docs, SaveInvoice(d)
      PROVE  \A e \in Docs : row'[e].number = row[e].number
  BY <1>3 DEF SaveInvoice, BooksInv, RowsNumbered, TypeOK
<1>4. ASSUME NEW d \in Docs, ApproveCredit(d)
      PROVE  \A e \in Docs : row'[e].number = row[e].number
  BY <1>4 DEF ApproveCredit, BooksInv, TypeOK, Row
<1>5. ASSUME NEW d \in Docs, Destroy(d)
      PROVE  \A e \in Docs : row'[e].number = row[e].number
  BY <1>5 DEF Destroy, BooksInv, TypeOK, Row
<1> QED
  BY <1>1, <1>2, <1>3, <1>4, <1>5, RowWriters

\* A commit gives a document without a number the next one.
LEMMA CommitNumbers ==
    ASSUME BooksInv, NEW d \in Docs, Commit(d)
    PROVE  /\ row[d].number = 0
           /\ row'[d].number = last[Doc[d].kind] + 1 /\ last[Doc[d].kind] \in Nat
           /\ row'[d].number # 0
           /\ \A e \in Docs : e # d => row'[e].number = row[e].number
<1>1. txn[d].stage = "posted" /\ txn[d].number = last[Doc[d].kind] + 1
  BY DEF Commit, BooksInv, NumberHeld
<1>2. row[d].number = 0
  BY <1>1 DEF BooksInv, RowsNumbered
<1>3. last[Doc[d].kind] \in Nat
  BY DocTypes DEF BooksInv, TypeOK
<1>4. row'[d].number = txn[d].number
  BY CommitRows DEF BooksInv
<1>5. \A e \in Docs : e # d => row'[e].number = row[e].number
  BY CommitRows DEF BooksInv
<1> QED BY <1>1, <1>2, <1>3, <1>4, <1>5

\* PostedWhole is kept: a commit appends the movements of all of its lines.
LEMMA PostedStep ==
    ASSUME BooksInv, MovesWhole, PostedWhole, [Next]_vars
    PROVE  PostedWhole'
<1>1. ASSUME NEW d \in Docs, Commit(d) PROVE PostedWhole'
  <2> SUFFICES ASSUME NEW e \in Docs, NEW i \in Items
               PROVE  IF Numbered(e)' THEN InOrder(ledger'[i], EntriesOf(e, i)', e, LinesOf(e, i))
                      ELSE EntriesOf(e, i)' = {}
    BY DEF PostedWhole, InOrder, LinesOf
  <2> DEFINE l == ledger[i]
             m == txn[d].moves[i]
  <2>1. /\ ledger'[i] = l \o m /\ l \in Seq(Entry) /\ m \in Seq(Entry)
        /\ IF Numbered(e) THEN InOrder(l, EntriesOf(e, i), e, LinesOf(e, i))
           ELSE EntriesOf(e, i) = {}
    BY <1>1 DEF Commit, BooksInv, TypeOK, Txn, PostedWhole
  <2>2. /\ \A n \in DOMAIN m : m[n].doc = d
        /\ InOrder(m, DOMAIN m, d, LinesUpTo(d, i, Len(Doc[d].lines)))
    BY <1>1 DEF Commit, MovesWhole
  <2>3. /\ Numbered(e)' <=> row'[e].number # 0
        /\ Numbered(e) <=> row[e].number # 0
        /\ EntriesOf(e, i) = {n \in DOMAIN l : l[n].doc = e}
    BY DEF Numbered, EntriesOf
  <2>4. EntriesOf(e, i)' = {n \in DOMAIN (l \o m) : (l \o m)[n].doc = e}
    BY <2>1 DEF EntriesOf
  <2>5. /\ DOMAIN l = 1..Len(l) /\ DOMAIN m = 1..Len(m) /\ Len(l) \in Nat /\ Len(m) \in Nat
        /\ DOMAIN (l \o m) = 1..(Len(l) + Len(m))
        /\ \A n \in 1..Len(l) : (l \o m)[n] = l[n]
        /\ \A n \in 1..Len(m) : (l \o m)[Len(l) + n] = m[n]
    BY <2>1, ConcatParts
  <2> HIDE DEF l, m
  <2>6. \A n \in Len(l) + 1 .. Len(l) + Len(m) : (l \o m)[n].doc = d
    <3> SUFFICES ASSUME NEW n \in Len(l) + 1 .. Len(l) + Len(m) PROVE (l \o m)[n].doc = d
      OBVIOUS
    <3>1. n - Len(l) \in 1..Len(m) /\ n = Len(l) + (n - Len(l))
      BY <2>5
    <3>2. (l \o m)[n] = m[n - Len(l)]
      BY <2>5, <3>1
    <3> QED BY <2>2, <2>5, <3>1, <3>2
  <2>7. CASE e # d
    <3>1. EntriesOf(e, i)' = EntriesOf(e, i)
      BY <2>3, <2>4, <2>5, <2>6, <2>7
    <3>2. EntriesOf(e, i) \subseteq DOMAIN l
      BY <2>3
    <3>3. Numbered(e)' <=> Numbered(e)
      <4>1. row'[e].number = row[e].number
        BY <1>1, <2>7, CommitNumbers
      <4> QED BY <2>3, <4>1
    <3>4. CASE Numbered(e)
      <4>1. InOrder(l \o m, EntriesOf(e, i), e, LinesOf(e, i))
        BY <2>1, <3>2, <3>4, OrderKept DEF l, m
      <4> QED BY <2>1, <3>1, <3>3, <3>4, <4>1
    <3> QED BY <2>1, <3>1, <3>3, <3>4
  <2>8. CASE e = d
    <3>1. EntriesOf(d, i) = {} /\ Numbered(d)'
      BY <1>1, <2>1, <2>3, <2>8, CommitNumbers
    <3>2. EntriesOf(d, i)' = Len(l) + 1 .. Len(l) + Len(m)
      <4>1. \A n \in 1..Len(l) : (l \o m)[n].doc # d
        BY <2>3, <2>5, <2>8, <3>1
      <4>2. \A n \in 1..(Len(l) + Len(m)) : n \in 1..Len(l) \/ n \in Len(l) + 1 .. Len(l) + Len(m)
        BY <2>5
      <4>3. \A n \in Len(l) + 1 .. Len(l) + Len(m) : n \in 1..(Len(l) + Len(m))
        BY <2>5
      <4> QED BY <2>4, <2>5, <2>6, <2>8, <4>1, <4>2, <4>3
    <3>3. InOrder(l \o m, Len(l) + 1 .. Len(l) + Len(m), d, LinesOf(d, i))
      BY <2>1, <2>2, LinesSteps, OrderShift
    <3> QED BY <2>1, <2>8, <3>1, <3>2, <3>3
  <2> QED BY <2>7, <2>8
<1>2. CASE \A d \in Docs : ~Commit(d)
  <2>1. ledger' = ledger /\ \A e \in Docs : row'[e].number = row[e].number
    BY <1>2, BookWriters, NumbersKept
  <2> SUFFICES ASSUME NEW e \in Docs, NEW i \in Items
               PROVE  IF Numbered(e)' THEN InOrder(ledger'[i], EntriesOf(e, i)', e, LinesOf(e, i))
                      ELSE EntriesOf(e, i)' = {}
    BY DEF PostedWhole, InOrder, LinesOf
  <2>2. (Numbered(e)' <=> Numbered(e)) /\ EntriesOf(e, i)' = EntriesOf(e, i) /\ ledger'[i] = ledger[i]
    BY <2>1 DEF Numbered, EntriesOf
  <2> QED BY <2>2 DEF PostedWhole
<1> QED BY <1>1, <1>2

\* Nothing has moved at first.
LEMMA WholeInitially == Init => MovesWhole /\ PostedWhole
<1> SUFFICES ASSUME Init PROVE MovesWhole /\ PostedWhole
  OBVIOUS
<1>1. ASSUME NEW d \in Docs, NEW i \in Items
      PROVE  /\ txn[d].stage = "idle" /\ txn[d].done = 0 /\ txn[d].moves[i] = <<>>
             /\ ledger[i] = <<>> /\ row[d].number = 0
  BY DEF Init, NoTxn, NoRow
<1>2. MovesWhole
  <2> SUFFICES ASSUME NEW d \in Docs, NEW i \in Items
               PROVE  /\ txn[d].done = 0
                      /\ txn[d].stage \notin {"paying", "posted"}
                      /\ DOMAIN txn[d].moves[i] = {}
                      /\ InOrder(txn[d].moves[i], DOMAIN txn[d].moves[i], d, LinesUpTo(d, i, txn[d].done))
    BY DEF MovesWhole
  <2>1. DOMAIN txn[d].moves[i] = {}
    BY <1>1
  <2>2. LinesUpTo(d, i, 0) = {}
    BY LinesSteps
  <2>3. InOrder(txn[d].moves[i], {}, d, {})
    BY OrderNone
  <2>4. txn[d].stage = "idle" /\ txn[d].done = 0
    BY <1>1
  <2> QED BY <2>1, <2>2, <2>3, <2>4
<1>3. PostedWhole
  BY <1>1 DEF PostedWhole, Numbered, EntriesOf
<1> QED BY <1>2, <1>3

\* Every document that got its number has all of its stock movements in the ledger,
\* each once and in the order of its lines, and no other document has any, under any
\* interleaving, death, deadlock and refusal of the transactions (post_stock_movement
\* runs in the transaction that takes the number).
THEOREM WholePostings == Spec => []PostedWhole
<1>1. BooksInv /\ MovesWhole /\ PostedWhole /\ [Next]_vars => MovesWhole' /\ PostedWhole'
  BY MovesWholeStep, PostedStep DEF BooksInv
<1> QED BY <1>1, WholeInitially, Invariant, PTL DEF Spec

-----------------------------------------------------------------------------
(* The book *)

\* The quantities of the lines, and their sum over the first k for i.
Qtys(d) == [n \in DOMAIN Doc[d].lines |-> Doc[d].lines[n].qty]

Sum(d, i, k) == SumFunctionOnSet(Qtys(d), LinesUpTo(d, i, k))

\* What a transaction reads of a stock row is what is committed and its own lines.
OnHandSummed ==
    \A d \in Docs, i \in Items : OnHand(d, i) = stock[i] + Sum(d, i, txn[d].done)

\* The documents of a series that have a number.
NumberedOf(k) == {d \in Docs : Numbered(d) /\ Doc[d].kind = k}

\* The last number of a series is the number of its documents.
NumbersCount == \A k \in Kinds : last[k] = Cardinality(NumberedOf(k))

\* The quantity of no lines, and of all of them.
LEMMA SumSteps ==
    ASSUME NEW d \in Docs, NEW i \in Items
    PROVE  /\ Sum(d, i, 0) = 0
           /\ Sum(d, i, Len(Doc[d].lines)) = SumFunctionOnSet(Qtys(d), LinesOf(d, i))
           /\ \A k \in Nat : Sum(d, i, k) \in Int
<1>1. Sum(d, i, 0) = 0
  BY LinesSteps, SumEmpty DEF Sum
<1>2. ASSUME NEW k \in Nat PROVE Sum(d, i, k) \in Int
  <2>1. IsFiniteSet(LinesUpTo(d, i, k))
    BY LinesFinite, FS_Subset DEF LinesUpTo
  <2>2. \A n \in LinesUpTo(d, i, k) : Qtys(d)[n] \in Int
    BY LinesFinite DEF LinesUpTo, Qtys, LinesOf
  <2> QED BY <2>1, <2>2, SumType DEF Sum
<1> QED BY <1>1, <1>2, LinesSteps DEF Sum

\* The quantity of one line more.
LEMMA SumNext ==
    ASSUME NEW d \in Docs, NEW i \in Items, NEW k \in Nat, k + 1 \in DOMAIN Doc[d].lines
    PROVE  /\ Doc[d].lines[k + 1].item = i => Sum(d, i, k + 1) = Sum(d, i, k) + Doc[d].lines[k + 1].qty
           /\ Doc[d].lines[k + 1].item # i => Sum(d, i, k + 1) = Sum(d, i, k)
<1>1. CASE Doc[d].lines[k + 1].item # i
  BY <1>1, LinesSteps DEF Sum
<1>2. CASE Doc[d].lines[k + 1].item = i
  <2>1. LinesUpTo(d, i, k + 1) = LinesUpTo(d, i, k) \cup {k + 1}
    BY <1>2, LinesNext
  <2>2. k + 1 \notin LinesUpTo(d, i, k) /\ k + 1 \in LinesOf(d, i)
    BY <1>2, LinesSteps DEF LinesOf
  <2>3. IsFiniteSet(LinesUpTo(d, i, k)) /\ LinesUpTo(d, i, k) \subseteq LinesOf(d, i)
    BY LinesFinite, FS_Subset DEF LinesUpTo
  <2>4. \A n \in LinesOf(d, i) : Qtys(d)[n] \in Int
    BY LinesFinite DEF Qtys, LinesOf
  <2>5. \A n \in LinesUpTo(d, i, k) \cup {k + 1} : Qtys(d)[n] \in Int
    BY <2>2, <2>3, <2>4
  <2>6. Qtys(d)[k + 1] = Doc[d].lines[k + 1].qty
    BY DEF Qtys
  <2>7. SumFunctionOnSet(Qtys(d), LinesUpTo(d, i, k) \cup {k + 1})
           = SumFunctionOnSet(Qtys(d), LinesUpTo(d, i, k)) + Qtys(d)[k + 1]
    BY <2>2, <2>3, <2>5, SumAdd
  <2> QED BY <1>2, <2>1, <2>6, <2>7 DEF Sum
<1> QED BY <1>1, <1>2

\* OnHandSummed is inductive: a line moves what the transaction sees by its quantity.
LEMMA OnHandStep ==
    ASSUME TypeOK, TypeOK', LocksExclude, MovesChained, MovesWhole, OnHandSummed, [Next]_vars
    PROVE  OnHandSummed'
<1>1. ASSUME NEW d \in Docs, Receive(d) \/ Step(d) \/ Abort(d) \/ DeadlockVictim(d)
      PROVE  OnHandSummed'
  <2> SUFFICES ASSUME NEW e \in Docs, NEW i \in Items
               PROVE  OnHand(e, i)' = stock'[i] + Sum(e, i, txn'[e].done)
    BY DEF OnHandSummed, Sum
  <2>0. /\ OthersKeep(d)
        /\ OnHand(e, i) = stock[i] + Sum(e, i, txn[e].done)
        /\ stock[i] \in Int /\ stock'[i] \in Int
        /\ txn[e].moves[i] # <<>> => StockRow(i) \in txn[e].held
    BY <1>1, TxnEffect DEF OnHandSummed, TypeOK, MovesChained
  <2>1. ASSUME txn'[e].moves = txn[e].moves, txn'[e].done = txn[e].done, stock'[i] = stock[i]
        PROVE  OnHand(e, i)' = stock'[i] + Sum(e, i, txn'[e].done)
    BY <2>0, <2>1 DEF OnHand
  <2>2. ASSUME txn'[e].moves[i] = <<>>, Sum(e, i, txn'[e].done) = 0
        PROVE  OnHand(e, i)' = stock'[i] + Sum(e, i, txn'[e].done)
    BY <2>0, <2>2 DEF OnHand
  <2>3. CASE Commit(d) /\ e # d
    <3>1. txn'[e] = txn[e]
      BY <2>0, <2>3 DEF OthersKeep
    <3>2. CASE txn[e].moves[i] = <<>>
      <4>1. PICK k \in Nat : k = txn[e].done
        BY DEF TypeOK, Txn
      <4>2. LinesUpTo(e, i, k) = {}
        <5>1. InOrder(txn[e].moves[i], DOMAIN txn[e].moves[i], e, LinesUpTo(e, i, k))
          BY <4>1 DEF MovesWhole
        <5>2. DOMAIN txn[e].moves[i] = {}
          BY <3>2
        <5> QED BY <5>1, <5>2 DEF InOrder
      <4> QED BY <2>2, <3>1, <3>2, <4>1, <4>2, SumEmpty DEF Sum
    <3>3. CASE txn[e].moves[i] # <<>>
      <4>1. txn[d].moves[i] = <<>>
        BY <2>0, <2>3, <3>3 DEF LocksExclude, MovesChained
      <4>2. stock'[i] = stock[i]
        BY <2>3, <4>1 DEF Commit, OnHand
      <4> QED BY <2>1, <3>1, <4>2
    <3> QED BY <3>2, <3>3
  <2>4. CASE ~Commit(d) /\ e # d
    <3>1. stock' = stock
      BY <1>1, <2>4 DEF Step, Receive, Create, Number, PostLine, EndLines, ReadPaid, WritePaid,
         Refuse, Abort, DeadlockVictim, RollBack, books
    <3> QED BY <2>0, <2>1, <2>4, <3>1 DEF OthersKeep
  <2>5. CASE e = d /\ (Receive(d) \/ Create(d) \/ Number(d) \/ EndLines(d) \/ ReadPaid(d) \/ WritePaid(d))
    <3>1. stock' = stock
      BY <2>5 DEF Receive, Create, Number, EndLines, ReadPaid, WritePaid, books
    <3> QED BY <2>1, <2>5, <3>1, KeptMoves
  <2>6. CASE e = d /\ (Refuse(d) \/ Abort(d) \/ DeadlockVictim(d) \/ Commit(d))
    <3>1. txn'[d] = NoTxn
      BY <2>6 DEF Refuse, Abort, DeadlockVictim, RollBack, Commit, TypeOK
    <3>2. txn'[d].done = 0 /\ txn'[d].moves[i] = <<>>
      BY <3>1 DEF NoTxn
    <3> QED BY <2>2, <2>6, <3>2, SumSteps
  <2>7. CASE e = d /\ PostLine(d)
    <3>1. PICK line \in Line, x \in Entry :
              /\ line = Doc[d].lines[txn[d].done + 1]
              /\ x = [doc |-> d, qty |-> line.qty, after |-> OnHand(d, line.item) + line.qty]
              /\ txn[d].done \in Nat /\ txn[d].done + 1 \in DOMAIN Doc[d].lines
              /\ txn'[d].done = txn[d].done + 1 /\ txn'[d].stage = "lines"
              /\ txn'[d].moves = [txn[d].moves EXCEPT ![line.item] = Append(@, x)]
      BY <2>7, PostLineMoves
    <3>2. txn[d].moves \in [Items -> Seq(Entry)] /\ line.item \in Items /\ line.qty \in Int
      BY DEF TypeOK, Txn, Line
    <3>3. stock' = stock
      BY <2>7 DEF PostLine, books
    <3>k. PICK k \in Nat : k = txn[d].done
      BY <3>1
    <3>l. Doc[d].lines[k + 1] = line /\ k + 1 \in DOMAIN Doc[d].lines /\ txn'[d].done = k + 1
      BY <3>1, <3>k
    <3>4. CASE i # line.item
      <4>1. txn'[d].moves[i] = txn[d].moves[i]
        BY <3>1, <3>2, <3>4
      <4>2. Doc[d].lines[k + 1].item # i
        BY <3>l, <3>4
      <4>3. Sum(d, i, k + 1) = Sum(d, i, k)
        BY <3>l, <4>2, SumNext
      <4>4. OnHand(d, i)' = OnHand(d, i)
        BY <3>3, <4>1 DEF OnHand
      <4> QED BY <2>0, <2>7, <3>3, <3>k, <3>l, <4>3, <4>4
    <3>5. CASE i = line.item
      <4>1. txn'[d].moves[i] = Append(txn[d].moves[i], x) /\ txn[d].moves[i] \in Seq(Entry)
        BY <3>1, <3>2, <3>5
      <4>2. Doc[d].lines[k + 1].item = i
        BY <3>l, <3>5
      <4>3. Sum(d, i, k + 1) = Sum(d, i, k) + line.qty /\ Sum(d, i, k) \in Int
        BY <3>l, <4>2, SumNext, SumSteps
      <4>4. Append(txn[d].moves[i], x) # <<>>
            /\ Append(txn[d].moves[i], x)[Len(Append(txn[d].moves[i], x))] = x
        BY <4>1
      <4>5. OnHand(d, i)' = x.after
        BY <4>1, <4>4 DEF OnHand
      <4>6. x.after = OnHand(d, i) + line.qty
        BY <3>1, <3>5
      <4> QED BY <2>0, <2>7, <3>2, <3>3, <3>k, <3>l, <4>3, <4>5, <4>6
    <3> QED BY <3>4, <3>5
  <2> QED
    BY <1>1, <2>3, <2>4, <2>5, <2>6, <2>7 DEF Step
<1>2. CASE UNCHANGED <<txn, stock>>
  BY <1>2 DEF OnHandSummed, OnHand, Sum
<1> QED
  BY <1>1, <1>2 DEF Next, EditStep, ReadInvoice, SaveInvoice, ApproveCredit, Destroy,
     ReadCustomer, SaveCustomer, vars, books

\* A series has finitely many documents.
LEMMA EnteredFinite == ASSUME NEW k PROVE IsFiniteSet(NumberedOf(k))
<1>1. NumberedOf(k) \in SUBSET Docs /\ IsFiniteSet(Docs)
  BY SalesPostingAssumption DEF NumberedOf
<1> HIDE DEF NumberedOf
<1> QED BY <1>1, FS_Subset

\* The book counts and adds up as its module does.
LEMMA BookCounts == \A S : Book!Cardinality(S) = Cardinality(S)
BY Zenon DEF Cardinality, Book!Cardinality

\* ... and its sums are sums.
LEMMA BookSums == \A w, S : Book!SumFunctionOnSet(w, S) = SumFunctionOnSet(w, S)
BY Zenon DEF SumFunctionOnSet, FoldFunctionOnSet, MapThenFoldSet,
             Book!SumFunctionOnSet, Book!FoldFunctionOnSet, Book!MapThenFoldSet

\* A commit adds its document to those of its series.
LEMMA CommitEnters ==
    ASSUME BooksInv, NEW d \in Docs, Commit(d)
    PROVE  /\ d \notin NumberedOf(Doc[d].kind)
           /\ NumberedOf(Doc[d].kind)' = NumberedOf(Doc[d].kind) \cup {d}
           /\ \A k \in Kinds : k # Doc[d].kind => NumberedOf(k)' = NumberedOf(k)
<1>1. \A e \in Docs : (Numbered(e)' <=> row'[e].number # 0) /\ (Numbered(e) <=> row[e].number # 0)
  BY DEF Numbered
<1>2. \A e \in Docs : e # d => (Numbered(e)' <=> Numbered(e))
  BY <1>1, CommitNumbers
<1>3. Numbered(d)' /\ ~Numbered(d)
  BY <1>1, CommitNumbers
<1>4. \A k : NumberedOf(k)' = {e \in Docs : Numbered(e)' /\ Doc[e].kind = k}
  BY DEF NumberedOf
<1> QED BY <1>2, <1>3, <1>4 DEF NumberedOf

\* NumbersCount is inductive.
LEMMA CountStep ==
    ASSUME BooksInv, NumbersCount, [Next]_vars
    PROVE  NumbersCount'
<1>1. ASSUME NEW d \in Docs, Commit(d) PROVE NumbersCount'
  <2> SUFFICES ASSUME NEW k \in Kinds PROVE last'[k] = Cardinality(NumberedOf(k)')
    BY DEF NumbersCount
  <2>1. last' = [last EXCEPT ![Doc[d].kind] = last[Doc[d].kind] + 1] /\ last \in [Kinds -> Nat]
        /\ Doc[d].kind \in Kinds
    BY <1>1, DocTypes DEF Commit, BooksInv, NumberHeld, TypeOK
  <2>2. CASE k = Doc[d].kind
    <3>1. Cardinality(NumberedOf(k) \cup {d}) = Cardinality(NumberedOf(k)) + 1
      BY <1>1, <2>2, CommitEnters, EnteredFinite, FS_AddElement
    <3> QED BY <1>1, <2>1, <2>2, <3>1, CommitEnters DEF NumbersCount
  <2>3. CASE k # Doc[d].kind
    BY <1>1, <2>1, <2>3, CommitEnters DEF NumbersCount
  <2> QED BY <2>2, <2>3
<1>2. CASE \A d \in Docs : ~Commit(d)
  <2>1. last' = last
    BY <1>2, BookWriters
  <2>2. \A e \in Docs : Numbered(e)' <=> Numbered(e)
    BY <1>2, NumbersKept DEF Numbered
  <2>3. \A k : NumberedOf(k)' = {e \in Docs : Numbered(e)' /\ Doc[e].kind = k}
    BY DEF NumberedOf
  <2>4. \A k : NumberedOf(k)' = NumberedOf(k)
    BY <2>2, <2>3 DEF NumberedOf
  <2> QED BY <2>1, <2>4 DEF NumbersCount
<1> QED BY <1>1, <1>2

\* The inductive invariant of the refinement.
BookInv == BooksInv /\ MovesWhole /\ OnHandSummed /\ NumbersCount

\* At first the book is empty.
LEMMA BookInitially == Init => BookInv /\ Book!Init
<1> SUFFICES ASSUME Init PROVE BookInv /\ Book!Init
  OBVIOUS
<1>1. \A d \in Docs : ~Numbered(d)
  BY DEF Init, NoRow, Numbered
<1>2. \A k \in Kinds : NumberedOf(k) = {}
  BY <1>1 DEF NumberedOf
<1>3. NumbersCount
  BY <1>2, FS_EmptySet DEF NumbersCount, Init
<1>4. OnHandSummed
  <2> SUFFICES ASSUME NEW d \in Docs, NEW i \in Items
               PROVE  OnHand(d, i) = stock[i] + Sum(d, i, txn[d].done)
    BY DEF OnHandSummed
  <2>1. txn[d].done = 0 /\ txn[d].moves[i] = <<>> /\ stock[i] = 0
    BY DEF Init, NoTxn
  <2> QED BY <2>1, SumSteps DEF OnHand
<1>5. Book!Init
  <2>1. {d \in Docs : Numbered(d)} = {}
    BY <1>1
  <2>2. [d \in Docs |-> row[d].number] = [d \in Docs |-> 0] /\ stock = [i \in Items |-> 0]
    BY DEF Init, NoRow
  <2> QED BY <2>1, <2>2 DEF Book!Init
<1> QED BY <1>3, <1>4, <1>5, IInvInit, WholeInitially DEF BookInv

\* A commit enters its document in the book; nothing else shows in it.
LEMMA BookStep == BookInv /\ [Next]_vars => [Book!Next]_(Book!vars)
<1> SUFFICES ASSUME BookInv, [Next]_vars PROVE [Book!Next]_(Book!vars)
  OBVIOUS
<1> DEFINE entered == {d \in Docs : Numbered(d)}
           number  == [d \in Docs |-> row[d].number]
<1>1. ASSUME NEW d \in Docs, Commit(d) PROVE Book!Enter(d)
  <2>1. d \notin entered /\ entered' = entered \cup {d}
    <3>1. \A e \in Docs : (Numbered(e)' <=> row'[e].number # 0) /\ (Numbered(e) <=> row[e].number # 0)
      BY DEF Numbered
    <3>2. \A e \in Docs : e # d => (Numbered(e)' <=> Numbered(e))
      BY <1>1, <3>1, CommitNumbers DEF BookInv
    <3>3. Numbered(d)' /\ ~Numbered(d)
      BY <1>1, <3>1, CommitNumbers DEF BookInv
    <3>4. entered' = {e \in Docs : Numbered(e)'}
      OBVIOUS
    <3> QED BY <3>2, <3>3, <3>4
  <2>2. number' = [number EXCEPT ![d] = 1 + Cardinality({e \in entered : Doc[e].kind = Doc[d].kind})]
    <3>1. {e \in entered : Doc[e].kind = Doc[d].kind} = NumberedOf(Doc[d].kind)
      BY DEF NumberedOf
    <3>2. last[Doc[d].kind] = Cardinality(NumberedOf(Doc[d].kind)) /\ last[Doc[d].kind] \in Nat
      BY <1>1, DocTypes, CommitNumbers DEF BookInv, NumbersCount
    <3>3. row'[d].number = 1 + Cardinality(NumberedOf(Doc[d].kind))
      BY <1>1, <3>2, CommitNumbers DEF BookInv
    <3>4. \A e \in Docs : e # d => row'[e].number = row[e].number
      BY <1>1, CommitNumbers DEF BookInv
    <3>5. number' = [e \in Docs |-> row'[e].number]
      OBVIOUS
    <3> QED BY <3>1, <3>3, <3>4, <3>5
  <2>3. stock' = [i \in Items |-> stock[i] + Book!Moved(d, i)]
    <3>1. stock' = [i \in Items |-> OnHand(d, i)] /\ txn[d].stage = "posted"
      BY <1>1 DEF Commit
    <3>2. ASSUME NEW i \in Items PROVE OnHand(d, i) = stock[i] + Book!Moved(d, i)
      <4>1. txn[d].done = Len(Doc[d].lines)
        BY <3>1 DEF BookInv, MovesWhole
      <4>2. OnHand(d, i) = stock[i] + Sum(d, i, Len(Doc[d].lines))
        BY <4>1 DEF BookInv, OnHandSummed
      <4> QED BY <4>2, SumSteps, BookSums DEF Book!Moved, Qtys, LinesOf
    <3> QED BY <3>1, <3>2
  <2> QED BY <2>1, <2>2, <2>3, BookCounts DEF Book!Enter
<1>2. CASE \A d \in Docs : ~Commit(d)
  <2>1. stock' = stock /\ \A e \in Docs : row'[e].number = row[e].number
    BY <1>2, BookWriters, NumbersKept DEF BookInv
  <2>2. entered' = entered
    BY <2>1 DEF Numbered
  <2>3. number' = number
    BY <2>1
  <2> QED BY <2>1, <2>2, <2>3 DEF Book!vars
<1> QED BY <1>1, <1>2 DEF Book!Next

\* The finalizations implement DocumentBook: seen by the numbers of the documents, the
\* stock and the last numbers, the lock-by-lock transactions, whichever die, act as if
\* each document were entered in one step, when its transaction commits.
THEOREM KeepsBook == Spec => ImplementsBook
<1>1. BookInv /\ [Next]_vars => BookInv'
  BY MovesWholeStep, OnHandStep, CountStep, TypeStep, LockPreserved, NumberHeldPreserved,
     RowsNumberedPreserved, NumbersUniquePreserved, LedgerPreserved, MovesPreserved DEF BookInv, BooksInv
<1> QED BY <1>1, BookInitially, BookStep, PTL DEF Spec, ImplementsBook, Book!Spec

-----------------------------------------------------------------------------
(* Payments *)

\* The finalized receipts of inv, and those with one more, and what they allocate.
PaidBy(inv)  == {e \in ReceiptsOf(inv) : IsFinal(e)}
PaidWith(d)  == {e \in ReceiptsOf(Doc[d].against) : IsFinal(e) \/ e = d}
PaysFor(S, inv) == SumFunctionOnSet(Allocated, S) >= Doc[inv].amount

\* Pushed documents are finalized or not there, and refer to a finalized one once
\* they have been created.
AllPushed == \A d \in Docs : Doc[d].pushed

PushedWhole ==
    \A d \in Docs :
        /\ row[d].state \in {"none", "final"}
        /\ Refers(d) /\ txn[d].stage \in {"begun", "lines", "paying", "posted"} =>
              IsFinal(Doc[d].against)

\* "paid" is written, or about to be, only where receipts cover the invoice.
PaidCovered ==
    \A d \in Docs :
        /\ row[d].payment = "paid" => PaysFor(PaidBy(d), d)
        /\ patch[d].payment = "paid" => PaysFor(PaidBy(d), d)
        /\ txn[d].payment = "paid" => PaysFor(PaidWith(d), Doc[d].against)

\* More receipts cover no less.
LEMMA CoversMore ==
    ASSUME NEW T, NEW S, T \subseteq S, S \subseteq Docs, NEW inv \in Docs, PaysFor(T, inv)
    PROVE  PaysFor(S, inv)
<1>1. IsFiniteSet(S) /\ IsFiniteSet(T)
  BY FS_Subset, SalesPostingAssumption
<1>2. \A e \in Docs : Allocated[e] \in Nat
  <2> SUFFICES ASSUME NEW e \in Docs PROVE Doc[e].allocated \in Nat
    BY DEF Allocated
  <2>1. Doc[e] \in Request
    BY SalesPostingAssumption
  <2> QED BY <2>1 DEF Request
<1>3. SumFunctionOnSet(Allocated, T) <= SumFunctionOnSet(Allocated, S)
  BY <1>1, <1>2, SumSubset
<1>4. SumFunctionOnSet(Allocated, T) \in Int /\ SumFunctionOnSet(Allocated, S) \in Int
  BY <1>1, <1>2, SumType
<1> QED BY <1>3, <1>4, DocTypes DEF PaysFor

\* PushedWhole is inductive.
LEMMA PushedStep ==
    ASSUME AllPushed, "destroy" \notin Edits, BooksInv, NoneDeleted, PushedWhole, [Next]_vars
    PROVE  PushedWhole'
<1>1. /\ NoneDeleted'
      /\ \A e \in Docs : IsFinal(e) => IsFinal(e)'
  BY FinalStays DEF IsFinal
<1>2. \A e \in Docs : row'[e].state \in {"none", "final"}
  <2>1. ASSUME NEW d \in Docs, Create(d) PROVE row' = row
    BY <2>1 DEF Create, AllPushed
  <2>2. ASSUME NEW d \in Docs, Commit(d)
        PROVE  \A e \in Docs : row'[e].state \in {"none", "final"}
    BY <2>2, CommitRows DEF BooksInv, PushedWhole
  <2>3. ASSUME NEW d \in Docs, SaveInvoice(d)
        PROVE  \A e \in Docs : row'[e].state \in {"none", "final"}
    BY <2>3 DEF SaveInvoice, BooksInv, RowsNumbered, TypeOK, PushedWhole
  <2>4. ASSUME NEW d \in Docs, ApproveCredit(d)
        PROVE  \A e \in Docs : row'[e].state \in {"none", "final"}
    BY <2>4 DEF ApproveCredit, BooksInv, TypeOK, Row, PushedWhole
  <2>5. ASSUME NEW d \in Docs, Destroy(d) PROVE FALSE
    BY <2>5 DEF Destroy, Edit
  <2>6. CASE UNCHANGED row
    BY <2>6 DEF PushedWhole
  <2> QED
    BY <2>1, <2>2, <2>3, <2>4, <2>5, <2>6, RowWriters
<1>3. ASSUME NEW d \in Docs, Refers(d),
             txn'[d].stage \in {"begun", "lines", "paying", "posted"}
      PROVE  IsFinal(Doc[d].against)'
  <2>1. Doc[d].against \in Docs
    BY DocTypes
  <2>2. CASE txn[d].stage \in {"begun", "lines", "paying", "posted"}
    BY <1>1, <1>3, <2>1, <2>2 DEF PushedWhole
  <2>3. CASE txn[d].stage \notin {"begun", "lines", "paying", "posted"}
    <3>1. Create(d)
      <4>1. ASSUME NEW e \in Docs, Receive(e) \/ Step(e) \/ Abort(e) \/ DeadlockVictim(e)
            PROVE  Create(d)
        <5>1. e = d
          BY <1>3, <2>3, <4>1, TxnEffect DEF BooksInv, OthersKeep
        <5> QED BY <1>3, <2>3, <4>1, <5>1, ReceiveEffect, NumberEffect, PostLineEffect, EndLinesEffect,
                   WritePaidEffect, EndEffect DEF BooksInv, Step
      <4>2. txn' = txn => FALSE
        BY <1>3, <2>3
      <4> QED BY <4>1, <4>2 DEF Next, EditStep, ReadInvoice, SaveInvoice, ApproveCredit, Destroy,
                    ReadCustomer, SaveCustomer, vars
    <3>2. IsFinal(Doc[d].against)
      BY <1>3, <2>1, <3>1 DEF Create, Exists, IsFinal, PushedWhole
    <3> QED BY <1>1, <2>1, <3>2
  <2> QED BY <2>2, <2>3
<1> QED BY <1>2, <1>3 DEF PushedWhole

\* Only ReadPaid decides on a payment status.
LEMMA PaymentKept ==
    ASSUME TypeOK, NEW d \in Docs,
           Receive(d) \/ Create(d) \/ Number(d) \/ PostLine(d) \/ EndLines(d) \/ WritePaid(d)
    PROVE  txn'[d].payment = txn[d].payment
<1>1. ASSUME Receive(d) PROVE txn'[d].payment = txn[d].payment
  BY <1>1 DEF Receive, TypeOK, Txn
<1>2. ASSUME Create(d) PROVE txn'[d].payment = txn[d].payment
  BY <1>2 DEF Create, TypeOK, Txn
<1>3. ASSUME Number(d) PROVE txn'[d].payment = txn[d].payment
  BY <1>3 DEF Number, TypeOK, Txn
<1>4. ASSUME PostLine(d) PROVE txn'[d].payment = txn[d].payment
  BY <1>4 DEF PostLine, TypeOK, Txn
<1>5. ASSUME EndLines(d) PROVE txn'[d].payment = txn[d].payment
  BY <1>5 DEF EndLines, TypeOK, Txn
<1>6. ASSUME WritePaid(d) PROVE txn'[d].payment = txn[d].payment
  BY <1>6 DEF WritePaid, TypeOK, Txn
<1> QED BY <1>1, <1>2, <1>3, <1>4, <1>5, <1>6

\* PaidCovered is inductive: between the sum and the commit no receipt is lost.
LEMMA PaidStep ==
    ASSUME AllPushed, "destroy" \notin Edits, BooksInv, NoneDeleted, PushedWhole, PaidCovered, [Next]_vars
    PROVE  PaidCovered'
<1>1. \A e \in Docs : IsFinal(e) => IsFinal(e)'
  BY FinalStays DEF IsFinal
<1>2. \A e \in Docs : Doc[e].against \in Docs
  BY DocTypes
<1>3. ASSUME NEW e \in Docs, PaysFor(PaidBy(e), e) PROVE PaysFor(PaidBy(e)', e)
  <2>1. PaidBy(e) \subseteq PaidBy(e)' /\ PaidBy(e)' \subseteq Docs
    BY <1>1 DEF PaidBy, ReceiptsOf
  <2> QED BY <1>3, <2>1, CoversMore
<1>4. ASSUME NEW e \in Docs, PaysFor(PaidWith(e), Doc[e].against) PROVE PaysFor(PaidWith(e)', Doc[e].against)
  <2>1. PaidWith(e) \subseteq PaidWith(e)' /\ PaidWith(e)' \subseteq Docs
    BY <1>1 DEF PaidWith, ReceiptsOf
  <2> QED BY <1>2, <1>4, <2>1, CoversMore
<1> SUFFICES ASSUME NEW e \in Docs
             PROVE  /\ row'[e].payment = "paid" => PaysFor(PaidBy(e)', e)
                    /\ patch'[e].payment = "paid" => PaysFor(PaidBy(e)', e)
                    /\ txn'[e].payment = "paid" => PaysFor(PaidWith(e)', Doc[e].against)
  BY DEF PaidCovered, PaysFor, Allocated
<1>5. row'[e].payment = "paid" => PaysFor(PaidBy(e)', e)
  <2>1. CASE row'[e].payment = row[e].payment
    BY <1>3, <2>1 DEF PaidCovered
  <2>2. ASSUME NEW d \in Docs, Commit(d), row'[e].payment = "paid" PROVE PaysFor(PaidBy(e)', e)
    <3>1. CASE Pays(d) /\ e = Doc[d].against
      <4>1. row'[e].payment = txn[d].payment
        BY <2>2, <3>1 DEF Commit, Finalized, BooksInv, TypeOK, Row
      <4>2. PaysFor(PaidWith(d), e)
        BY <2>2, <3>1, <4>1 DEF PaidCovered
      <4>3. IsFinal(d)'
        BY <2>2, CommitRows DEF IsFinal, BooksInv
      <4>4. PaidWith(d) \subseteq PaidBy(e)' /\ PaidBy(e)' \subseteq Docs
        BY <1>1, <3>1, <4>3 DEF PaidWith, PaidBy, ReceiptsOf
      <4> QED BY <4>2, <4>4, CoversMore
    <3>2. CASE ~(Pays(d) /\ e = Doc[d].against)
      <4>1. row'[e].payment = row[e].payment
        BY <2>2, <3>2 DEF Commit, Finalized, BooksInv, TypeOK, Row
      <4> QED BY <2>1, <2>2, <4>1
    <3> QED BY <3>1, <3>2
  <2>3. ASSUME NEW d \in Docs, SaveInvoice(d), row'[e].payment = "paid" PROVE PaysFor(PaidBy(e)', e)
    <3>1. CASE e = d
      <4>1. row'[e] = patch[e]
        BY <2>3, <3>1 DEF SaveInvoice, BooksInv, TypeOK
      <4> QED BY <1>3, <2>3, <4>1 DEF PaidCovered
    <3>2. CASE e # d
      <4>1. row'[e] = row[e]
        BY <2>3, <3>2 DEF SaveInvoice, BooksInv, TypeOK
      <4> QED BY <2>1, <2>3, <4>1
    <3> QED BY <3>1, <3>2
  <2>4. ASSUME NEW d \in Docs, Create(d) PROVE row' = row
    BY <2>4 DEF Create, AllPushed
  <2>5. ASSUME NEW d \in Docs, ApproveCredit(d) PROVE row'[e].payment = row[e].payment
    BY <2>5 DEF ApproveCredit, BooksInv, TypeOK, Row
  <2>6. ASSUME NEW d \in Docs, Destroy(d) PROVE FALSE
    BY <2>6 DEF Destroy, Edit
  <2>7. CASE UNCHANGED row
    BY <2>1, <2>7
  <2> QED
    BY <2>1, <2>2, <2>3, <2>4, <2>5, <2>6, <2>7, RowWriters
<1>6. patch'[e].payment = "paid" => PaysFor(PaidBy(e)', e)
  <2>1. CASE patch'[e] = patch[e]
    BY <1>3, <2>1 DEF PaidCovered
  <2>2. ASSUME NEW d \in Docs, ReadInvoice(d), patch'[e] # patch[e] PROVE patch'[e] = row[e]
    BY <2>2 DEF ReadInvoice, BooksInv, TypeOK
  <2>3. ASSUME NEW d \in Docs, SaveInvoice(d), patch'[e] # patch[e] PROVE patch'[e] = NoRow
    BY <2>3 DEF SaveInvoice, BooksInv, TypeOK
  <2>4. CASE patch'[e] = row[e]
    BY <1>3, <2>4 DEF PaidCovered
  <2>5. CASE patch'[e] = NoRow
    BY <2>5 DEF NoRow
  <2> QED
    BY <2>1, <2>2, <2>3, <2>4, <2>5, PatchWriters
<1>7. txn'[e].payment = "paid" => PaysFor(PaidWith(e)', Doc[e].against)
  <2>1. CASE txn'[e].payment = txn[e].payment
    BY <1>4, <2>1 DEF PaidCovered
  <2>2. CASE ReadPaid(e) /\ txn'[e].payment = "paid"
    <3>1. PaidSoFar(e) >= GrandTotal(Doc[e].against)
      BY <2>2 DEF ReadPaid, BooksInv, TypeOK, Txn
    <3>2. IsFinal(Doc[e].against)
      BY <2>2 DEF ReadPaid, LinesPosted, PushedWhole, Refers
    <3>3. {x \in ReceiptsOf(Doc[e].against) : Exists(x) \/ x = e} = PaidWith(e)
      BY DEF PaidWith, Exists, IsFinal, PushedWhole, ReceiptsOf
    <3>4. PaysFor(PaidWith(e), Doc[e].against)
      BY <3>1, <3>2, <3>3 DEF PaidSoFar, GrandTotal, PaysFor
    <3> QED BY <1>4, <3>4
  <2>3. ASSUME NEW d \in Docs, Receive(d) \/ Step(d) \/ Abort(d) \/ DeadlockVictim(d), txn'[e].payment = "paid"
        PROVE  txn'[e].payment = txn[e].payment \/ ReadPaid(e)
    <3>1. CASE e # d
      BY <2>3, <3>1, TxnEffect DEF BooksInv, OthersKeep
    <3>2. CASE e = d
      <4>1. ASSUME Refuse(d) \/ Abort(d) \/ DeadlockVictim(d) \/ Commit(d) PROVE FALSE
        <5>1. txn'[d] = NoTxn
          BY <4>1 DEF Refuse, Abort, DeadlockVictim, RollBack, Commit, BooksInv, TypeOK
        <5> QED BY <2>3, <3>2, <5>1 DEF NoTxn
      <4>2. ASSUME Receive(d) \/ Create(d) \/ Number(d) \/ PostLine(d) \/ EndLines(d) \/ WritePaid(d)
            PROVE  txn'[d].payment = txn[d].payment
        BY <4>2, PaymentKept DEF BooksInv
      <4>3. \/ Refuse(d) \/ Abort(d) \/ DeadlockVictim(d) \/ Commit(d)
            \/ Receive(d) \/ Create(d) \/ Number(d) \/ PostLine(d) \/ EndLines(d) \/ WritePaid(d)
            \/ ReadPaid(d)
        BY <2>3 DEF Step
      <4> QED BY <3>2, <4>1, <4>2, <4>3
    <3> QED BY <3>1, <3>2
  <2>4. CASE txn' = txn
    BY <2>1, <2>4
  <2> QED
    BY <2>1, <2>2, <2>3, <2>4
    DEF Next, EditStep, ReadInvoice, SaveInvoice, ApproveCredit, Destroy, ReadCustomer, SaveCustomer, vars
<1> QED BY <1>5, <1>6, <1>7

\* Where documents are pushed (PushView creates and finalizes a document in one
\* transaction) and none is deleted, an invoice is shown as paid only when finalized
\* receipts cover it, however many receipts of it are finalized at the same time.
THEOREM PaidOnlyCovered ==
    ASSUME AllPushed, "destroy" \notin Edits
    PROVE  Spec => []PaidMeansCovered
<1>1. Init => NoneDeleted /\ PushedWhole /\ PaidCovered
  <2> SUFFICES ASSUME Init PROVE NoneDeleted /\ PushedWhole /\ PaidCovered
    OBVIOUS
  <2>1. \A d \in Docs : /\ row[d].state = "none" /\ row[d].payment = "unpaid" /\ patch[d].payment = "unpaid"
                        /\ txn[d].stage = "idle" /\ txn[d].payment = "unpaid"
    BY DEF Init, NoRow, NoTxn
  <2> QED BY <2>1 DEF NoneDeleted, PushedWhole, PaidCovered
<1>2. BooksInv /\ NoneDeleted /\ PushedWhole /\ PaidCovered /\ [Next]_vars
         => NoneDeleted' /\ PushedWhole' /\ PaidCovered'
  BY FinalStays, PushedStep, PaidStep
<1>3. PaidCovered => PaidMeansCovered
  BY DEF PaidCovered, PaidMeansCovered, PaysFor, PaidBy
<1> QED BY <1>1, <1>2, <1>3, Invariant, PTL DEF Spec

-----------------------------------------------------------------------------
(* One request at a time *)

\* What the theorems of this part assume.
Serial == MaxOpen = 1 /\ Edits \subseteq {"approve"}

\* No request holds a copy of the invoice or of the balance.
NoCopies == edit = {} /\ \A d \in Docs : patch[d] = NoRow

\* One request is open; the balance it read is the balance, and its invoice was
\* checked against that one.
Alone ==
    /\ \A d, e \in Docs : Busy(d) /\ Busy(e) => d = e
    /\ \A d \in Docs : Busy(d) => txn[d].snapshot = balance
    /\ \A d \in Docs : txn[d].stage \in {"lines", "paying", "posted"} => txn[d].credit = CreditOf(d)

LEMMA SerialCases ==
    ASSUME Serial, NoCopies, [Next]_vars
    PROVE  /\ NoCopies'
           /\ \A d \in Docs : ~SaveInvoice(d) /\ ~Destroy(d)
           /\ \A b \in edit : ~SaveCustomer(b)
           /\ \/ \E d \in Docs : \/ Receive(d) \/ Step(d) \/ Abort(d) \/ DeadlockVictim(d)
                                 \/ ApproveCredit(d)
              \/ UNCHANGED vars
<1>1. \A d \in Docs : ~ReadInvoice(d) /\ ~SaveInvoice(d) /\ ~Destroy(d)
  BY DEF ReadInvoice, SaveInvoice, Destroy, Edit, Serial, NoCopies
<1>2. ~ReadCustomer /\ \A b \in edit : ~SaveCustomer(b)
  BY DEF ReadCustomer, Edit, Serial, NoCopies
<1>3. \/ \E d \in Docs : Receive(d) \/ Step(d) \/ Abort(d) \/ DeadlockVictim(d) \/ ApproveCredit(d)
      \/ UNCHANGED vars
  BY <1>1, <1>2 DEF Next, EditStep
<1>4. UNCHANGED <<patch, edit>>
  <2>1. UNCHANGED patch
    BY <1>1, PatchWriters
  <2>2. UNCHANGED edit
    <3>1. ASSUME NEW d \in Docs, Receive(d) \/ Create(d) \/ Number(d) \/ PostLine(d) \/ EndLines(d)
          PROVE  UNCHANGED edit
      BY <3>1 DEF Receive, Create, Number, PostLine, EndLines
    <3>2. ASSUME NEW d \in Docs, ReadPaid(d) \/ WritePaid(d) \/ Commit(d) \/ ApproveCredit(d)
          PROVE  UNCHANGED edit
      BY <3>2 DEF ReadPaid, WritePaid, Commit, ApproveCredit
    <3>3. ASSUME NEW d \in Docs, Refuse(d) \/ Abort(d) \/ DeadlockVictim(d)
          PROVE  UNCHANGED edit
      BY <3>3 DEF Refuse, Abort, DeadlockVictim, RollBack
    <3> QED BY <1>3, <3>1, <3>2, <3>3 DEF Step, vars
  <2> QED BY <2>1, <2>2
<1> QED BY <1>1, <1>2, <1>3, <1>4 DEF NoCopies

\* What a step of a transaction under way does to the balance it read.
LEMMA SnapshotKept ==
    ASSUME TypeOK, NEW d \in Docs,
           Create(d) \/ Number(d) \/ PostLine(d) \/ EndLines(d) \/ ReadPaid(d) \/ WritePaid(d)
    PROVE  txn'[d].snapshot = txn[d].snapshot /\ balance' = balance
<1>1. ASSUME Create(d) PROVE txn'[d].snapshot = txn[d].snapshot /\ balance' = balance
  BY <1>1 DEF Create, TypeOK, Txn
<1>2. ASSUME Number(d) PROVE txn'[d].snapshot = txn[d].snapshot /\ balance' = balance
  BY <1>2 DEF Number, books, TypeOK, Txn
<1>3. ASSUME PostLine(d) PROVE txn'[d].snapshot = txn[d].snapshot /\ balance' = balance
  <2>1. txn'[d].snapshot = txn[d].snapshot
    BY <1>3 DEF PostLine, TypeOK, Txn
  <2> QED BY <1>3, <2>1 DEF PostLine, books
<1>4. ASSUME EndLines(d) PROVE txn'[d].snapshot = txn[d].snapshot /\ balance' = balance
  BY <1>4 DEF EndLines, books, TypeOK, Txn
<1>5. ASSUME ReadPaid(d) PROVE txn'[d].snapshot = txn[d].snapshot /\ balance' = balance
  BY <1>5 DEF ReadPaid, books, TypeOK, Txn
<1>6. ASSUME WritePaid(d) PROVE txn'[d].snapshot = txn[d].snapshot /\ balance' = balance
  BY <1>6 DEF WritePaid, books, TypeOK, Txn
<1> QED BY <1>1, <1>2, <1>3, <1>4, <1>5, <1>6

\* ... and to the outcome of the credit check.
LEMMA CreditKept ==
    ASSUME TypeOK, NEW d \in Docs,
           Create(d) \/ Number(d) \/ PostLine(d) \/ EndLines(d) \/ ReadPaid(d) \/ WritePaid(d)
    PROVE  \/ txn[d].stage = "valid" /\ txn'[d].stage = "begun"
           \/ txn'[d].credit = CreditOf(d)
           \/ txn'[d].credit = txn[d].credit /\ txn[d].stage \in {"lines", "paying", "posted"}
<1>1. ASSUME Create(d) PROVE txn[d].stage = "valid" /\ txn'[d].stage = "begun"
  BY <1>1, CreateEffect
<1>2. ASSUME Number(d) PROVE txn'[d].credit = CreditOf(d)
  BY <1>2 DEF Number, TypeOK, Txn
<1>3. ASSUME PostLine(d) PROVE txn'[d].credit = txn[d].credit /\ txn[d].stage = "lines"
  BY <1>3 DEF PostLine, TypeOK, Txn
<1>4. ASSUME EndLines(d) PROVE txn'[d].credit = txn[d].credit /\ txn[d].stage = "lines"
  BY <1>4 DEF EndLines, LinesPosted, TypeOK, Txn
<1>5. ASSUME ReadPaid(d) PROVE txn'[d].credit = txn[d].credit /\ txn[d].stage = "lines"
  BY <1>5 DEF ReadPaid, LinesPosted, TypeOK, Txn
<1>6. ASSUME WritePaid(d) PROVE txn'[d].credit = txn[d].credit /\ txn[d].stage = "paying"
  BY <1>6 DEF WritePaid, TypeOK, Txn
<1> QED BY <1>1, <1>2, <1>3, <1>4, <1>5, <1>6

\* Alone is inductive.
LEMMA AloneStep ==
    ASSUME Serial, TypeOK, NoCopies, Alone, [Next]_vars
    PROVE  Alone'
<1>1. ASSUME NEW d \in Docs, Receive(d) PROVE Alone'
  <2>1. \A e \in Docs : ~Busy(e)
    <3>1. IsFiniteSet({e \in Docs : Busy(e)})
      BY FS_Subset, SalesPostingAssumption
    <3>2. Cardinality({e \in Docs : Busy(e)}) = 0
      BY <1>1, <3>1, FS_CardinalityType DEF Receive, Serial
    <3> QED BY <3>1, <3>2, FS_EmptySet
  <2>2. \A e \in Docs \ {d} : txn'[e].stage = "idle"
    BY <1>1, <2>1, TxnEffect DEF OthersKeep, Busy
  <2>3. txn'[d].stage = "valid" /\ txn'[d].snapshot = balance /\ balance' = balance
    BY <1>1 DEF Receive, books, TypeOK, Txn
  <2> QED BY <2>2, <2>3 DEF Alone, Busy
<1>2. ASSUME NEW d \in Docs,
             Create(d) \/ Number(d) \/ PostLine(d) \/ EndLines(d) \/ ReadPaid(d) \/ WritePaid(d)
      PROVE  Alone'
  <2>1. Busy(d)
    BY <1>2 DEF Busy, Create, Number, PostLine, EndLines, ReadPaid, WritePaid, LinesPosted
  <2>2. \A e \in Docs \ {d} : txn'[e].stage = "idle"
    BY <1>2, <2>1, TxnEffect DEF OthersKeep, Busy, Alone, Step
  <2>3. txn'[d].snapshot = balance'
    BY <1>2, <2>1, SnapshotKept DEF Alone
  <2>4. txn'[d].stage \in {"lines", "paying", "posted"} => txn'[d].credit = CreditOf(d)
    BY <1>2, CreditKept DEF Alone
  <2>5. CreditOf(d)' = CreditOf(d)
    BY <1>2, SnapshotKept DEF CreditOf, Breach
  <2> QED BY <2>2, <2>3, <2>4, <2>5 DEF Alone, Busy
<1>3. ASSUME NEW d \in Docs, Refuse(d) \/ Abort(d) \/ DeadlockVictim(d) \/ Commit(d)
      PROVE  Alone'
  <2>1. Busy(d)
    <3>1. DeadlockVictim(d) => Busy(d)
      BY DEF DeadlockVictim, Deadlocked, WaitsFor, Busy
    <3> QED BY <1>3, <3>1 DEF Busy, Refuse, Abort, Commit, LinesPosted
  <2>2. \A e \in Docs \ {d} : txn'[e].stage = "idle"
    BY <1>3, <2>1, TxnEffect DEF OthersKeep, Busy, Alone, Step
  <2>3. txn'[d].stage = "idle"
    BY <1>3, EndEffect
  <2> QED BY <2>2, <2>3 DEF Alone, Busy
<1>4. CASE UNCHANGED <<txn, balance>>
  BY <1>4 DEF Alone, Busy, CreditOf, Breach
<1> QED
  BY <1>1, <1>2, <1>3, <1>4, SerialCases DEF Step, ApproveCredit, vars

\* Only a commit enters a document, with the charge of the balance it read.
LEMMA PostedEffect ==
    ASSUME Serial, BooksInv, NoCopies, Alone, [Next]_vars
    PROVE  \/ Posted' = Posted /\ balance' = balance
           \/ \E d \in Docs : /\ Commit(d) /\ d \notin Posted /\ Posted' = Posted \cup {d}
                              /\ balance' = balance + Charge[d]
<1>1. ASSUME NEW d \in Docs, Commit(d)
      PROVE  /\ d \notin Posted /\ Posted' = Posted \cup {d}
             /\ balance' = balance + Charge[d]
  <2>1. row[d].state # "final"
    BY <1>1 DEF Commit, BooksInv, RowsNumbered
  <2>2. Posted' = Posted \cup {d}
    BY <1>1, CommitRows DEF BooksInv, Posted, IsFinal
  <2>3. balance' = balance + Charge[d]
    BY <1>1 DEF Commit, Alone, Busy
  <2> QED BY <2>1, <2>2, <2>3 DEF Posted, IsFinal
<1>2. ASSUME NEW d \in Docs, Create(d) PROVE Posted' = Posted /\ balance' = balance
  <2>1. row[d].state \in {"none", "bare"}
    BY <1>2 DEF Create, BooksInv, RowsNumbered
  <2>2. /\ \A e \in Docs \ {d} : row'[e] = row[e]
        /\ row'[d].state \in {"none", "bare"}
    BY <1>2, <2>1 DEF Create, BooksInv, TypeOK, Row
  <2> QED BY <1>2, <2>1, <2>2 DEF Posted, IsFinal, Create
<1>3. ASSUME NEW d \in Docs, ApproveCredit(d) PROVE Posted' = Posted /\ balance' = balance
  <2>1. \A e \in Docs : row'[e].state = row[e].state
    BY <1>3 DEF ApproveCredit, BooksInv, TypeOK, Row
  <2> QED BY <1>3, <2>1 DEF Posted, IsFinal, ApproveCredit
<1>4. CASE UNCHANGED <<row, balance>>
  BY <1>4 DEF Posted, IsFinal
<1> QED
  BY <1>1, <1>2, <1>3, <1>4, SerialCases, RowWriters, BalanceWriters

\* What the documents are charged is a whole number.
LEMMA Charges ==
    /\ IsFiniteSet(Posted)
    /\ \A d \in Docs : Charge[d] \in Int
<1>1. Posted \subseteq Docs
  BY DEF Posted
<1> QED BY <1>1, FS_Subset, ChargeType, SalesPostingAssumption

\* BalanceExact is kept.
LEMMA BalanceStep ==
    ASSUME Serial, BooksInv, NoCopies, Alone, BalanceExact, [Next]_vars
    PROVE  BalanceExact'
<1>1. CASE Posted' = Posted /\ balance' = balance
  BY <1>1 DEF BalanceExact, Charge
<1>2. ASSUME NEW d \in Docs, d \notin Posted, Posted' = Posted \cup {d}, balance' = balance + Charge[d]
      PROVE  BalanceExact'
  <2>1. \A e \in Posted \cup {d} : Charge[e] \in Int
    BY Charges DEF Posted
  <2>2. SumFunctionOnSet(Charge, Posted \cup {d}) = SumFunctionOnSet(Charge, Posted) + Charge[d]
    BY <1>2, <2>1, Charges, SumAdd
  <2> QED BY <1>2, <2>2 DEF BalanceExact, Charge
<1> QED BY <1>1, <1>2, PostedEffect

\* Nothing is open, posted or owed at first.
LEMMA SerialInitially == Init => NoCopies /\ Alone /\ BalanceExact
<1> SUFFICES ASSUME Init PROVE NoCopies /\ Alone /\ BalanceExact
  OBVIOUS
<1>1. \A d \in Docs : row[d].state = "none" /\ patch[d] = NoRow /\ txn[d].stage = "idle"
  BY DEF Init, NoRow, NoTxn
<1>2. Posted = {}
  BY <1>1 DEF Posted, IsFinal
<1> QED BY <1>1, <1>2, SumEmpty DEF Init, NoCopies, Alone, Busy, BalanceExact

\* Where requests are served one at a time and no copy of the balance or of an invoice
\* is saved over it, Customer.outstanding_balance is the sum of the invoices less the
\* receipts and credit notes, whatever dies or is refused: the balance that
\* finalize_invoice, finalize_receipt and finalize_credit_note read before their
\* transaction begins is harmless as long as nothing else writes it meanwhile.
THEOREM BalanceIsExact ==
    ASSUME Serial
    PROVE  Spec => []BalanceExact
<1>1. Init => NoCopies /\ Alone /\ BalanceExact
  BY SerialInitially
<1>2. BooksInv /\ NoCopies /\ Alone /\ BalanceExact /\ [Next]_vars => NoCopies' /\ Alone' /\ BalanceExact'
  BY SerialCases, AloneStep, BalanceStep DEF BooksInv
<1> QED BY <1>1, <1>2, Invariant, PTL DEF Spec

\* BreachFlagged, of one step.
Flagged ==
    \A d \in Docs :
        /\ Doc[d].kind = "invoice"
        /\ ~Numbered(d) /\ Numbered(d)'
        /\ Doc[d].blocked \/ SumFunctionOnSet(Charge, Posted') > CreditLimit
        => row'[d].credit # "ok"

\* The commit of an invoice that is over the limit or for a blocked customer carries the flag.
LEMMA FlaggedStep ==
    ASSUME Serial, BooksInv, NoCopies, Alone, BalanceExact', [Next]_vars
    PROVE  Flagged
<1> SUFFICES ASSUME NEW d \in Docs, Doc[d].kind = "invoice", row[d].number = 0, row'[d].number # 0,
                    Doc[d].blocked \/ SumFunctionOnSet(Charge, Posted') > CreditLimit
             PROVE  row'[d].credit # "ok"
  BY DEF Flagged, Numbered
<1>1. ASSUME NEW c \in Docs, Commit(c) PROVE row'[d].credit # "ok"
  <2>1. c = d
    BY <1>1, CommitRows DEF BooksInv
  <2>2. row' = [row EXCEPT ![d] = Finalized(d)]
    BY <1>1, <2>1 DEF Commit, Pays
  <2>3. row'[d].credit = txn[d].credit
    BY <2>2 DEF Finalized, BooksInv, TypeOK, Row
  <2>4. txn[d].credit = CreditOf(d)
    BY <1>1, <2>1 DEF Commit, Alone
  <2>5. balance' = txn[d].snapshot + Doc[d].amount
    BY <1>1, <2>1 DEF Commit, Charge
  <2>6. Doc[d].blocked \/ balance' > CreditLimit
    BY DEF BalanceExact, Charge
  <2> QED BY <2>3, <2>4, <2>5, <2>6 DEF CreditOf, Breach
<1>2. ASSUME NEW c \in Docs, Create(c) PROVE row'[d].number = row[d].number
  BY <1>2 DEF Create, BooksInv, TypeOK, Row
<1>3. ASSUME NEW c \in Docs, ApproveCredit(c) PROVE row'[d].number = row[d].number
  BY <1>3 DEF ApproveCredit, BooksInv, TypeOK, Row
<1>4. CASE UNCHANGED row
  BY <1>4
<1> QED
  BY <1>1, <1>2, <1>3, <1>4, SerialCases, RowWriters, BalanceWriters

\* ... and each invoice of a blocked customer or over the credit limit is flagged when it
\* is finalized (credit_status in finalize_invoice).
THEOREM BreachesFlagged ==
    ASSUME Serial
    PROVE  Spec => BreachFlagged
<1>1. Init => NoCopies /\ Alone /\ BalanceExact
  BY SerialInitially
<1>2. BooksInv /\ NoCopies /\ Alone /\ BalanceExact /\ [Next]_vars => NoCopies' /\ Alone' /\ BalanceExact'
  BY SerialCases, AloneStep, BalanceStep DEF BooksInv
<1>3. BooksInv /\ NoCopies /\ Alone /\ BalanceExact' /\ [Next]_vars => [Flagged]_vars
  BY FlaggedStep
<1>4. BreachFlagged <=> [][Flagged]_vars
  BY PTL DEF BreachFlagged, Flagged
<1> QED BY <1>1, <1>2, <1>3, <1>4, Invariant, PTL DEF Spec

-----------------------------------------------------------------------------
(* The payment status *)

\* What the payment status of the invoice says when receipts S are allocated to it.
PaymentOf(S, inv) ==
    IF S = {} THEN "unpaid" ELSE IF PaysFor(S, inv) THEN "paid" ELSE "partial"

StatusExact ==
    \A d \in Docs :
        /\ Doc[d].kind = "invoice" => row[d].payment = PaymentOf(PaidBy(d), d)
        /\ Pays(d) /\ IsFinal(d) => IsFinal(Doc[d].against)
        /\ Pays(d) /\ txn[d].stage \in {"paying", "posted"} =>
              txn[d].payment = PaymentOf(PaidWith(d), Doc[d].against)

\* Nothing is finalized and no payment status written but by Commit.
LEMMA StatusFrame ==
    ASSUME Serial, AllPushed, BooksInv, NoCopies, [Next]_vars, \A c \in Docs : ~Commit(c), NEW e \in Docs
    PROVE  row'[e].state = row[e].state /\ row'[e].payment = row[e].payment
<1>1. ASSUME NEW c \in Docs, Create(c) PROVE row' = row
  BY <1>1 DEF Create, AllPushed
<1>2. ASSUME NEW c \in Docs, ApproveCredit(c)
      PROVE  row'[e].state = row[e].state /\ row'[e].payment = row[e].payment
  BY <1>2 DEF ApproveCredit, BooksInv, TypeOK, Row
<1>3. CASE UNCHANGED row
  BY <1>3
<1> QED
  BY <1>1, <1>2, <1>3, SerialCases, RowWriters

\* A commit that finalizes an invoice, a receipt or a credit note.
LEMMA StatusCommit ==
    ASSUME Serial, AllPushed, BooksInv, Alone, PushedWhole, StatusExact, NEW c \in Docs, Commit(c)
    PROVE  StatusExact'
<1>1. \A e \in Docs : IsFinal(e)' <=> (IsFinal(e) \/ e = c)
  BY CommitRows DEF BooksInv, IsFinal
<1>2. row[c].state # "final"
  BY DEF Commit, BooksInv, RowsNumbered
<1>3. \A e \in Docs : txn'[e].stage = "idle"
  <2>1. \A e \in Docs \ {c} : txn'[e].stage = "idle"
    BY TxnEffect DEF OthersKeep, Busy, Alone, Step, Commit, BooksInv
  <2> QED BY <2>1, EndEffect DEF BooksInv
<1>4. Refers(c) => IsFinal(Doc[c].against)
  BY DEF Commit, PushedWhole
<1>5. ASSUME NEW e \in Docs, Doc[e].kind = "invoice"
      PROVE  row'[e].payment = PaymentOf(PaidBy(e)', e)
  <2>1. CASE Pays(c) /\ e = Doc[c].against
    <3>1. row'[e].payment = txn[c].payment
      BY <1>5, <2>1 DEF Commit, Finalized, BooksInv, TypeOK, Row
    <3>2. txn[c].payment = PaymentOf(PaidWith(c), e)
      BY <2>1 DEF Commit, StatusExact
    <3>3. PaidBy(e)' = PaidWith(c)
      BY <1>1, <2>1 DEF PaidBy, PaidWith, ReceiptsOf
    <3> QED BY <3>1, <3>2, <3>3
  <2>2. CASE ~(Pays(c) /\ e = Doc[c].against)
    <3>1. row'[e].payment = row[e].payment
      BY <2>2 DEF Commit, Finalized, BooksInv, TypeOK, Row
    <3>2. PaidBy(e)' = PaidBy(e)
      BY <1>1, <2>2 DEF PaidBy, ReceiptsOf
    <3> QED BY <1>5, <3>1, <3>2 DEF StatusExact
  <2> QED BY <2>1, <2>2
<1>6. ASSUME NEW e \in Docs, Pays(e), IsFinal(e)' PROVE IsFinal(Doc[e].against)'
  BY <1>1, <1>4, <1>6, DocTypes DEF StatusExact, Refers
<1> QED BY <1>3, <1>5, <1>6 DEF StatusExact, PaymentOf, PaysFor, Allocated

\* StatusExact is inductive.
LEMMA StatusStep ==
    ASSUME Serial, AllPushed, BooksInv, NoCopies, Alone, PushedWhole, StatusExact, [Next]_vars
    PROVE  StatusExact'
<1>1. ASSUME NEW c \in Docs, Commit(c) PROVE StatusExact'
  BY <1>1, StatusCommit
<1>2. CASE \A c \in Docs : ~Commit(c)
  <2>1. \A e \in Docs : (IsFinal(e)' <=> IsFinal(e)) /\ row'[e].payment = row[e].payment
    BY <1>2, StatusFrame DEF IsFinal
  <2>2. \A e \in Docs : PaidBy(e)' = PaidBy(e) /\ PaidWith(e)' = PaidWith(e)
    BY <2>1 DEF PaidBy, PaidWith, ReceiptsOf
  <2>3. ASSUME NEW e \in Docs, Pays(e), txn'[e].stage \in {"paying", "posted"}
        PROVE  txn'[e].payment = PaymentOf(PaidWith(e), Doc[e].against)
    <3>1. CASE txn'[e] = txn[e]
      BY <2>3, <3>1 DEF StatusExact
    <3>2. CASE WritePaid(e)
      BY <2>3, <3>2, PaymentKept DEF StatusExact, BooksInv, WritePaid
    <3>3. CASE ReadPaid(e)
      <4>1. txn'[e].payment = IF PaidSoFar(e) >= GrandTotal(Doc[e].against) THEN "paid" ELSE "partial"
        BY <3>3 DEF ReadPaid, BooksInv, TypeOK, Txn
      <4>2. IsFinal(Doc[e].against)
        BY <2>3, <3>3 DEF ReadPaid, LinesPosted, PushedWhole, Refers
      <4>3. {x \in ReceiptsOf(Doc[e].against) : Exists(x) \/ x = e} = PaidWith(e)
        BY DEF PaidWith, Exists, IsFinal, PushedWhole, ReceiptsOf
      <4>4. PaidWith(e) # {}
        BY <2>3 DEF PaidWith, ReceiptsOf
      <4> QED BY <4>1, <4>2, <4>3, <4>4 DEF PaidSoFar, GrandTotal, PaysFor, PaymentOf
    <3>4. \A c \in Docs : (Receive(c) \/ Step(c) \/ Abort(c) \/ DeadlockVictim(c)) /\ txn'[e] # txn[e] => c = e
      BY TxnEffect DEF BooksInv, OthersKeep
    <3>5. Receive(e) => txn'[e].stage = "valid"
      BY ReceiveEffect DEF BooksInv
    <3>6. Create(e) => txn'[e].stage = "begun"
      BY CreateEffect DEF BooksInv
    <3>7. Number(e) \/ PostLine(e) => txn'[e].stage = "lines"
      BY NumberEffect, PostLineEffect DEF BooksInv
    <3>8. ~EndLines(e)
      BY <2>3 DEF EndLines
    <3>9. Refuse(e) \/ Abort(e) \/ DeadlockVictim(e) => txn'[e].stage = "idle"
      BY EndEffect DEF BooksInv
    <3> QED
      BY <1>2, <2>3, <3>1, <3>2, <3>3, <3>4, <3>5, <3>6, <3>7, <3>8, <3>9, SerialCases
      DEF Step, ApproveCredit, vars
  <2> SUFFICES ASSUME NEW e \in Docs
               PROVE  /\ Doc[e].kind = "invoice" => row'[e].payment = PaymentOf(PaidBy(e)', e)
                      /\ Pays(e) /\ IsFinal(e)' => IsFinal(Doc[e].against)'
                      /\ Pays(e) /\ txn'[e].stage \in {"paying", "posted"} =>
                            txn'[e].payment = PaymentOf(PaidWith(e)', Doc[e].against)
    BY DEF StatusExact, PaymentOf, PaysFor, Allocated
  <2>4. Doc[e].kind = "invoice" => row'[e].payment = PaymentOf(PaidBy(e)', e)
    BY <2>1, <2>2 DEF StatusExact
  <2>5. Pays(e) /\ IsFinal(e)' => IsFinal(Doc[e].against)'
    BY <2>1, DocTypes DEF StatusExact
  <2> QED BY <2>2, <2>3, <2>4, <2>5
<1> QED BY <1>1, <1>2

\* ... and, with pushed documents, payment_status is what the allocations of the
\* finalized receipts say (the sum in finalize_receipt).
THEOREM PaymentStatusIsExact ==
    ASSUME Serial, AllPushed
    PROVE  Spec => []PaymentStatusExact
<1>1. Init => NoCopies /\ Alone /\ NoneDeleted /\ PushedWhole /\ StatusExact
  <2> SUFFICES ASSUME Init PROVE NoCopies /\ Alone /\ NoneDeleted /\ PushedWhole /\ StatusExact
    OBVIOUS
  <2>1. \A d \in Docs : /\ row[d].state = "none" /\ row[d].payment = "unpaid"
                        /\ txn[d].stage = "idle" /\ patch[d] = NoRow
    BY DEF Init, NoRow, NoTxn
  <2>2. \A d \in Docs : PaidBy(d) = {}
    BY <2>1 DEF PaidBy, ReceiptsOf, IsFinal
  <2> QED BY <2>1, <2>2 DEF Init, NoCopies, Alone, Busy, NoneDeleted, PushedWhole, StatusExact, PaymentOf, IsFinal
<1>2. "destroy" \notin Edits
  BY DEF Serial
<1>3. BooksInv /\ NoCopies /\ Alone /\ NoneDeleted /\ PushedWhole /\ StatusExact /\ [Next]_vars
         => NoCopies' /\ Alone' /\ NoneDeleted' /\ PushedWhole' /\ StatusExact'
  BY <1>2, SerialCases, AloneStep, FinalStays, PushedStep, StatusStep DEF BooksInv
<1>4. StatusExact => PaymentStatusExact
  BY DEF StatusExact, PaymentStatusExact, PaymentOf, PaysFor, PaidBy
<1> QED BY <1>1, <1>3, <1>4, Invariant, PTL DEF Spec

-----------------------------------------------------------------------------
(* Who waits for whom *)

\* What a request needs to go on: the conditions of its Step actions.
Ready(d) ==
    \/ txn[d].stage \in {"valid", "posted"}
    \/ txn[d].stage = "begun" /\ Free(d, SeqRow(Doc[d].kind)) /\ Free(d, InvoiceRow(d))
    \/ /\ txn[d].stage = "lines" /\ txn[d].done < Len(Doc[d].lines)
       /\ Free(d, StockRow(Doc[d].lines[txn[d].done + 1].item))
    \/ LinesPosted(d)
    \/ txn[d].stage = "paying" /\ Free(d, InvoiceRow(Doc[d].against))

\* The requests of S wait for nobody outside of S.
WaitWithin(S) == \A d \in S, e \in Docs : WaitsFor(d, e) => e \in S

\* A request, with those it waits for, directly or through others, is never stuck
\* for good: one of them can go on, or is for the deadlock detector to abort.
NeverStuck ==
    \A S \in SUBSET Docs :
        (\E d \in S : Busy(d)) /\ WaitWithin(S) => \E d \in S : Busy(d) /\ (Ready(d) \/ Deadlocked(d))

\* A request that is over holds no lock, and no request posts more lines than it has.
LocksServed ==
    \A d \in Docs :
        /\ txn[d].stage = "idle" => txn[d].held = {}
        /\ txn[d].done <= Len(Doc[d].lines)

\* A request goes through the lines of its document, and stops at the last.
LEMMA DoneSteps ==
    ASSUME TypeOK, NEW d \in Docs, Receive(d) \/ Step(d) \/ Abort(d) \/ DeadlockVictim(d),
           txn[d].done <= Len(Doc[d].lines)
    PROVE  txn'[d].done <= Len(Doc[d].lines)
<1>1. Len(Doc[d].lines) \in Nat
  BY DocTypes
<1>2. CASE Refuse(d) \/ Abort(d) \/ DeadlockVictim(d) \/ Commit(d)
  <2>1. txn'[d] = NoTxn
    BY <1>2 DEF Refuse, Abort, DeadlockVictim, RollBack, Commit, TypeOK
  <2> QED BY <1>1, <2>1 DEF NoTxn
<1>3. CASE Receive(d) \/ Create(d) \/ Number(d) \/ EndLines(d) \/ ReadPaid(d) \/ WritePaid(d)
  BY <1>3, KeptMoves
<1>4. CASE PostLine(d)
  <2>1. /\ txn[d].done \in Nat /\ txn[d].done < Len(Doc[d].lines)
        /\ txn'[d].done = txn[d].done + 1
    BY <1>4 DEF PostLine, TypeOK, Txn
  <2> QED BY <1>1, <2>1
<1> QED BY <1>2, <1>3, <1>4 DEF Step

\* Every end of a request gives its locks back.
LEMMA LocksServedStep ==
    ASSUME TypeOK, LocksServed, [Next]_vars
    PROVE  LocksServed'
<1>1. ASSUME NEW d \in Docs, Receive(d) \/ Step(d) \/ Abort(d) \/ DeadlockVictim(d)
      PROVE  LocksServed'
  <2>1. txn'[d].stage = "idle" => txn'[d].held = {}
    <3>1. CASE Refuse(d) \/ Abort(d) \/ DeadlockVictim(d) \/ Commit(d)
      BY <3>1, EndEffect
    <3>2. CASE Receive(d) \/ Create(d) \/ Number(d) \/ PostLine(d)
      BY <3>2, ReceiveEffect, CreateEffect, NumberEffect, PostLineEffect
    <3>3. CASE EndLines(d) \/ ReadPaid(d) \/ WritePaid(d)
      BY <3>3, EndLinesEffect, WritePaidEffect
    <3> QED BY <1>1, <3>1, <3>2, <3>3 DEF Step
  <2>2. txn'[d].done <= Len(Doc[d].lines)
    BY <1>1, DoneSteps DEF LocksServed
  <2>3. \A e \in Docs \ {d} : txn'[e] = txn[e]
    BY <1>1, TxnEffect DEF OthersKeep
  <2> QED BY <2>1, <2>2, <2>3 DEF LocksServed
<1>2. CASE UNCHANGED txn
  BY <1>2 DEF LocksServed
<1> QED
  BY <1>1, <1>2 DEF Next, EditStep, ReadInvoice, SaveInvoice, ApproveCredit, Destroy,
                    ReadCustomer, SaveCustomer, vars

\* A request that cannot go on waits for another one, which is still being served.
LEMMA WaitsOrGoes ==
    ASSUME TypeOK, LocksServed, NEW d \in Docs, Busy(d), ~Ready(d)
    PROVE  \E e \in Docs : WaitsFor(d, e) /\ Busy(e)
<1>1. /\ txn[d].stage \in {"begun", "lines", "paying"} /\ txn[d].done \in Nat
      /\ Len(Doc[d].lines) \in Nat
  BY DocTypes DEF Ready, Busy, TypeOK, Txn
<1>2. \E e \in Docs : WaitsFor(d, e)
  <2>1. CASE txn[d].stage = "begun"
    BY <2>1 DEF Ready, Free, WaitsFor
  <2>2. CASE txn[d].stage = "lines"
    <3>1. txn[d].done < Len(Doc[d].lines)
      BY <1>1, <2>2 DEF Ready, LinesPosted, LocksServed
    <3> QED BY <2>2, <3>1 DEF Ready, Free, WaitsFor
  <2>3. CASE txn[d].stage = "paying"
    BY <2>3 DEF Ready, Free, WaitsFor
  <2> QED BY <1>1, <2>1, <2>2, <2>3
<1>3. \A e \in Docs : WaitsFor(d, e) => txn[e].held # {}
  BY DEF WaitsFor
<1> QED BY <1>2, <1>3 DEF LocksServed, Busy

\* Those that cannot go on are finitely many, and some of them wait in a circle.
LEMMA NoneStuck ==
    ASSUME TypeOK, LocksServed
    PROVE  NeverStuck
<1> SUFFICES ASSUME NEW S \in SUBSET Docs, NEW b \in S, Busy(b), WaitWithin(S),
                    \A d \in S : Busy(d) => ~Ready(d)
             PROVE  \E d \in S : Busy(d) /\ Deadlocked(d)
  BY DEF NeverStuck
<1> DEFINE Waiting == {d \in S : Busy(d)}
           W == {p \in Docs \X Docs : WaitsFor(p[1], p[2])}
<1>1. IsFiniteSet(Waiting) /\ Waiting # {} /\ Waiting \subseteq S
  <2>1. Waiting \in SUBSET Docs /\ b \in Waiting
    OBVIOUS
  <2> HIDE DEF Waiting
  <2>2. IsFiniteSet(Docs)
    BY SalesPostingAssumption
  <2>3. IsFiniteSet(Waiting)
    BY <2>1, <2>2, FS_Subset
  <2>4. Waiting \subseteq S
    BY DEF Waiting
  <2> QED BY <2>1, <2>3, <2>4
<1>2. \A x \in Waiting : <<x, x>> \notin W
  BY DEF WaitsFor
<1>3. \A x \in Waiting : \E y \in Waiting : <<x, y>> \in W
  <2> SUFFICES ASSUME NEW x \in Waiting PROVE \E y \in Waiting : <<x, y>> \in W
    OBVIOUS
  <2>1. PICK y \in Docs : WaitsFor(x, y) /\ Busy(y)
    BY WaitsOrGoes
  <2>2. y \in Waiting
    BY <2>1 DEF WaitWithin
  <2> QED BY <2>1, <2>2
<1>4. \A x, y \in Waiting : <<x, y>> \in W => WaitsFor(x, y)
  OBVIOUS
<1>5. \A d \in Waiting : Busy(d)
  OBVIOUS
<1> HIDE DEF Waiting, W
<1>6. PICK T \in SUBSET Waiting :
          /\ T # {}
          /\ \A x \in T : (\E y \in T : <<x, y>> \in W) /\ (\E y \in T : <<y, x>> \in W)
  BY <1>1, <1>2, <1>3, WaitingCycle
<1>7. \A d \in T : Deadlocked(d)
  <2> SUFFICES ASSUME NEW d \in T PROVE Deadlocked(d)
    OBVIOUS
  <2>1. T \in SUBSET Docs
    BY <1>1, <1>6
  <2>2. \A x \in T : (\E y \in T : WaitsFor(x, y)) /\ (\E y \in T : WaitsFor(y, x))
    BY <1>4, <1>6
  <2> QED BY <2>1, <2>2 DEF Deadlocked
<1> QED BY <1>1, <1>5, <1>6, <1>7

\* PostgreSQL's wait-for graph is enough: the requests a request waits for, whatever
\* documents and items there are, always have one among them that can go on, or is on
\* a cycle and is aborted.  No lock is left behind by a request that is over.
THEOREM RequestsNeverStuck == Spec => []NeverStuck
<1>1. Init => LocksServed
  <2>1. \A d \in Docs : Len(Doc[d].lines) \in Nat
    BY DocTypes
  <2> QED BY <2>1 DEF Init, LocksServed, NoTxn
<1>2. TypeOK /\ LocksServed /\ [Next]_vars => LocksServed'
  BY LocksServedStep
<1>3. TypeOK /\ LocksServed => NeverStuck
  BY NoneStuck
<1> QED BY <1>1, <1>2, <1>3, TypeCorrect, PTL DEF Spec
=============================================================================
