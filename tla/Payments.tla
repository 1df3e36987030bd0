------------------------------ MODULE Payments ------------------------------
(***************************************************************************)
(* Collection through a payment gateway (backend/apps/payments).  An order *)
(* records an intent; the gateway tells of it by signed webhooks, as often *)
(* as it likes and in parallel, and verify_and_record_payment posts one    *)
(* receipt in the transaction that marks the order paid.  It looks at the  *)
(* signature and the order only: a webhook of a failed or a merely         *)
(* authorized payment counts like any other.  Change requests and the      *)
(* admin site may change connections and orders at any time, and a DELETE  *)
(* a receipt.  finalize_receipt itself is SalesPosting's subject.          *)
(***************************************************************************)
EXTENDS Naturals, Sequences, FiniteSets

CONSTANTS Bills,            \* invoices
          Amounts,          \* amounts asked for
          Secrets, NoSecret, \* webhook secrets of connections
          PayHooks,         \* webhook calls served at a time
          MaxOrders, MaxHookCalls, MaxPayEdits \* bounds

VARIABLES
    connection, \* PaymentGatewayConnection rows, newest first: [type, active, secret]
    payOrder,   \* PaymentOrder rows: [bill, type, gid, amount, status, receipt]
    checkout,   \* the gateway's orders: [gid, secret it signs with]
    receipt,    \* the receipts ever posted with their allocation: [bill, amount, of]
    retouched,     \* orders that were saved or deleted outside of the webhook
    hook,       \* hook[h]: the webhook being served
    hookCalls, payEdits

paymentVars == <<connection, payOrder, checkout, receipt, retouched, hook, hookCalls, payEdits>>

NoHook == [stage |-> "idle", gid |-> 0, o |-> 0, seen |-> "created"]

PayStatus == {"created", "paid", "failed", "gone"} \* gone: the row is deleted

Mock == [type |-> "mock", active |-> TRUE, secret |-> NoSecret]

Active == {k \in DOMAIN connection : connection[k].active}

\* _active_connection: the newest active row, or a new mock one.
WithActive == IF Active = {} THEN <<Mock>> \o connection ELSE connection
FirstActive == LET rows == WithActive IN
    rows[CHOOSE k \in DOMAIN rows : rows[k].active /\ \A m \in 1..(k - 1) : ~rows[m].active]

PayInit ==
    /\ connection = <<>> /\ payOrder = <<>> /\ receipt = <<>>
    /\ checkout = {} /\ retouched = {}
    /\ hook = [h \in PayHooks |-> NoHook]
    /\ hookCalls = 0 /\ payEdits = 0

Administered ==
    /\ payEdits < MaxPayEdits
    /\ payEdits' = payEdits + 1

\* The administrator configures a gateway, or a change request changes the type or
\* is_active of a row; a deleted row counts like an inactive one.
Switch ==
    /\ Administered
    /\ \/ \E s \in Secrets : connection' = <<[type |-> "razorpay", active |-> TRUE, secret |-> s]>> \o connection
       \/ \E k \in DOMAIN connection, type \in {"mock", "razorpay"}, active \in BOOLEAN :
             connection' = [connection EXCEPT ![k] =
                               [type |-> type, active |-> active, secret |-> connection[k].secret]]
    /\ UNCHANGED <<payOrder, checkout, receipt, retouched, hook, hookCalls>>

\* create_payment_order: a mock order stays here; otherwise the gateway, which needs
\* credentials, is asked first and may have the order although the call failed.
CreateOrder(b, amount) ==
    LET gateway == FirstActive
        fresh == 1..MaxOrders \ ({c.gid : c \in checkout} \cup {payOrder[o].gid : o \in DOMAIN payOrder})
        gid == CHOOSE g \in fresh : TRUE
        row == [bill |-> b, type |-> gateway.type, gid |-> gid, amount |-> amount,
                status |-> "created", receipt |-> 0] IN
    /\ fresh # {}
    /\ connection' = WithActive
    /\ \/ gateway.type = "mock" /\ payOrder' = Append(payOrder, row) /\ UNCHANGED checkout
       \/ /\ gateway.type = "razorpay" /\ gateway.secret # NoSecret
          /\ checkout' = checkout \cup {[gid |-> gid, secret |-> gateway.secret]}
          /\ payOrder' \in {payOrder, Append(payOrder, row)}
    /\ UNCHANGED <<receipt, retouched, hook, hookCalls, payEdits>>

\* The gateway calls about an order of its own, again and again and whatever became
\* of the payment; the signature must be made with the secret of the connection that
\* is active now.
ReceiveHook(h, c) ==
    /\ hook[h] = NoHook
    /\ hookCalls < MaxHookCalls
    /\ hookCalls' = hookCalls + 1
    /\ FirstActive.secret # NoSecret /\ FirstActive.secret = c.secret
    /\ hook' = [hook EXCEPT ![h] = [NoHook EXCEPT !.stage = "select", !.gid = c.gid]]
    /\ UNCHANGED <<connection, payOrder, checkout, receipt, retouched, payEdits>>

\* The orders a webhook may mean; get() raises unless there is one.
OrdersOf(gid) == {o \in DOMAIN payOrder : payOrder[o].status # "gone" /\ payOrder[o].gid = gid}

\* Mutant of RowFree: the order is read without select_for_update.
RowFree_Unlocked(o) == TRUE

\* No webhook holds the row.
RowFree(o) == \A h \in PayHooks : hook[h].stage = "locked" => hook[h].o # o

\* select_for_update().get(...) reads the row when it has got the lock.
LockOrder(h, o) ==
    /\ hook[h].stage = "select"
    /\ OrdersOf(hook[h].gid) = {o}
    /\ RowFree(o)
    /\ hook' = [hook EXCEPT ![h] = [stage |-> "locked", gid |-> hook[h].gid, o |-> o, seen |-> payOrder[o].status]]
    /\ UNCHANGED <<connection, payOrder, checkout, receipt, retouched, hookCalls, payEdits>>

\* A paid order is left alone; else receipt, allocation and status commit together.
RecordPayment(h) ==
    LET o == hook[h].o IN
    /\ hook[h].stage = "locked"
    /\ IF hook[h].seen = "paid" THEN UNCHANGED <<payOrder, receipt>>
       ELSE /\ receipt' = Append(receipt, [bill |-> payOrder[o].bill, amount |-> payOrder[o].amount, of |-> o])
            /\ payOrder' = [payOrder EXCEPT ![o].status = "paid", ![o].receipt = Len(receipt')]
    /\ hook' = [hook EXCEPT ![h] = NoHook]
    /\ UNCHANGED <<connection, checkout, retouched, hookCalls, payEdits>>

\* The call dies, finalize_receipt raises or get() found no order or several:
\* everything is rolled back.
AbortHook(h) ==
    /\ hook[h] # NoHook
    /\ hook' = [hook EXCEPT ![h] = NoHook]
    /\ UNCHANGED <<connection, payOrder, checkout, receipt, retouched, hookCalls, payEdits>>

\* The admin site saves a form of the order with any values, when no webhook holds
\* the row, or deletes it; with its invoice it is deleted too.
EditOrder(o, row) ==
    /\ Administered
    /\ payOrder[o].status # "gone" /\ RowFree(o)
    /\ payOrder' = [payOrder EXCEPT ![o] = row]
    /\ retouched' = retouched \cup {o}
    /\ UNCHANGED <<connection, checkout, receipt, hook, hookCalls>>

\* A receipt is deleted: the order that names it stays paid and names none (SET_NULL).
DropReceipt(o) ==
    /\ Administered
    /\ payOrder[o].receipt # 0 /\ RowFree(o)
    /\ payOrder' = [payOrder EXCEPT ![o].receipt = 0]
    /\ UNCHANGED <<connection, checkout, receipt, retouched, hook, hookCalls>>

PayNext ==
    \/ Switch
    \/ \E b \in Bills, amount \in Amounts : CreateOrder(b, amount)
    \/ \E h \in PayHooks :
          \/ \E c \in checkout : ReceiveHook(h, c)
          \/ \E o \in DOMAIN payOrder : LockOrder(h, o)
          \/ RecordPayment(h) \/ AbortHook(h)
    \/ \E o \in DOMAIN payOrder :
          \/ DropReceipt(o)
          \/ \E b \in Bills, gid \in 1..MaxOrders, amount \in Amounts, s \in PayStatus, r \in 0..Len(receipt) :
                EditOrder(o, [bill |-> b, type |-> payOrder[o].type, gid |-> gid, amount |-> amount,
                              status |-> s, receipt |-> r])

PaySpec == PayInit /\ [][PayNext]_paymentVars

-----------------------------------------------------------------------------
(* Properties *)

PayTypeOK ==
    /\ \A k \in DOMAIN connection : connection[k].active \in BOOLEAN
    /\ \A o \in DOMAIN payOrder :
          /\ payOrder[o].bill \in Bills /\ payOrder[o].status \in PayStatus
          /\ payOrder[o].receipt \in 0..Len(receipt)
    /\ retouched \subseteq DOMAIN payOrder
    /\ \A h \in PayHooks : hook[h].stage \in {"idle", "select", "locked"} /\ hook[h].o \in 0..Len(payOrder)
    /\ hookCalls \in 0..MaxHookCalls /\ payEdits \in 0..MaxPayEdits

\* Money is recorded once: an order nobody changed by hand is paid exactly when one
\* receipt was ever posted for it, of its amount and for its invoice, and it names
\* that receipt unless it was deleted since -- though the gateway repeats its
\* webhooks, also after the receipt is gone, calls overlap and die before their
\* commit, and the connection is switched in between.
OrdersSettleOnce ==
    /\ \A o \in DOMAIN payOrder \ retouched :
          LET posted == {r \in DOMAIN receipt : receipt[r].of = o} IN
          IF payOrder[o].status = "paid"
          THEN \E r \in posted :
                  /\ posted = {r} /\ payOrder[o].receipt \in {r, 0}
                  /\ receipt[r].bill = payOrder[o].bill /\ receipt[r].amount = payOrder[o].amount
          ELSE posted = {}
    /\ \A r \in DOMAIN receipt : receipt[r].of \in DOMAIN payOrder
=============================================================================
