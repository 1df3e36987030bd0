--------------------------- MODULE StockTransfer ---------------------------
(***************************************************************************)
(* Completion of stock transfers (backend/apps/inventory): van loads,      *)
(* unloads and warehouse transfers.  complete() tests the status on its    *)
(* own copy and then moves the lines out of one godown and into another in *)
(* one transaction, which locks a stock row at its first movement and      *)
(* keeps it to the end.  Calls overlap, deadlock and die; a PATCH saves    *)
(* the copy of the transfer it read; a transfer may be deleted at any      *)
(* time, since no row of it is locked.                                     *)
(***************************************************************************)
EXTENDS Integers, Sequences, SequencesExt, FiniteSets, FiniteSetsExt, Functions

CONSTANTS Transfers, Sheet,  \* Sheet[t]: type, godowns and lines of a transfer
          Godowns, Goods, Opening, \* Opening: the quantity of every stock row at first
          Callers,           \* requests to complete() and PATCH at a time
          NoQty, NoTransfer,
          MaxStockDeaths, MaxStockCalls \* bounds: dead transactions, requests

TransferTypes == {"van_load", "van_unload", "warehouse_transfer"}

ASSUME StockAssumption ==
    /\ Sheet \in [Transfers -> [type : TransferTypes, from : Godowns, to : Godowns,
                                lines : Seq([item : Goods, expected : Int, actual : Int])]]
    /\ IsFiniteSet(Godowns)
    /\ Opening \in Int
    /\ NoTransfer \notin Transfers
    /\ MaxStockDeaths \in Nat /\ MaxStockCalls \in Nat

VARIABLES
    onHand,   \* onHand[r]: VanStock.qty_on_hand of r = <<godown, item>>
    moved,    \* the committed StockLedgerEntry rows, in the order of commits
    transfer, \* transfer[t]: its status, or "gone"
    lined,    \* lined[t]: whether its lines are there
    request,  \* request[c]: the call being served
    stockDeaths, stockCalls

transferVars == <<onHand, moved, transfer, lined, request, stockDeaths, stockCalls>>

StockRows == Godowns \X Goods

OutType == [van_load |-> "transfer_out", van_unload |-> "van_unload",
            warehouse_transfer |-> "transfer_out"]
InType  == [van_load |-> "van_load", van_unload |-> "transfer_in",
            warehouse_transfer |-> "transfer_in"]

Idle == [stage |-> "idle", t |-> NoTransfer, copy |-> "draft", todo |-> <<>>, done |-> <<>>]

Qty(line) == IF line.actual # NoQty THEN line.actual ELSE line.expected

\* One post_stock_movement.
StockEntry(t, godown, line, qty, type) == [ref |-> t, row |-> <<godown, line.item>>, qty |-> qty, type |-> type, after |-> 0]

\* The movements of a transfer: each line leaves one godown and enters the other.
Movements(t) ==
    LET sheet == Sheet[t] IN
    [n \in 1..2 * Len(sheet.lines) |->
        LET goods == sheet.lines[(n + 1) \div 2] IN
        IF n % 2 = 1 THEN StockEntry(t, sheet.from, goods, -Qty(goods), OutType[sheet.type])
        ELSE StockEntry(t, sheet.to, goods, Qty(goods), InType[sheet.type])]

\* The quantities of ledger entries, those on a row, and what these add up to.
Quantity(entries) == [n \in DOMAIN entries |-> entries[n].qty]
On(entries, r)    == {n \in DOMAIN entries : entries[n].row = r}
Net(entries, r)   == SumFunctionOnSet(Quantity(entries), On(entries, r))

\* qty_on_hand as a transaction sees it: what it wrote last, or what is committed.
Seen(done, r) == IF On(done, r) = {} THEN onHand[r] ELSE done[Max(On(done, r))].after

\* Rows a transaction holds FOR UPDATE.
Held(c) == {e.row : e \in ToSet(request[c].done)}

\* Mutant of RowUnlocked: the row is read without select_for_update.
RowUnlocked_Never(r, c) == TRUE

RowUnlocked(r, c) == \A d \in Callers \ {c} : r \notin Held(d)

StockInit ==
    /\ onHand = [r \in StockRows |-> Opening]
    /\ moved = <<>>
    /\ transfer = [t \in Transfers |-> "draft"]
    /\ lined = [t \in Transfers |-> TRUE]
    /\ request = [c \in Callers |-> Idle]
    /\ stockDeaths = 0
    /\ stockCalls = 0

Become(c, r) == request' = [request EXCEPT ![c] = r]

ReceiveCall(c, t, stage) ==
    /\ request[c] = Idle
    /\ stockCalls < MaxStockCalls
    /\ transfer[t] # "gone"
    /\ stockCalls' = stockCalls + 1
    /\ Become(c, [Idle EXCEPT !.stage = stage, !.t = t, !.copy = transfer[t]])
    /\ UNCHANGED <<onHand, moved, transfer, lined, stockDeaths>>

\* complete(): get_object and the test of its status; a completed one is answered 400.
ReadTransfer(c, t) == transfer[t] # "completed" /\ ReceiveCall(c, t, "lines")

\* complete_stock_transfer reads the lines; a deleted transfer has none left.
ReadLines(c) ==
    /\ request[c].stage = "lines"
    /\ Become(c, [request[c] EXCEPT !.stage = "posting",
                  !.todo = IF lined[request[c].t] THEN Movements(request[c].t) ELSE <<>>])
    /\ UNCHANGED <<onHand, moved, transfer, lined, stockDeaths, stockCalls>>

\* post_stock_movement: lock the row, read it, write it and the ledger entry.
PostMovement(c) ==
    LET e == Head(request[c].todo) IN
    /\ request[c].stage = "posting"
    /\ request[c].todo # <<>>
    /\ RowUnlocked(e.row, c)
    /\ Become(c, [request[c] EXCEPT !.todo = Tail(@),
                  !.done = Append(@, [e EXCEPT !.after = Seen(request[c].done, e.row) + e.qty])])
    /\ UNCHANGED <<onHand, moved, transfer, lined, stockDeaths, stockCalls>>

\* The status is saved and the transaction commits; without its row the save
\* raises and everything is rolled back.
Complete(c) ==
    LET t == request[c].t
        gone == transfer[t] = "gone" IN
    /\ request[c].stage = "posting"
    /\ request[c].todo = <<>>
    /\ IF gone THEN UNCHANGED <<onHand, moved, transfer>>
       ELSE /\ onHand' = [r \in StockRows |-> Seen(request[c].done, r)]
            /\ moved' = moved \o request[c].done
            /\ transfer' = [transfer EXCEPT ![t] = "completed"]
    /\ Become(c, Idle)
    /\ UNCHANGED <<lined, stockDeaths, stockCalls>>

CallWaitsFor(c, d) ==
    /\ c # d
    /\ request[c].stage = "posting"
    /\ request[c].todo # <<>>
    /\ Head(request[c].todo).row \in Held(d)

\* A cycle of waiting transactions: each waits for one of them.
CallDeadlocked(c) ==
    \E S \in SUBSET Callers :
       /\ c \in S
       /\ \A d \in S : (\E e \in S : CallWaitsFor(d, e)) /\ (\E e \in S : CallWaitsFor(e, d))

\* PostgreSQL aborts one of the waiters.
CallVictim(c) ==
    /\ CallDeadlocked(c)
    /\ Become(c, Idle)
    /\ UNCHANGED <<onHand, moved, transfer, lined, stockDeaths, stockCalls>>

\* The process dies; an open transaction is rolled back.
CallDies(c) ==
    /\ request[c] # Idle
    /\ stockDeaths < MaxStockDeaths
    /\ stockDeaths' = stockDeaths + 1
    /\ Become(c, Idle)
    /\ UNCHANGED <<onHand, moved, transfer, lined, stockCalls>>

\* PUT or PATCH of the transfer: serializer.save() writes every column of the
\* copy, and inserts the row again, without its lines, if it was deleted.
ReadPatch(c, t) == ReceiveCall(c, t, "patch")

SavePatch(c) ==
    /\ request[c].stage = "patch"
    /\ transfer' = [transfer EXCEPT ![request[c].t] = request[c].copy]
    /\ Become(c, Idle)
    /\ UNCHANGED <<onHand, moved, lined, stockDeaths, stockCalls>>

\* DELETE of the transfer and its lines.
DestroyTransfer(t) ==
    /\ stockCalls < MaxStockCalls
    /\ transfer[t] # "gone"
    /\ stockCalls' = stockCalls + 1
    /\ transfer' = [transfer EXCEPT ![t] = "gone"]
    /\ lined' = [lined EXCEPT ![t] = FALSE]
    /\ UNCHANGED <<onHand, moved, request, stockDeaths>>

StockNext ==
    \/ \E c \in Callers, t \in Transfers : ReadTransfer(c, t) \/ ReadPatch(c, t)
    \/ \E c \in Callers :
          \/ ReadLines(c) \/ PostMovement(c) \/ Complete(c)
          \/ CallVictim(c) \/ CallDies(c) \/ SavePatch(c)
    \/ \E t \in Transfers : DestroyTransfer(t)

StockSpec == StockInit /\ [][StockNext]_transferVars

-----------------------------------------------------------------------------
(* Properties *)

StockTypeOK ==
    /\ onHand \in [StockRows -> Int]
    /\ \A k \in DOMAIN moved : moved[k].ref \in Transfers /\ moved[k].row \in StockRows
    /\ transfer \in [Transfers -> {"draft", "completed", "gone"}]
    /\ lined \in [Transfers -> BOOLEAN]
    /\ \A c \in Callers : request[c].stage \in {"idle", "lines", "posting", "patch"}
    /\ stockDeaths \in 0..MaxStockDeaths /\ stockCalls \in 0..MaxStockCalls

\* Transfers neither make nor lose goods: over all godowns an item has the
\* quantity it began with, and every stock row is what its ledger entries add up
\* to, however completions overlap, deadlock, die, are repeated or meet a DELETE.
ItemsConserved ==
    /\ \A i \in Goods :
          SumFunctionOnSet([g \in Godowns |-> onHand[<<g, i>>]], Godowns)
              = SumFunctionOnSet([g \in Godowns |-> Opening], Godowns)
    /\ \A r \in StockRows : onHand[r] = Opening + Net(moved, r)
=============================================================================
