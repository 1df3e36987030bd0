---------------------------- MODULE Goods_proofs ----------------------------
(***************************************************************************)
(* Proofs about the goods and their prices: completions of transfers       *)
(* conserve the stock, whatever they overlap with, and computing a         *)
(* document's totals once more does not change them; and what schemes take *)
(* off stays within what a line costs.                                     *)
(***************************************************************************)
EXTENDS StockTransfer, Billing, SequenceTheorems, Sums

-----------------------------------------------------------------------------
(* Stock transfers *)

TransferStatuses == {"draft", "completed", "gone"}

Move == [ref : Transfers, row : StockRows, qty : Int,
         type : {"transfer_out", "transfer_in", "van_load", "van_unload"}, after : Int]

Call == [stage : {"idle", "lines", "posting", "patch"}, t : Transfers \cup {NoTransfer},
         copy : TransferStatuses, todo : Seq(Move), done : Seq(Move)]

\* What entries add up to over all godowns, and what it should be after n movements
\* of a transfer: nothing, but for a line that has left and not arrived.
GoodsTotal(entries, i) == SumFunctionOnSet([g \in Godowns |-> Net(entries, <<g, i>>)], Godowns)

Drift(t, n, i) ==
    LET goods == Sheet[t].lines[(n + 1) \div 2] IN
    IF n % 2 = 1 /\ goods.item = i THEN -Qty(goods) ELSE 0

\* A call that posts has done the first movements of its transfer and has the others to do.
OnSheet(q) ==
    \/ q.todo = <<>> /\ q.done = <<>>
    \/ /\ Len(q.done) + Len(q.todo) = Len(Movements(q.t))
       /\ \A n \in 1..Len(q.todo) : q.todo[n] = Movements(q.t)[Len(q.done) + n]

CallOK(q) ==
    /\ q \in Call
    /\ q.stage # "idle" => q.t \in Transfers
    /\ IF q.stage = "posting" THEN OnSheet(q) ELSE q.todo = <<>> /\ q.done = <<>>
    /\ \A i \in Goods : GoodsTotal(q.done, i) = Drift(q.t, Len(q.done), i)

-----------------------------------------------------------------------------
(* Ledger entries *)

\* What a ledger is made of.
LEMMA EntryType ==
    ASSUME NEW l \in Seq(Move)
    PROVE  /\ Len(l) \in Nat /\ DOMAIN l = 1..Len(l)
           /\ \A n \in 1..Len(l) : l[n] \in Move /\ Quantity(l)[n] = l[n].qty /\ Quantity(l)[n] \in Int
<1>1. Len(l) \in Nat /\ DOMAIN l = 1..Len(l) /\ \A n \in 1..Len(l) : l[n] \in Move
  OBVIOUS
<1> QED BY <1>1 DEF Quantity, Move

LEMMA NetType ==
    ASSUME NEW l \in Seq(Move), NEW r
    PROVE  IsFiniteSet(On(l, r)) /\ On(l, r) \subseteq 1..Len(l) /\ Net(l, r) \in Int
<1>1. On(l, r) \subseteq 1..Len(l)
  BY EntryType DEF On
<1>2. IsFiniteSet(On(l, r))
  <2>1. IsFiniteSet(1..Len(l))
    BY EntryType, FS_Interval
  <2> QED BY <1>1, <2>1, FS_Subset
<1>3. Net(l, r) \in Int
  BY <1>1, <1>2, EntryType, SumType DEF Net
<1> QED BY <1>1, <1>2, <1>3

\* Nothing moved, nothing changed.
LEMMA NetEmpty == \A r : Net(<<>>, r) = 0 /\ On(<<>>, r) = {}
<1>1. \A r : On(<<>>, r) = {}
  BY DEF On
<1> QED BY <1>1, SumEmpty DEF Net

\* The rows of one entry more, and what it adds up to.
LEMMA OnAppend ==
    ASSUME NEW l \in Seq(Move), NEW e \in Move, NEW r
    PROVE  /\ e.row = r => On(Append(l, e), r) = On(l, r) \cup {Len(l) + 1}
           /\ e.row # r => On(Append(l, e), r) = On(l, r)
           /\ Append(l, e)[Len(l) + 1] = e
           /\ \A n \in 1..Len(l) : Append(l, e)[n] = l[n]
<1>1. /\ Len(l) \in Nat /\ DOMAIN l = 1..Len(l) /\ DOMAIN Append(l, e) = 1..Len(l) + 1
      /\ Append(l, e)[Len(l) + 1] = e
      /\ \A n \in 1..Len(l) : Append(l, e)[n] = l[n]
  OBVIOUS
<1>2. 1..Len(l) + 1 = 1..Len(l) \cup {Len(l) + 1}
  BY <1>1
<1> QED BY <1>1, <1>2 DEF On

LEMMA NetAppend ==
    ASSUME NEW l \in Seq(Move), NEW e \in Move, NEW r
    PROVE  Net(Append(l, e), r) = Net(l, r) + (IF e.row = r THEN e.qty ELSE 0)
<1> DEFINE a == Append(l, e)
<1>1. a \in Seq(Move) /\ Len(a) = Len(l) + 1 /\ Len(l) \in Nat
  OBVIOUS
<1>2. /\ e.row = r => On(a, r) = On(l, r) \cup {Len(l) + 1}
      /\ e.row # r => On(a, r) = On(l, r)
      /\ a[Len(l) + 1] = e
      /\ \A n \in 1..Len(l) : a[n] = l[n]
  BY OnAppend
<1> HIDE DEF a
<1>8. \A n \in 1..Len(a) : Quantity(a)[n] = a[n].qty
  BY <1>1, EntryType
<1>9. \A n \in 1..Len(l) : Quantity(l)[n] = l[n].qty /\ Quantity(l)[n] \in Int
  BY EntryType
<1>3. \A n \in 1..Len(l) : Quantity(a)[n] = Quantity(l)[n] /\ Quantity(l)[n] \in Int
  BY <1>1, <1>2, <1>8, <1>9
<1>4. Quantity(a)[Len(l) + 1] = e.qty /\ e.qty \in Int
  <2>1. Len(l) + 1 \in 1..Len(a)
    BY <1>1
  <2>2. e.qty \in Int
    BY DEF Move
  <2> QED BY <1>2, <1>8, <2>1, <2>2
<1>5. SumFunctionOnSet(Quantity(a), On(l, r)) = SumFunctionOnSet(Quantity(l), On(l, r))
  BY <1>3, NetType, SumSame
<1>6. CASE e.row = r
  <2>1. Len(l) + 1 \notin On(l, r) /\ IsFiniteSet(On(l, r))
    BY <1>1, NetType
  <2>2. \A n \in On(l, r) \cup {Len(l) + 1} : Quantity(a)[n] \in Int
    BY <1>3, <1>4, NetType
  <2>3. SumFunctionOnSet(Quantity(a), On(l, r) \cup {Len(l) + 1})
           = SumFunctionOnSet(Quantity(a), On(l, r)) + Quantity(a)[Len(l) + 1]
    BY <2>1, <2>2, SumAdd
  <2> QED BY <1>2, <1>4, <1>5, <1>6, <2>3 DEF Net, a
<1>7. CASE e.row # r
  BY <1>2, <1>5, <1>7, NetType DEF Net, a
<1> QED BY <1>6, <1>7

\* A commit appends its entries: their sums add up.
LEMMA NetConcat ==
    ASSUME NEW l \in Seq(Move), NEW m \in Seq(Move), NEW r
    PROVE  Net(l \o m, r) = Net(l, r) + Net(m, r)
<1> DEFINE S == {k \in Nat : k <= Len(m) => Net(l \o SubSeq(m, 1, k), r) = Net(l, r) + Net(SubSeq(m, 1, k), r)}
<1>1. 0 \in S
  <2>1. SubSeq(m, 1, 0) = <<>> /\ l \o <<>> = l
    OBVIOUS
  <2>2. Net(l, r) \in Int
    BY NetType
  <2>3. Net(l \o SubSeq(m, 1, 0), r) = Net(l, r) /\ Net(SubSeq(m, 1, 0), r) = 0
    BY <2>1, NetEmpty
  <2> QED BY <2>2, <2>3
<1>2. ASSUME NEW k \in Nat, k \in S PROVE k + 1 \in S
  <2> SUFFICES ASSUME k + 1 <= Len(m)
               PROVE  Net(l \o SubSeq(m, 1, k + 1), r) = Net(l, r) + Net(SubSeq(m, 1, k + 1), r)
    OBVIOUS
  <2>1. /\ SubSeq(m, 1, k) \in Seq(Move) /\ m[k + 1] \in Move /\ l \o SubSeq(m, 1, k) \in Seq(Move)
        /\ SubSeq(m, 1, k + 1) = Append(SubSeq(m, 1, k), m[k + 1])
    BY SubSeqProperties
  <2>2. l \o Append(SubSeq(m, 1, k), m[k + 1]) = Append(l \o SubSeq(m, 1, k), m[k + 1])
    BY <2>1
  <2>3. Net(l \o SubSeq(m, 1, k), r) = Net(l, r) + Net(SubSeq(m, 1, k), r)
    BY <1>2
  <2>4. /\ Net(Append(l \o SubSeq(m, 1, k), m[k + 1]), r)
             = Net(l \o SubSeq(m, 1, k), r) + (IF m[k + 1].row = r THEN m[k + 1].qty ELSE 0)
        /\ Net(Append(SubSeq(m, 1, k), m[k + 1]), r)
             = Net(SubSeq(m, 1, k), r) + (IF m[k + 1].row = r THEN m[k + 1].qty ELSE 0)
    BY <2>1, NetAppend
  <2> DEFINE x == IF m[k + 1].row = r THEN m[k + 1].qty ELSE 0
  <2>5. Net(l, r) \in Int /\ Net(SubSeq(m, 1, k), r) \in Int
    BY <2>1, NetType
  <2>6. x \in Int
    BY <2>1 DEF Move
  <2>7. /\ Net(l \o SubSeq(m, 1, k + 1), r) = Net(l, r) + Net(SubSeq(m, 1, k), r) + x
        /\ Net(SubSeq(m, 1, k + 1), r) = Net(SubSeq(m, 1, k), r) + x
    BY <2>1, <2>2, <2>3, <2>4
  <2> HIDE DEF x
  <2> QED BY <2>5, <2>6, <2>7
<1>4. SubSeq(m, 1, Len(m)) = m
  OBVIOUS
<1>5. Len(m) \in Nat /\ Len(m) <= Len(m)
  OBVIOUS
<1>6. Len(m) \in S => Net(l \o SubSeq(m, 1, Len(m)), r) = Net(l, r) + Net(SubSeq(m, 1, Len(m)), r)
  BY <1>5
<1> HIDE DEF S
<1>3. Len(m) \in S
  BY <1>1, <1>2, <1>5, SetInduction
<1> QED BY <1>3, <1>4, <1>6

-----------------------------------------------------------------------------
(* What entries add up to over the godowns *)

\* The totals over the godowns go the same way.
LEMMA TotalType ==
    ASSUME IsFiniteSet(Godowns), NEW l \in Seq(Move), NEW i
    PROVE  GoodsTotal(l, i) \in Int
<1> DEFINE w == [g \in Godowns |-> Net(l, <<g, i>>)]
<1>1. \A g \in Godowns : w[g] \in Int
  BY NetType
<1> HIDE DEF w
<1>2. SumFunctionOnSet(w, Godowns) \in Int
  BY <1>1, SumType
<1> QED BY <1>2 DEF GoodsTotal, w

LEMMA TotalEmpty ==
    ASSUME IsFiniteSet(Godowns), NEW i
    PROVE  GoodsTotal(<<>>, i) = 0
<1> DEFINE w == [g \in Godowns |-> Net(<<>>, <<g, i>>)]
<1>1. \A g \in Godowns : w[g] = 0
  BY NetEmpty
<1> HIDE DEF w
<1>2. SumFunctionOnSet(w, Godowns) = 0
  BY <1>1, SumZero
<1> QED BY <1>2 DEF GoodsTotal, w

LEMMA TotalAppend ==
    ASSUME IsFiniteSet(Godowns), NEW l \in Seq(Move), NEW e \in Move, NEW i
    PROVE  GoodsTotal(Append(l, e), i) = GoodsTotal(l, i) + (IF e.row[2] = i THEN e.qty ELSE 0)
<1> DEFINE w == [g \in Godowns |-> Net(l, <<g, i>>)]
           v == [g \in Godowns |-> Net(Append(l, e), <<g, i>>)]
<1>1. Append(l, e) \in Seq(Move) /\ e.qty \in Int
  BY DEF Move
<1>2. PICK h \in Godowns, j \in Goods : e.row = <<h, j>>
  BY DEF Move, StockRows
<1>3. \A g \in Godowns : w[g] \in Int /\ v[g] \in Int
  BY <1>1, NetType
<1>4. \A g \in Godowns : v[g] = w[g] + (IF e.row = <<g, i>> THEN e.qty ELSE 0)
  BY NetAppend
<1>5. GoodsTotal(l, i) = SumFunctionOnSet(w, Godowns) /\ GoodsTotal(Append(l, e), i) = SumFunctionOnSet(v, Godowns)
  BY DEF GoodsTotal
<1>6. GoodsTotal(l, i) \in Int
  BY TotalType
<1> HIDE DEF w, v
<1>7. CASE j = i
  <2>1. \A g \in Godowns \ {h} : v[g] = w[g]
    BY <1>2, <1>3, <1>4
  <2>2. v[h] = w[h] + e.qty
    BY <1>2, <1>4, <1>7
  <2>3. SumFunctionOnSet(v, Godowns) = SumFunctionOnSet(w, Godowns) + v[h] - w[h]
    BY <1>3, <2>1, SumChange
  <2> QED BY <1>1, <1>2, <1>3, <1>5, <1>6, <1>7, <2>2, <2>3
<1>8. CASE j # i
  <2>1. \A g \in Godowns : v[g] = w[g]
    BY <1>2, <1>3, <1>4, <1>8
  <2>2. SumFunctionOnSet(w, Godowns) = SumFunctionOnSet(v, Godowns)
    BY <1>3, <2>1, SumSame
  <2> QED BY <1>2, <1>5, <1>6, <1>8, <2>2
<1> QED BY <1>7, <1>8

LEMMA TotalConcat ==
    ASSUME IsFiniteSet(Godowns), NEW l \in Seq(Move), NEW m \in Seq(Move), NEW i
    PROVE  GoodsTotal(l \o m, i) = GoodsTotal(l, i) + GoodsTotal(m, i)
<1> DEFINE w == [g \in Godowns |-> Net(l, <<g, i>>)]
           v == [g \in Godowns |-> Net(m, <<g, i>>)]
           u == [g \in Godowns |-> Net(l \o m, <<g, i>>)]
<1>1. \A g \in Godowns : w[g] \in Int /\ v[g] \in Int /\ u[g] = w[g] + v[g]
  BY NetType, NetConcat
<1> HIDE DEF w, v, u
<1>2. SumFunctionOnSet(u, Godowns) = SumFunctionOnSet(w, Godowns) + SumFunctionOnSet(v, Godowns)
  BY <1>1, SumPlus
<1> QED BY <1>2 DEF GoodsTotal, w, v, u

-----------------------------------------------------------------------------
(* The movements of a transfer *)

\* Movement 2k - 1 takes line k out, movement 2k brings it in.
LEMMA Halves ==
    ASSUME NEW n \in Nat
    PROVE  /\ n % 2 = 0 \/ n % 2 = 1
           /\ n % 2 = 0 => (n + 1) % 2 = 1
           /\ n % 2 = 1 => (n + 1) % 2 = 0 /\ (n + 2) \div 2 = (n + 1) \div 2
           /\ (n + 2) \div 2 \in Nat /\ (n + 2) \div 2 >= 1
           /\ \A k \in Nat : n + 1 <= 2 * k => (n + 2) \div 2 <= k
           /\ (2 * n) % 2 = 0
OBVIOUS

LEMMA ElementOf ==
    ASSUME NEW S, NEW s \in Seq(S)
    PROVE  \A k \in 1..Len(s) : s[k] \in S
OBVIOUS

\* A sheet has goods, and quantities that are numbers.
LEMMA SheetType ==
    ASSUME StockAssumption, NEW t \in Transfers
    PROVE  /\ Sheet[t].type \in TransferTypes /\ Sheet[t].from \in Godowns /\ Sheet[t].to \in Godowns
           /\ Len(Sheet[t].lines) \in Nat
           /\ \A k \in 1..Len(Sheet[t].lines) :
                 Sheet[t].lines[k].item \in Goods /\ Qty(Sheet[t].lines[k]) \in Int
<1>1. Sheet[t] \in [type : TransferTypes, from : Godowns, to : Godowns,
                    lines : Seq([item : Goods, expected : Int, actual : Int])]
  BY DEF StockAssumption
<1>2. Sheet[t].lines \in Seq([item : Goods, expected : Int, actual : Int])
  BY <1>1
<1>3. \A k \in 1..Len(Sheet[t].lines) : Sheet[t].lines[k] \in [item : Goods, expected : Int, actual : Int]
  BY <1>2, ElementOf
<1>4. ASSUME NEW x \in [item : Goods, expected : Int, actual : Int]
      PROVE  x.item \in Goods /\ Qty(x) \in Int
  BY DEF Qty
<1>5. Len(Sheet[t].lines) \in Nat
  BY <1>2
<1> QED BY <1>1, <1>3, <1>4, <1>5

\* A transfer has two movements per line.
LEMMA MovementsLen ==
    ASSUME StockAssumption, NEW t \in Transfers
    PROVE  /\ Movements(t) \in Seq(Move)
           /\ Len(Movements(t)) = 2 * Len(Sheet[t].lines)
           /\ \A n \in 1..2 * Len(Sheet[t].lines) :
                 Movements(t)[n] =
                    IF n % 2 = 1 THEN StockEntry(t, Sheet[t].from, Sheet[t].lines[(n + 1) \div 2], -Qty(Sheet[t].lines[(n + 1) \div 2]), OutType[Sheet[t].type])
                    ELSE StockEntry(t, Sheet[t].to, Sheet[t].lines[(n + 1) \div 2], Qty(Sheet[t].lines[(n + 1) \div 2]), InType[Sheet[t].type])
<1> DEFINE L == Len(Sheet[t].lines)
           entry(n) == IF n % 2 = 1 THEN StockEntry(t, Sheet[t].from, Sheet[t].lines[(n + 1) \div 2], -Qty(Sheet[t].lines[(n + 1) \div 2]), OutType[Sheet[t].type])
                       ELSE StockEntry(t, Sheet[t].to, Sheet[t].lines[(n + 1) \div 2], Qty(Sheet[t].lines[(n + 1) \div 2]), InType[Sheet[t].type])
<1>1. Movements(t) = [n \in 1..2 * L |-> entry(n)]
  BY DEF Movements
<1>2. L \in Nat /\ 2 * L \in Nat
  BY SheetType
<1>3. ASSUME NEW n \in 1..2 * L PROVE entry(n) \in Move
  <2>1. n - 1 \in Nat /\ n - 1 + 1 = n /\ n - 1 + 2 = n + 1
    BY <1>2
  <2>2. (n + 1) \div 2 \in 1..L
    <3>1. (n - 1 + 2) \div 2 \in Nat /\ (n - 1 + 2) \div 2 >= 1 /\ (n - 1 + 2) \div 2 <= L
      BY <1>2, <2>1, Halves
    <3> QED BY <1>2, <2>1, <3>1
  <2> DEFINE k == (n + 1) \div 2
  <2>3. Sheet[t].lines[k].item \in Goods /\ Qty(Sheet[t].lines[k]) \in Int /\ -Qty(Sheet[t].lines[k]) \in Int
    <3>1. \A m \in 1..L : Sheet[t].lines[m].item \in Goods /\ Qty(Sheet[t].lines[m]) \in Int
      BY SheetType
    <3>2. k \in 1..L
      BY <2>2
    <3> HIDE DEF k, L
    <3>3. Sheet[t].lines[k].item \in Goods /\ Qty(Sheet[t].lines[k]) \in Int
      BY <3>1, <3>2
    <3> QED BY <3>3
  <2>4. /\ OutType[Sheet[t].type] \in {"transfer_out", "transfer_in", "van_load", "van_unload"}
        /\ InType[Sheet[t].type] \in {"transfer_out", "transfer_in", "van_load", "van_unload"}
    BY SheetType DEF TransferTypes, OutType, InType
  <2> HIDE DEF k
  <2>5. /\ StockEntry(t, Sheet[t].from, Sheet[t].lines[k], -Qty(Sheet[t].lines[k]), OutType[Sheet[t].type]) \in Move
        /\ StockEntry(t, Sheet[t].to, Sheet[t].lines[k], Qty(Sheet[t].lines[k]), InType[Sheet[t].type]) \in Move
    BY <2>3, <2>4, SheetType DEF StockEntry, Move, StockRows
  <2> QED BY <2>5 DEF k
<1> HIDE DEF entry
<1>4. /\ Movements(t) \in Seq(Move) /\ Len(Movements(t)) = 2 * L
      /\ \A n \in 1..2 * L : Movements(t)[n] = entry(n)
  BY <1>1, <1>2, <1>3
<1> QED BY <1>4 DEF entry

\* What a movement does to the goods on the way.
LEMMA DriftStep ==
    ASSUME StockAssumption, NEW t \in Transfers, NEW n \in Nat, n < Len(Movements(t)), NEW i
    PROVE  LET e == Movements(t)[n + 1] IN
           /\ e \in Move
           /\ Drift(t, n, i) \in Int
           /\ Drift(t, n + 1, i) = Drift(t, n, i) + (IF e.row[2] = i THEN e.qty ELSE 0)
<1> DEFINE L == Len(Sheet[t].lines)
           e == Movements(t)[n + 1]
           k == (n + 2) \div 2
           goods == Sheet[t].lines[k]
<1>0. L \in Nat /\ Len(Movements(t)) = 2 * L
  BY SheetType, MovementsLen
<1>1. L \in Nat /\ n + 1 \in 1..2 * L /\ n + 1 <= 2 * L
  <2> HIDE DEF L
  <2> QED BY <1>0
<1>2. k \in 1..L
  BY <1>1, Halves
<1>3. goods.item \in Goods /\ Qty(goods) \in Int
  BY <1>2, SheetType
<1>4. (n + 1) + 1 = n + 2
  OBVIOUS
<1>5. e \in Move
  <2>1. Movements(t) \in Seq(Move)
    BY MovementsLen
  <2> HIDE DEF L
  <2> QED BY <1>0, <1>1, <2>1
<1>6. e = IF (n + 1) % 2 = 1 THEN StockEntry(t, Sheet[t].from, goods, -Qty(goods), OutType[Sheet[t].type])
          ELSE StockEntry(t, Sheet[t].to, goods, Qty(goods), InType[Sheet[t].type])
  BY <1>1, <1>4, MovementsLen
<1>7. Drift(t, n + 1, i) = IF (n + 1) % 2 = 1 /\ goods.item = i THEN -Qty(goods) ELSE 0
  BY <1>4 DEF Drift
<1>8. CASE n % 2 = 0
  <2>1. (n + 1) % 2 = 1 /\ n % 2 # 1
    BY <1>8, Halves
  <2>2. Drift(t, n, i) = 0
    BY <2>1 DEF Drift
  <2>3. e.row[2] = goods.item /\ e.qty = -Qty(goods)
    BY <1>6, <2>1 DEF StockEntry
  <2> HIDE DEF e, goods
  <2>4. Drift(t, n + 1, i) = Drift(t, n, i) + (IF e.row[2] = i THEN e.qty ELSE 0)
    BY <1>3, <1>7, <2>1, <2>2, <2>3
  <2> QED BY <1>5, <2>2, <2>4 DEF e
<1>9. CASE n % 2 = 1
  <2>1. (n + 1) % 2 # 1 /\ k = (n + 1) \div 2
    BY <1>9, Halves
  <2>2. Drift(t, n, i) = IF goods.item = i THEN -Qty(goods) ELSE 0
    BY <1>9, <2>1 DEF Drift
  <2>3. e.row[2] = goods.item /\ e.qty = Qty(goods)
    BY <1>6, <2>1 DEF StockEntry
  <2> HIDE DEF e, goods
  <2>4. Drift(t, n, i) \in Int
    BY <1>3, <2>2
  <2>5. Drift(t, n + 1, i) = Drift(t, n, i) + (IF e.row[2] = i THEN e.qty ELSE 0)
    BY <1>3, <1>7, <2>1, <2>2, <2>3
  <2> QED BY <1>5, <2>4, <2>5 DEF e
<1> QED BY <1>8, <1>9, Halves

-----------------------------------------------------------------------------
(* What a transaction sees *)

\* RowsOf with an entry, and qty_on_hand after the entries, h before them.
RowsOf(entries) == {e.row : e \in ToSet(entries)}

LastSeen(h, entries, r) == IF On(entries, r) = {} THEN h ELSE entries[Max(On(entries, r))].after

\* A set of indices has a last one.
LEMMA MaxThere ==
    ASSUME NEW n \in Nat, NEW S, S \subseteq 1..n, S # {}
    PROVE  Max(S) \in S /\ \A x \in S : x <= Max(S)
<1> DEFINE D == {k \in Nat : n - k \in S}
<1>1. D # {}
  <2>1. PICK x \in S : TRUE
    OBVIOUS
  <2>2. n - x \in Nat /\ n - (n - x) = x
    BY <2>1
  <2> QED BY <2>1, <2>2
<1>2. PICK k \in D : \A j \in D : <<j, k>> \notin Less
  BY <1>1, LessWellFounded, WFMin
<1>3. \A x \in S : n - k >= x
  <2> SUFFICES ASSUME NEW x \in S, n - k < x PROVE FALSE
    OBVIOUS
  <2>1. n - x \in Nat /\ n - (n - x) = x /\ n - x < k
    OBVIOUS
  <2> QED BY <1>2, <2>1 DEF Less
<1>4. n - k \in S
  OBVIOUS
<1>5. \E x \in S : \A y \in S : x >= y
  BY <1>3, <1>4
<1>6. Max(S) \in S /\ \A y \in S : Max(S) >= y
  BY <1>5 DEF Max
<1>7. S \subseteq Int
  OBVIOUS
<1> QED BY <1>6, <1>7

\* A row a transaction has not touched has no entries and is seen as committed, ...
LEMMA RowsOn ==
    ASSUME NEW l \in Seq(Move), NEW r
    PROVE  r \in RowsOf(l) <=> On(l, r) # {}
BY DEF RowsOf, On, ToSet

LEMMA NotOn ==
    ASSUME NEW l \in Seq(Move), NEW r, r \notin RowsOf(l), NEW h
    PROVE  Net(l, r) = 0 /\ LastSeen(h, l, r) = h
<1>1. On(l, r) = {}
  BY RowsOn
<1> QED BY <1>1, SumEmpty DEF Net, LastSeen

\* ... one it has is seen as it was written, whatever is committed meanwhile.
LEMMA SeenOn ==
    ASSUME NEW l \in Seq(Move), NEW r, r \in RowsOf(l), NEW h, NEW g
    PROVE  LastSeen(h, l, r) = LastSeen(g, l, r)
BY RowsOn DEF LastSeen

\* One movement more: its row is held, and seen as it left it.
LEMMA RowsAppend ==
    ASSUME NEW l \in Seq(Move), NEW e \in Move
    PROVE  RowsOf(Append(l, e)) = RowsOf(l) \cup {e.row}
<1>1. Append(l, e) \in Seq(Move)
  OBVIOUS
<1>2. \A r : r \in RowsOf(Append(l, e)) <=> r \in RowsOf(l) \/ r = e.row
  <2> SUFFICES ASSUME NEW r PROVE r \in RowsOf(Append(l, e)) <=> r \in RowsOf(l) \/ r = e.row
    OBVIOUS
  <2>1. r \in RowsOf(Append(l, e)) <=> On(Append(l, e), r) # {}
    BY <1>1, RowsOn
  <2>2. r \in RowsOf(l) <=> On(l, r) # {}
    BY RowsOn
  <2>3. /\ e.row = r => On(Append(l, e), r) = On(l, r) \cup {Len(l) + 1}
        /\ e.row # r => On(Append(l, e), r) = On(l, r)
        /\ Append(l, e)[Len(l) + 1] = e
        /\ \A n \in 1..Len(l) : Append(l, e)[n] = l[n]
    BY OnAppend
  <2> QED BY <2>1, <2>2, <2>3
<1> QED BY <1>2

LEMMA SeenAppend ==
    ASSUME NEW l \in Seq(Move), NEW e \in Move, NEW r, NEW h
    PROVE  LastSeen(h, Append(l, e), r) = IF e.row = r THEN e.after ELSE LastSeen(h, l, r)
<1> DEFINE a == Append(l, e)
<1>1. /\ e.row = r => On(a, r) = On(l, r) \cup {Len(l) + 1}
      /\ e.row # r => On(a, r) = On(l, r)
      /\ a[Len(l) + 1] = e
      /\ \A n \in 1..Len(l) : a[n] = l[n]
  BY OnAppend
<1>2. On(l, r) \subseteq 1..Len(l) /\ Len(l) \in Nat /\ Len(l) + 1 \in Nat
  BY NetType
<1> HIDE DEF a
<1>3. CASE e.row = r
  <2>1. On(a, r) # {} /\ On(a, r) \subseteq 1..Len(l) + 1 /\ Len(l) + 1 \in On(a, r)
    BY <1>1, <1>2, <1>3
  <2>2. Max(On(a, r)) \in On(a, r) /\ Len(l) + 1 <= Max(On(a, r))
    BY <1>2, <2>1, MaxThere
  <2>3. Max(On(a, r)) = Len(l) + 1
    BY <1>2, <2>1, <2>2
  <2> QED BY <1>1, <1>3, <2>1, <2>3 DEF LastSeen, a
<1>4. CASE e.row # r
  <2>1. CASE On(l, r) = {}
    BY <1>1, <1>4, <2>1 DEF LastSeen, a
  <2>2. CASE On(l, r) # {}
    <3>1. Max(On(l, r)) \in 1..Len(l)
      BY <1>2, <2>2, MaxThere
    <3> QED BY <1>1, <1>4, <2>2, <3>1 DEF LastSeen, a
  <2> QED BY <2>1, <2>2
<1> QED BY <1>3, <1>4

-----------------------------------------------------------------------------
(* The inductive invariant: every stock row is what its ledger entries add up to,
   the ledger adds up to nothing over the godowns, an open call has done the first
   movements of its transfer on rows that nobody else has, and sees these as the
   committed quantity and its own entries make them. *)

\* The call q sees the stock rows h with its own entries.
Sees(h, q) == \A r \in StockRows : LastSeen(h[r], q.done, r) = h[r] + Net(q.done, r)

BookOK ==
    /\ onHand \in [StockRows -> Int]
    /\ moved \in Seq(Move)
    /\ \A r \in StockRows : onHand[r] = Opening + Net(moved, r)
    /\ \A i \in Goods : GoodsTotal(moved, i) = 0

CallsOK ==
    /\ request \in [Callers -> Call]
    /\ \A c \in Callers : CallOK(request[c]) /\ Sees(onHand, request[c])
    /\ \A c, d \in Callers : c # d => RowsOf(request[c].done) \cap RowsOf(request[d].done) = {}

StockInv == BookOK /\ CallsOK

\* A call with no entries of its own.
LEMMA NothingDone ==
    ASSUME IsFiniteSet(Godowns), NEW q \in Call, q.done = <<>>, q.todo = <<>>,
           q.stage # "idle" => q.t \in Transfers, NEW h \in [StockRows -> Int]
    PROVE  CallOK(q) /\ Sees(h, q) /\ RowsOf(q.done) = {}
<1>1. \A i \in Goods : GoodsTotal(q.done, i) = 0
  BY TotalEmpty
<1>2. Len(q.done) = 0 /\ 0 % 2 # 1
  OBVIOUS
<1>3. \A i \in Goods : Drift(q.t, Len(q.done), i) = 0
  BY <1>2 DEF Drift
<1>4. <<>> \in Seq(Move)
  OBVIOUS
<1>5. \A r : r \notin RowsOf(<<>>)
  BY <1>4, NetEmpty, RowsOn
<1>6. OnSheet(q)
  BY DEF OnSheet
<1>7. \A r : LastSeen(h[r], <<>>, r) = h[r] /\ Net(<<>>, r) = 0
  BY NetEmpty DEF LastSeen
<1>8. \A i \in Goods : GoodsTotal(q.done, i) = Drift(q.t, Len(q.done), i)
  BY <1>1, <1>3
<1>9. CallOK(q)
  BY <1>6, <1>8 DEF CallOK
<1>10. \A r \in StockRows : LastSeen(h[r], q.done, r) = h[r] + Net(q.done, r)
  BY <1>7
<1> QED BY <1>5, <1>9, <1>10 DEF Sees


\* It holds at first.
LEMMA BookStart == StockAssumption /\ StockInit => StockInv
<1> SUFFICES ASSUME StockAssumption, StockInit PROVE StockInv
  OBVIOUS
<1>1. IsFiniteSet(Godowns) /\ Opening \in Int
  BY DEF StockAssumption
<1>2. BookOK
  <2>1. <<>> \in Seq(Move) /\ \A r \in StockRows : Net(<<>>, r) = 0
    BY NetEmpty
  <2>2. \A i \in Goods : GoodsTotal(<<>>, i) = 0
    BY <1>1, TotalEmpty
  <2> QED BY <1>1, <2>1, <2>2 DEF BookOK, StockInit
<1>3. Idle \in Call /\ Idle.done = <<>> /\ Idle.todo = <<>> /\ Idle.stage = "idle"
  <2>1. <<>> \in Seq(Move)
    OBVIOUS
  <2> QED BY <2>1 DEF Idle, Call, TransferStatuses
<1>4. CallOK(Idle) /\ Sees(onHand, Idle) /\ RowsOf(Idle.done) = {}
  <2>1. onHand \in [StockRows -> Int]
    BY <1>2 DEF BookOK
  <2> QED BY <1>1, <1>3, <2>1, NothingDone
<1>5. request = [c \in Callers |-> Idle]
  BY DEF StockInit
<1>6. CallsOK
  BY <1>3, <1>4, <1>5 DEF CallsOK
<1> QED BY <1>2, <1>6 DEF StockInv

\* A step that changes one call and neither the rows nor the ledger.
LEMMA BecomeKeeps ==
    ASSUME StockInv, NEW c \in Callers, NEW q \in Call, CallOK(q), Sees(onHand, q),
           \A d \in Callers \ {c} : RowsOf(q.done) \cap RowsOf(request[d].done) = {},
           request' = [request EXCEPT ![c] = q], onHand' = onHand, moved' = moved
    PROVE  StockInv'
<1>1. BookOK'
  BY DEF StockInv, BookOK
<1>2. request' \in [Callers -> Call] /\ request'[c] = q /\ \A d \in Callers \ {c} : request'[d] = request[d]
  BY DEF StockInv, CallsOK
<1>3. \A d \in Callers : CallOK(request'[d]) /\ Sees(onHand', request'[d])
  BY <1>2 DEF StockInv, CallsOK
<1>4. \A d, e \in Callers : d # e => RowsOf(request[d].done) \cap RowsOf(request[e].done) = {}
  BY DEF StockInv, CallsOK
<1>5. ASSUME NEW d \in Callers, NEW e \in Callers, d # e
      PROVE  RowsOf(request'[d].done) \cap RowsOf(request'[e].done) = {}
  <2>1. CASE d = c
    BY <1>2, <1>5, <2>1
  <2>2. CASE e = c
    <3>1. RowsOf(request'[e].done) \cap RowsOf(request'[d].done) = {}
      BY <1>2, <1>5, <2>2
    <3> QED BY <3>1
  <2>3. CASE d # c /\ e # c
    BY <1>2, <1>4, <1>5, <2>3
  <2> QED BY <2>1, <2>2, <2>3
<1>6. CallsOK'
  BY <1>2, <1>3, <1>5 DEF CallsOK
<1> QED BY <1>1, <1>6 DEF StockInv

\* One that begins a call or ends it.
LEMMA FreshKeeps ==
    ASSUME StockAssumption, StockInv, NEW c \in Callers, NEW q \in Call, q.done = <<>>, q.todo = <<>>,
           q.stage # "idle" => q.t \in Transfers,
           request' = [request EXCEPT ![c] = q], onHand' = onHand, moved' = moved
    PROVE  StockInv'
<1>1. IsFiniteSet(Godowns) /\ onHand \in [StockRows -> Int]
  BY DEF StockAssumption, StockInv, BookOK
<1>2. CallOK(q) /\ Sees(onHand, q) /\ RowsOf(q.done) = {}
  BY <1>1, NothingDone
<1>3. \A d \in Callers \ {c} : RowsOf(q.done) \cap RowsOf(request[d].done) = {}
  BY <1>2
<1> QED BY <1>2, <1>3, BecomeKeeps

\* The call of a request that ended.
LEMMA IdleCall == Idle \in Call /\ Idle.done = <<>> /\ Idle.todo = <<>> /\ Idle.stage = "idle"
<1>1. <<>> \in Seq(Move)
  OBVIOUS
<1> QED BY <1>1 DEF Idle, Call, TransferStatuses

\* The balance of the entry is filled in when it is posted.
LEMMA FillAfter ==
    ASSUME NEW e \in Move, NEW v \in Int
    PROVE  LET x == [e EXCEPT !.after = v] IN
           x \in Move /\ x.row = e.row /\ x.qty = e.qty /\ x.after = v
BY DEF Move

\* PostMovement goes on with the sheet, on a row nobody else has.
LEMMA PostKeeps ==
    ASSUME StockAssumption, StockInv, NEW c \in Callers, PostMovement(c)
    PROVE  StockInv'
<1> DEFINE q0 == request[c]
           t == q0.t
           n == Len(q0.done)
           e == Head(q0.todo)
           x == [e EXCEPT !.after = Seen(q0.done, e.row) + e.qty]
           q == [q0 EXCEPT !.todo = Tail(@), !.done = Append(@, x)]
<1>1. q0 \in Call /\ CallOK(q0) /\ Sees(onHand, q0) /\ q0.stage = "posting" /\ q0.todo # <<>>
  BY DEF StockInv, CallsOK, PostMovement
<1>2. request' = [request EXCEPT ![c] = q] /\ onHand' = onHand /\ moved' = moved
  BY DEF PostMovement, Become
<1>3. \A d \in Callers \ {c} : e.row \notin RowsOf(request[d].done)
  BY DEF PostMovement, RowUnlocked, Held, RowsOf
<1>4. Seen(q0.done, e.row) = LastSeen(onHand[e.row], q0.done, e.row)
  BY DEF Seen, LastSeen
<1>5. \A d \in Callers \ {c} : RowsOf(q0.done) \cap RowsOf(request[d].done) = {}
  BY DEF StockInv, CallsOK
<1>6. onHand \in [StockRows -> Int] /\ IsFiniteSet(Godowns)
  BY DEF StockInv, BookOK, StockAssumption
<1> HIDE DEF q0
<1>7. /\ q0.done \in Seq(Move) /\ q0.todo \in Seq(Move) /\ t \in Transfers /\ n \in Nat
      /\ Len(q0.todo) \in Nat \ {0} /\ e = q0.todo[1]
  BY <1>1 DEF Call, CallOK
<1>8. OnSheet(q0) /\ \A i \in Goods : GoodsTotal(q0.done, i) = Drift(t, n, i)
  BY <1>1 DEF CallOK
<1>9. /\ n + Len(q0.todo) = Len(Movements(t))
      /\ \A k \in 1..Len(q0.todo) : q0.todo[k] = Movements(t)[n + k]
  BY <1>1, <1>8 DEF OnSheet
<1>10. n < Len(Movements(t)) /\ e = Movements(t)[n + 1]
  <2>2. n \in Nat /\ Len(q0.todo) \in Nat \ {0}
    BY <1>7
  <2> HIDE DEF n, t, e
  <2>1. 1 \in 1..Len(q0.todo) /\ n + Len(q0.todo) > n
    BY <2>2
  <2> QED BY <1>7, <1>9, <2>1
<1>11. /\ e \in Move
       /\ \A i : /\ Drift(t, n, i) \in Int
                 /\ Drift(t, n + 1, i) = Drift(t, n, i) + (IF e.row[2] = i THEN e.qty ELSE 0)
  <2> HIDE DEF t, n, e
  <2>1. Movements(t)[n + 1] \in Move
    BY <1>7, <1>10, DriftStep
  <2>2. ASSUME NEW i
        PROVE  /\ Drift(t, n, i) \in Int
               /\ Drift(t, n + 1, i) = Drift(t, n, i) + (IF Movements(t)[n + 1].row[2] = i THEN Movements(t)[n + 1].qty ELSE 0)
    BY <1>7, <1>10, DriftStep
  <2> QED BY <1>10, <2>1, <2>2
<1> HIDE DEF t, n, e
<1>12. Net(q0.done, e.row) \in Int /\ e.row \in StockRows /\ e.qty \in Int
  BY <1>7, <1>11, NetType DEF Move
<1>13. Seen(q0.done, e.row) = onHand[e.row] + Net(q0.done, e.row) /\ onHand[e.row] \in Int
  BY <1>1, <1>4, <1>6, <1>12 DEF Sees
<1>14. x \in Move /\ x.row = e.row /\ x.qty = e.qty /\ x.after = onHand[e.row] + Net(q0.done, e.row) + e.qty
  <2> DEFINE v == onHand[e.row] + Net(q0.done, e.row) + e.qty
  <2>1. v \in Int /\ x = [e EXCEPT !.after = v]
    BY <1>12, <1>13
  <2> HIDE DEF v, x
  <2>2. x \in Move /\ x.row = e.row /\ x.qty = e.qty /\ x.after = v
    BY <1>11, <2>1, FillAfter
  <2> QED BY <2>2 DEF v
<1> HIDE DEF x
<1>15. /\ q \in Call /\ q.stage = "posting" /\ q.t = t
       /\ q.todo = Tail(q0.todo) /\ q.done = Append(q0.done, x)
  <2> DEFINE l == Tail(q0.todo)
             m == Append(q0.done, x)
  <2>1. l \in Seq(Move) /\ m \in Seq(Move)
    BY <1>7, <1>14
  <2>2. q = [q0 EXCEPT !.todo = l, !.done = m]
    OBVIOUS
  <2> HIDE DEF q, l, m
  <2>3. q \in Call /\ q.stage = q0.stage /\ q.t = q0.t /\ q.todo = l /\ q.done = m
    <3>1. q0 \in Call
      BY <1>1
    <3>2. q = [stage |-> q0.stage, t |-> q0.t, copy |-> q0.copy, todo |-> l, done |-> m]
      BY <2>2, <3>1 DEF Call
    <3>3. q0.stage \in {"idle", "lines", "posting", "patch"} /\ q0.t \in Transfers \cup {NoTransfer} /\ q0.copy \in TransferStatuses
      BY <3>1 DEF Call
    <3> QED BY <2>1, <3>2, <3>3 DEF Call
  <2> QED BY <1>1, <2>3 DEF t, l, m
<1> HIDE DEF q
<1>16. Len(q.done) = n + 1 /\ Len(q.todo) = Len(q0.todo) - 1 /\ \A k \in 1..Len(q.todo) : q.todo[k] = q0.todo[k + 1]
  BY <1>7, <1>14, <1>15 DEF n
<1>17. OnSheet(q)
  <2>1. Len(q.done) + Len(q.todo) = Len(Movements(q.t))
    <3>1. n \in Nat /\ Len(q0.todo) \in Nat /\ n + Len(q0.todo) = Len(Movements(t))
      BY <1>7, <1>9
    <3>2. Len(q.done) = n + 1 /\ Len(q.todo) = Len(q0.todo) - 1 /\ q.t = t
      BY <1>15, <1>16
    <3>3. Len(q.done) + Len(q.todo) = n + Len(q0.todo)
      <4>1. \A i, j \in Nat : (i + 1) + (j - 1) = i + j
        OBVIOUS
      <4>2. (n + 1) + (Len(q0.todo) - 1) = n + Len(q0.todo)
        BY <3>1, <4>1, Zenon
      <4> QED BY <3>2, <4>2, Zenon
    <3>4. Movements(q.t) = Movements(t)
      BY <3>2
    <3> QED BY <3>1, <3>3, <3>4, Zenon
  <2>2. \A k \in 1..Len(q.todo) : q.todo[k] = Movements(q.t)[Len(q.done) + k]
    <3> SUFFICES ASSUME NEW k \in 1..Len(q.todo) PROVE q.todo[k] = Movements(t)[n + 1 + k]
      BY <1>15, <1>16
    <3>1. k + 1 \in 1..Len(q0.todo) /\ n + (k + 1) = n + 1 + k
      BY <1>7, <1>16
    <3> QED BY <1>9, <1>16, <3>1
  <2> QED BY <2>1, <2>2 DEF OnSheet
<1>18. \A i \in Goods : GoodsTotal(q.done, i) = Drift(q.t, Len(q.done), i)
  <2> SUFFICES ASSUME NEW i \in Goods PROVE GoodsTotal(Append(q0.done, x), i) = Drift(t, n + 1, i)
    BY <1>15, <1>16
  <2>1. GoodsTotal(Append(q0.done, x), i) = GoodsTotal(q0.done, i) + (IF x.row[2] = i THEN x.qty ELSE 0)
    BY <1>6, <1>7, <1>14, TotalAppend
  <2> QED BY <1>8, <1>11, <1>14, <2>1
<1>19. CallOK(q)
  BY <1>7, <1>15, <1>17, <1>18 DEF CallOK
<1>20. Sees(onHand, q)
  <2> SUFFICES ASSUME NEW r \in StockRows
               PROVE  LastSeen(onHand[r], Append(q0.done, x), r) = onHand[r] + Net(Append(q0.done, x), r)
    BY <1>15 DEF Sees
  <2>1. LastSeen(onHand[r], Append(q0.done, x), r) = IF x.row = r THEN x.after ELSE LastSeen(onHand[r], q0.done, r)
    BY <1>7, <1>14, SeenAppend
  <2>2. Net(Append(q0.done, x), r) = Net(q0.done, r) + (IF x.row = r THEN x.qty ELSE 0)
    BY <1>7, <1>14, NetAppend
  <2>3. LastSeen(onHand[r], q0.done, r) = onHand[r] + Net(q0.done, r)
    BY <1>1 DEF Sees
  <2>4. Net(q0.done, r) \in Int /\ onHand[r] \in Int
    BY <1>6, <1>7, NetType
  <2> QED BY <1>12, <1>14, <2>1, <2>2, <2>3, <2>4
<1>21. \A d \in Callers \ {c} : RowsOf(q.done) \cap RowsOf(request[d].done) = {}
  <2>1. RowsOf(q.done) = RowsOf(q0.done) \cup {e.row}
    BY <1>7, <1>14, <1>15, RowsAppend
  <2> QED BY <1>3, <1>5, <2>1
<1> QED BY <1>2, <1>15, <1>19, <1>20, <1>21, BecomeKeeps

\* Complete adds to the rows what it has moved, and to the ledger its entries.
LEMMA CompleteKeeps ==
    ASSUME StockAssumption, StockInv, NEW c \in Callers, Complete(c)
    PROVE  StockInv'
<1> DEFINE q == request[c]
<1>1. q \in Call /\ CallOK(q) /\ Sees(onHand, q) /\ q.stage = "posting" /\ q.todo = <<>>
  BY DEF StockInv, CallsOK, Complete
<1>2. request' = [request EXCEPT ![c] = Idle]
  BY DEF Complete, Become
<1>3. CASE transfer[q.t] = "gone"
  <2>1. onHand' = onHand /\ moved' = moved
    BY <1>3 DEF Complete
  <2> QED BY <1>2, <2>1, IdleCall, FreshKeeps
<1>4. CASE transfer[q.t] # "gone"
  <2>1. onHand' = [r \in StockRows |-> LastSeen(onHand[r], q.done, r)] /\ moved' = moved \o q.done
    BY <1>4 DEF Complete, Seen, LastSeen
  <2>2. /\ onHand \in [StockRows -> Int] /\ IsFiniteSet(Godowns) /\ Opening \in Int /\ moved \in Seq(Move)
        /\ \A r \in StockRows : onHand[r] = Opening + Net(moved, r)
        /\ \A i \in Goods : GoodsTotal(moved, i) = 0
    BY DEF StockInv, BookOK, StockAssumption
  <2>3. /\ request \in [Callers -> Call]
        /\ \A d \in Callers : CallOK(request[d]) /\ Sees(onHand, request[d])
        /\ \A d, e \in Callers : d # e => RowsOf(request[d].done) \cap RowsOf(request[e].done) = {}
    BY DEF StockInv, CallsOK
  <2>4. q.done \in Seq(Move) /\ moved \o q.done \in Seq(Move)
    BY <1>1, <2>2 DEF Call
  <2>5. \A i \in Goods : GoodsTotal(q.done, i) = 0
    <3>1. CASE q.done = <<>>
      BY <2>2, <3>1, TotalEmpty
    <3>2. CASE q.done # <<>>
      <4>1. Len(q.done) = Len(Movements(q.t)) /\ q.t \in Transfers
        <5>1. OnSheet(q) /\ q.t \in Transfers
          BY <1>1 DEF CallOK
        <5>2. Len(q.done) + Len(q.todo) = Len(Movements(q.t)) /\ Len(q.todo) = 0
          BY <1>1, <3>2, <5>1 DEF OnSheet
        <5>3. Len(q.done) \in Nat
          BY <2>4
        <5> HIDE DEF q
        <5> QED BY <5>1, <5>2, <5>3
      <4>2. Len(Sheet[q.t].lines) \in Nat /\ Len(Movements(q.t)) = 2 * Len(Sheet[q.t].lines)
        BY <4>1, MovementsLen, SheetType
      <4>3. Len(q.done) % 2 # 1
        <5> DEFINE z == 2 * Len(Sheet[q.t].lines)
        <5>1. z % 2 = 0
          BY <4>2, Halves
        <5>2. Len(q.done) = z
          BY <4>1, <4>2
        <5>3. 0 # 1
          OBVIOUS
        <5> HIDE DEF z, q
        <5> QED BY <5>1, <5>2, <5>3, Zenon
      <4>4. \A i \in Goods : GoodsTotal(q.done, i) = Drift(q.t, Len(q.done), i)
        BY <1>1 DEF CallOK
      <4> QED BY <4>3, <4>4 DEF Drift
    <3> QED BY <3>1, <3>2
  <2> HIDE DEF q
  <2>6. \A r \in StockRows : onHand'[r] = onHand[r] + Net(q.done, r)
    BY <1>1, <2>1 DEF Sees
  <2>7. \A r : Net(q.done, r) \in Int /\ Net(moved, r) \in Int
    BY <2>2, <2>4, NetType
  <2>8. BookOK'
    <3>1. onHand' \in [StockRows -> Int]
      BY <1>1, <2>1, <2>2, <2>7 DEF Sees
    <3>2. \A r \in StockRows : onHand'[r] = Opening + Net(moved', r)
      <4> SUFFICES ASSUME NEW r \in StockRows PROVE onHand'[r] = Opening + Net(moved \o q.done, r)
        BY <2>1
      <4>1. Net(moved \o q.done, r) = Net(moved, r) + Net(q.done, r)
        BY <2>2, <2>4, NetConcat
      <4> QED BY <2>2, <2>6, <2>7, <4>1
    <3>3. \A i \in Goods : GoodsTotal(moved', i) = 0
      <4> SUFFICES ASSUME NEW i \in Goods PROVE GoodsTotal(moved \o q.done, i) = 0
        BY <2>1
      <4>1. GoodsTotal(moved \o q.done, i) = GoodsTotal(moved, i) + GoodsTotal(q.done, i)
        BY <2>2, <2>4, TotalConcat
      <4> QED BY <2>2, <2>5, <4>1
    <3> QED BY <2>1, <2>4, <3>1, <3>2, <3>3 DEF BookOK
  <2>9. \A d \in Callers \ {c} : request'[d] = request[d]
    BY <1>2, <2>3
  <2>10. request'[c] = Idle /\ request' \in [Callers -> Call]
    BY <1>2, <2>3, IdleCall
  <2>11. CallOK(Idle) /\ Sees(onHand', Idle) /\ RowsOf(Idle.done) = {}
    <3>1. onHand' \in [StockRows -> Int]
      BY <2>8 DEF BookOK
    <3> QED BY <2>2, <3>1, IdleCall, NothingDone
  <2>12. \A d \in Callers \ {c} : Sees(onHand', request[d])
    <3> SUFFICES ASSUME NEW d \in Callers \ {c}, NEW r \in StockRows
                 PROVE  LastSeen(onHand'[r], request[d].done, r) = onHand'[r] + Net(request[d].done, r)
      BY DEF Sees
    <3>1. request[d].done \in Seq(Move)
      BY <2>3 DEF Call
    <3>2. CASE r \in RowsOf(request[d].done)
      <4>1. r \notin RowsOf(q.done)
        BY <2>3, <3>2 DEF q
      <4>2. Net(q.done, r) = 0
        BY <2>4, <4>1, NotOn
      <4>3. onHand'[r] = onHand[r]
        BY <2>2, <2>6, <4>2
      <4> QED BY <2>3, <4>3 DEF Sees
    <3>3. CASE r \notin RowsOf(request[d].done)
      <4>1. Net(request[d].done, r) = 0 /\ LastSeen(onHand'[r], request[d].done, r) = onHand'[r]
        BY <3>1, <3>3, NotOn
      <4>2. onHand'[r] \in Int
        BY <2>8 DEF BookOK
      <4> QED BY <4>1, <4>2
    <3> QED BY <3>2, <3>3
  <2>13. \A d \in Callers : CallOK(request'[d]) /\ Sees(onHand', request'[d])
    BY <2>3, <2>9, <2>10, <2>11, <2>12
  <2>14. ASSUME NEW d \in Callers, NEW e \in Callers, d # e
         PROVE  RowsOf(request'[d].done) \cap RowsOf(request'[e].done) = {}
    BY <2>3, <2>9, <2>10, <2>11, <2>14
  <2>15. CallsOK'
    BY <2>10, <2>13, <2>14 DEF CallsOK
  <2> QED BY <2>8, <2>15 DEF StockInv
<1> QED BY <1>3, <1>4

\* A call of complete or PATCH begins.
LEMMA ReceiveKeeps ==
    ASSUME StockAssumption, StockInv, NEW c \in Callers, NEW t \in Transfers,
           NEW s \in {"lines", "patch"}, ReceiveCall(c, t, s), transfer \in [Transfers -> TransferStatuses]
    PROVE  StockInv'
<1> DEFINE q == [Idle EXCEPT !.stage = s, !.t = t, !.copy = transfer[t]]
<1>1. transfer[t] \in TransferStatuses
  OBVIOUS
<1>2. q \in Call /\ q.done = <<>> /\ q.todo = <<>> /\ q.t \in Transfers
  <2>1. <<>> \in Seq(Move)
    OBVIOUS
  <2> QED BY <1>1, <2>1 DEF Idle, Call
<1>3. request' = [request EXCEPT ![c] = q] /\ onHand' = onHand /\ moved' = moved
  BY DEF ReceiveCall, Become
<1> HIDE DEF q
<1> QED BY <1>2, <1>3, FreshKeeps

\* The lines read are the movements, and none of them is done.
LEMMA ReadLinesKeeps ==
    ASSUME StockAssumption, StockInv, NEW c \in Callers, ReadLines(c)
    PROVE  StockInv'
<1> DEFINE p == request[c]
           l == IF lined[p.t] THEN Movements(p.t) ELSE <<>>
           q == [p EXCEPT !.stage = "posting", !.todo = l]
<1>1. p \in Call /\ CallOK(p) /\ Sees(onHand, p) /\ p.stage = "lines"
  BY DEF StockInv, CallsOK, ReadLines
<1>2. request' = [request EXCEPT ![c] = q] /\ onHand' = onHand /\ moved' = moved
  BY DEF ReadLines, Become
<1>3. \A d \in Callers \ {c} : RowsOf(p.done) \cap RowsOf(request[d].done) = {}
  BY DEF StockInv, CallsOK
<1> HIDE DEF p
<1>4. p.t \in Transfers /\ p.done = <<>>
  BY <1>1 DEF CallOK
<1>5. l \in Seq(Move) /\ (l = <<>> \/ l = Movements(p.t))
  <2>1. Movements(p.t) \in Seq(Move) /\ <<>> \in Seq(Move)
    <3>1. \A t \in Transfers : Movements(t) \in Seq(Move)
      BY MovementsLen
    <3> QED BY <1>4, <3>1
  <2> QED BY <2>1
<1> HIDE DEF l
<1>6. q \in Call /\ q.stage = "posting" /\ q.t = p.t /\ q.done = p.done /\ q.todo = l
  BY <1>1, <1>5 DEF Call
<1> HIDE DEF q
<1>7. OnSheet(q)
  <2>1. CASE l = <<>>
    BY <1>4, <1>6, <2>1 DEF OnSheet
  <2>2. CASE l = Movements(p.t)
    <3>1. Len(q.done) = 0 /\ Len(q.todo) \in Nat
      BY <1>4, <1>5, <1>6
    <3> QED BY <1>6, <2>2, <3>1 DEF OnSheet
  <2> QED BY <1>5, <2>1, <2>2
<1>8. CallOK(q) /\ Sees(onHand, q)
  BY <1>1, <1>4, <1>6, <1>7 DEF CallOK, Sees
<1> QED BY <1>2, <1>3, <1>6, <1>8, BecomeKeeps

\* A transfer is draft, completed or gone.
LEMMA StatusKeeps ==
    ASSUME StockInv, transfer \in [Transfers -> TransferStatuses], StockNext
    PROVE  transfer' \in [Transfers -> TransferStatuses]
<1>1. \A c \in Callers : request[c] \in Call /\ CallOK(request[c])
  BY DEF StockInv, CallsOK
<1>2. ASSUME NEW c \in Callers, NEW t \in Transfers, ReadTransfer(c, t) \/ ReadPatch(c, t)
      PROVE  transfer' = transfer
  BY <1>2 DEF ReadTransfer, ReadPatch, ReceiveCall
<1>3. ASSUME NEW c \in Callers, ReadLines(c) \/ PostMovement(c) \/ CallVictim(c) \/ CallDies(c)
      PROVE  transfer' = transfer
  BY <1>3 DEF ReadLines, PostMovement, CallVictim, CallDies
<1>4. ASSUME NEW c \in Callers, Complete(c) PROVE transfer' \in [Transfers -> TransferStatuses]
  BY <1>4 DEF Complete, TransferStatuses
<1>5. ASSUME NEW c \in Callers, SavePatch(c) PROVE transfer' \in [Transfers -> TransferStatuses]
  <2>1. request[c].copy \in TransferStatuses
    BY <1>1 DEF Call
  <2> QED BY <1>5, <2>1 DEF SavePatch
<1>6. ASSUME NEW t \in Transfers, DestroyTransfer(t) PROVE transfer' \in [Transfers -> TransferStatuses]
  BY <1>6 DEF DestroyTransfer, TransferStatuses
<1> QED BY <1>2, <1>3, <1>4, <1>5, <1>6 DEF StockNext

\* Every step keeps the invariant.
LEMMA StockKeeps ==
    ASSUME StockAssumption, StockInv, transfer \in [Transfers -> TransferStatuses], StockNext
    PROVE  StockInv'
<1>1. ASSUME NEW c \in Callers, NEW t \in Transfers, ReadTransfer(c, t) \/ ReadPatch(c, t)
      PROVE  StockInv'
  BY <1>1, ReceiveKeeps DEF ReadTransfer, ReadPatch
<1>2. ASSUME NEW c \in Callers, ReadLines(c) PROVE StockInv'
  BY <1>2, ReadLinesKeeps
<1>3. ASSUME NEW c \in Callers, PostMovement(c) PROVE StockInv'
  BY <1>3, PostKeeps
<1>4. ASSUME NEW c \in Callers, Complete(c) PROVE StockInv'
  BY <1>4, CompleteKeeps
<1>5. ASSUME NEW c \in Callers, CallVictim(c) \/ CallDies(c) \/ SavePatch(c)
      PROVE  StockInv'
  <2>1. request' = [request EXCEPT ![c] = Idle] /\ onHand' = onHand /\ moved' = moved
    BY <1>5 DEF CallVictim, CallDies, SavePatch, Become
  <2> QED BY <2>1, IdleCall, FreshKeeps
<1>6. ASSUME NEW t \in Transfers, DestroyTransfer(t) PROVE StockInv'
  BY <1>6 DEF DestroyTransfer, StockInv, BookOK, CallsOK
<1> QED BY <1>1, <1>2, <1>3, <1>4, <1>5, <1>6 DEF StockNext

\* What the invariant says of the goods: each item's are those of the beginning.
LEMMA GoodsKept == StockAssumption /\ StockInv => ItemsConserved
<1> SUFFICES ASSUME StockAssumption, StockInv PROVE ItemsConserved
  OBVIOUS
<1>1. /\ IsFiniteSet(Godowns) /\ Opening \in Int /\ moved \in Seq(Move)
      /\ \A r \in StockRows : onHand[r] = Opening + Net(moved, r)
      /\ \A i \in Goods : GoodsTotal(moved, i) = 0
  BY DEF StockAssumption, StockInv, BookOK
<1>2. ASSUME NEW i \in Goods
      PROVE  SumFunctionOnSet([g \in Godowns |-> onHand[<<g, i>>]], Godowns)
                = SumFunctionOnSet([g \in Godowns |-> Opening], Godowns)
  <2> DEFINE u == [g \in Godowns |-> onHand[<<g, i>>]]
             w == [g \in Godowns |-> Opening]
             v == [g \in Godowns |-> Net(moved, <<g, i>>)]
  <2>1. \A g \in Godowns : <<g, i>> \in StockRows
    BY DEF StockRows
  <2>2. \A g \in Godowns : Net(moved, <<g, i>>) \in Int
    BY <1>1, NetType
  <2>3. \A g \in Godowns : w[g] \in Int /\ v[g] \in Int /\ u[g] = w[g] + v[g]
    BY <1>1, <2>1, <2>2
  <2>4. SumFunctionOnSet(v, Godowns) = 0
    BY <1>1 DEF GoodsTotal
  <2> HIDE DEF u, v, w
  <2>5. SumFunctionOnSet(u, Godowns) = SumFunctionOnSet(w, Godowns) + SumFunctionOnSet(v, Godowns)
    BY <1>1, <2>3, SumPlus
  <2>6. SumFunctionOnSet(w, Godowns) \in Int
    BY <1>1, <2>3, SumType
  <2>7. SumFunctionOnSet(u, Godowns) = SumFunctionOnSet(w, Godowns)
    BY <2>4, <2>5, <2>6
  <2> QED BY <2>7 DEF u, w
<1> QED BY <1>1, <1>2 DEF ItemsConserved

\* The inductive invariant of the transfers, and their statuses, always hold.
THEOREM StockInvariant == StockSpec => [](StockInv /\ transfer \in [Transfers -> TransferStatuses])
<1> DEFINE Inv == StockInv /\ transfer \in [Transfers -> TransferStatuses]
<1>1. StockInit => Inv
  <2>1. StockInit => transfer \in [Transfers -> TransferStatuses]
    BY DEF StockInit, TransferStatuses
  <2> QED BY <2>1, BookStart, StockAssumption
<1>2. Inv /\ [StockNext]_transferVars => Inv'
  <2> SUFFICES ASSUME Inv, [StockNext]_transferVars PROVE Inv'
    OBVIOUS
  <2>1. CASE StockNext
    BY <2>1, StatusKeeps, StockKeeps, StockAssumption
  <2>2. CASE UNCHANGED transferVars
    BY <2>2 DEF transferVars, StockInv, BookOK, CallsOK
  <2> QED BY <2>1, <2>2
<1> QED BY <1>1, <1>2, PTL DEF StockSpec

\* Transfers neither make nor lose goods, however their completions overlap,
\* deadlock, die, are repeated or meet a PATCH or a DELETE: complete_stock_transfer
\* takes every line out of one godown and into the other in one transaction, and
\* post_stock_movement keeps the row locked from its reading to the commit.
THEOREM Conservation == StockSpec => []ItemsConserved
<1>1. StockInv => ItemsConserved
  BY GoodsKept, StockAssumption
<1> QED BY <1>1, StockInvariant, PTL

-----------------------------------------------------------------------------
(* Which transaction waits for which *)

\* What a call needs to go on: the conditions of ReadLines, PostMovement, Complete and
\* SavePatch.
CallReady(c) ==
    \/ request[c].stage \in {"lines", "patch"}
    \/ /\ request[c].stage = "posting"
       /\ request[c].todo # <<>> => RowUnlocked(Head(request[c].todo).row, c)

\* The calls of S wait for nobody outside of S.
CallsWaitWithin(S) == \A c \in S, d \in Callers : CallWaitsFor(c, d) => d \in S

\* A call, with those it waits for, directly or through others, is never stuck for
\* good: one of them can go on, or is for the deadlock detector to abort.
CallsNeverStuck ==
    \A S \in SUBSET Callers :
        (\E c \in S : request[c].stage # "idle") /\ CallsWaitWithin(S)
            => \E c \in S : request[c].stage # "idle" /\ (CallReady(c) \/ CallDeadlocked(c))

\* A call that cannot go on waits for another one, which is still being served.
LEMMA CallWaitsOrGoes ==
    ASSUME CallsOK, NEW c \in Callers, request[c].stage # "idle", ~CallReady(c)
    PROVE  \E d \in Callers : CallWaitsFor(c, d) /\ request[d].stage # "idle"
<1>1. request[c].stage = "posting" /\ request[c].todo # <<>>
  BY DEF CallReady, CallsOK, Call
<1>2. PICK d \in Callers \ {c} : Head(request[c].todo).row \in Held(d)
  BY <1>1 DEF CallReady, RowUnlocked
<1>3. CallWaitsFor(c, d)
  BY <1>1, <1>2 DEF CallWaitsFor
<1>4. request[d].done # <<>>
  BY <1>2 DEF Held, ToSet
<1>5. request[d].stage = "posting"
  BY <1>4 DEF CallsOK, CallOK
<1> QED BY <1>3, <1>5

\* Those that cannot go on are finitely many, and some of them wait in a circle.
LEMMA NoCallStuck ==
    ASSUME IsFiniteSet(Callers), CallsOK
    PROVE  CallsNeverStuck
<1> SUFFICES ASSUME NEW S \in SUBSET Callers, NEW b \in S, request[b].stage # "idle",
                    CallsWaitWithin(S), \A c \in S : request[c].stage # "idle" => ~CallReady(c)
             PROVE  \E c \in S : request[c].stage # "idle" /\ CallDeadlocked(c)
  BY DEF CallsNeverStuck
<1> DEFINE Waiting == {c \in S : request[c].stage # "idle"}
           W == {p \in Callers \X Callers : CallWaitsFor(p[1], p[2])}
<1>1. IsFiniteSet(Waiting) /\ Waiting # {} /\ Waiting \subseteq S
  <2>1. Waiting \in SUBSET Callers /\ b \in Waiting /\ Waiting \subseteq S
    OBVIOUS
  <2> HIDE DEF Waiting
  <2> QED BY <2>1, FS_Subset
<1>2. \A x \in Waiting : <<x, x>> \notin W
  BY DEF CallWaitsFor
<1>3. \A x \in Waiting : \E y \in Waiting : <<x, y>> \in W
  <2> SUFFICES ASSUME NEW x \in Waiting PROVE \E y \in Waiting : <<x, y>> \in W
    OBVIOUS
  <2>1. PICK y \in Callers : CallWaitsFor(x, y) /\ request[y].stage # "idle"
    BY CallWaitsOrGoes
  <2>2. y \in Waiting
    BY <2>1 DEF CallsWaitWithin
  <2> QED BY <2>1, <2>2
<1>4. \A x, y \in Waiting : <<x, y>> \in W => CallWaitsFor(x, y)
  OBVIOUS
<1>5. \A c \in Waiting : request[c].stage # "idle"
  OBVIOUS
<1> HIDE DEF Waiting, W
<1>6. PICK T \in SUBSET Waiting :
          /\ T # {}
          /\ \A x \in T : (\E y \in T : <<x, y>> \in W) /\ (\E y \in T : <<y, x>> \in W)
  BY <1>1, <1>2, <1>3, WaitingCycle
<1>7. \A c \in T : CallDeadlocked(c)
  <2> SUFFICES ASSUME NEW c \in T PROVE CallDeadlocked(c)
    OBVIOUS
  <2>1. T \in SUBSET Callers
    BY <1>1, <1>6
  <2>2. \A x \in T : (\E y \in T : CallWaitsFor(x, y)) /\ (\E y \in T : CallWaitsFor(y, x))
    BY <1>4, <1>6
  <2> QED BY <2>1, <2>2 DEF CallDeadlocked
<1> QED BY <1>1, <1>5, <1>6, <1>7

\* Completions that lock the rows of their lines in any order are never stuck: as
\* with finalizations, the deadlock detector reaches whatever cannot go on.
THEOREM TransfersNeverStuck ==
    ASSUME IsFiniteSet(Callers)
    PROVE  StockSpec => []CallsNeverStuck
<1>1. StockInv => CallsNeverStuck
  BY NoCallStuck DEF StockInv
<1> QED BY <1>1, StockInvariant, PTL

-----------------------------------------------------------------------------
(* The balances in the ledger *)

\* Every entry of l has the balance of its row: h, and all entries on it so far.
Runs(h, l) ==
    \A n \in 1..Len(l) : l[n].after = h[l[n].row] + Net(SubSeq(l, 1, n), l[n].row)

\* The balances of the committed ledger, and of the entries of open transactions.
LedgerRuns == Runs([r \in StockRows |-> Opening], moved)

CallsRun == \A c \in Callers : Runs(onHand, request[c].done)

\* There are none at first.
LEMMA RunsEmpty == \A h : Runs(h, <<>>)
BY DEF Runs

\* They depend only on the rows moved.
LEMMA RowsType == ASSUME NEW l \in Seq(Move) PROVE RowsOf(l) \subseteq StockRows
<1>1. \A e \in ToSet(l) : e \in Move
  BY DEF ToSet
<1>2. \A e \in Move : e.row \in StockRows
  BY DEF Move
<1> QED BY <1>1, <1>2 DEF RowsOf

LEMMA RunsAgree ==
    ASSUME NEW l \in Seq(Move), NEW g, NEW h, Runs(g, l), \A r \in RowsOf(l) : h[r] = g[r]
    PROVE  Runs(h, l)
<1>1. \A n \in 1..Len(l) : l[n].row \in RowsOf(l)
  BY DEF RowsOf, ToSet
<1> QED BY <1>1 DEF Runs

\* One movement more, with the balance it leaves.
LEMMA RunsAppend ==
    ASSUME NEW l \in Seq(Move), NEW e \in Move, NEW h, Runs(h, l),
           e.after = h[e.row] + (Net(l, e.row) + e.qty)
    PROVE  Runs(h, Append(l, e))
<1> DEFINE a == Append(l, e)
<1>1. /\ a \in Seq(Move) /\ Len(a) = Len(l) + 1 /\ Len(l) \in Nat
      /\ \A n \in 1..Len(l) : a[n] = l[n]
      /\ a[Len(l) + 1] = e /\ a = l \o <<e>> /\ <<e>> \in Seq(Move)
  BY AppendProperties
<1>2. \A n \in 1..Len(l) : SubSeq(a, 1, n) = SubSeq(l, 1, n)
  <2> SUFFICES ASSUME NEW n \in 1..Len(l) PROVE SubSeq(l \o <<e>>, 1, n) = SubSeq(l, 1, n)
    BY <1>1
  <2>1. 1 \in 1..Len(l)
    BY <1>1
  <2> QED BY <1>1, <2>1, SubSeqOfConcat1
<1>3. SubSeq(a, 1, Len(a)) = a
  BY <1>1, SubSeqFull
<1>4. Net(a, e.row) = Net(l, e.row) + e.qty
  BY NetAppend
<1> HIDE DEF a
<1>5. ASSUME NEW n \in 1..Len(a) PROVE a[n].after = h[a[n].row] + Net(SubSeq(a, 1, n), a[n].row)
  <2>1. CASE n = Len(l) + 1
    BY <1>1, <1>3, <1>4, <2>1
  <2>2. CASE n # Len(l) + 1
    <3>1. n \in 1..Len(l)
      BY <1>1, <2>2
    <3> QED BY <1>1, <1>2, <3>1 DEF Runs
  <2> QED BY <2>1, <2>2
<1> QED BY <1>5 DEF Runs, a

\* A commit: the entries go on from the balances the ledger ends with.
LEMMA RunsConcat ==
    ASSUME NEW l \in Seq(Move), NEW m \in Seq(Move), NEW g \in [StockRows -> Int], NEW h,
           Runs(g, l), Runs(h, m), \A r \in StockRows : h[r] = g[r] + Net(l, r)
    PROVE  Runs(g, l \o m)
<1> DEFINE a == l \o m
<1>1. /\ a \in Seq(Move) /\ Len(a) = Len(l) + Len(m) /\ Len(l) \in Nat /\ Len(m) \in Nat
      /\ \A n \in 1..Len(l) : a[n] = l[n]
      /\ \A n \in 1..Len(m) : a[Len(l) + n] = m[n]
  <2>1. \A n \in 1..Len(m) : Len(l) + n \in 1..(Len(l) + Len(m)) /\ ~(Len(l) + n <= Len(l)) /\ (Len(l) + n) - Len(l) = n
    OBVIOUS
  <2> QED BY <2>1, ConcatProperties
<1>2. \A n \in 1..Len(l) : SubSeq(a, 1, n) = SubSeq(l, 1, n)
  <2> SUFFICES ASSUME NEW n \in 1..Len(l) PROVE SubSeq(l \o m, 1, n) = SubSeq(l, 1, n)
    OBVIOUS
  <2>1. 1 \in 1..Len(l)
    BY <1>1
  <2> QED BY <2>1, SubSeqOfConcat1
<1>3. \A n \in 1..Len(m) : SubSeq(a, 1, Len(l) + n) = l \o SubSeq(m, 1, n)
  <2> SUFFICES ASSUME NEW n \in 1..Len(m) PROVE SubSeq(a, 1, Len(l) + n) = l \o SubSeq(m, 1, n)
    OBVIOUS
  <2> DEFINE k == Len(l) + n
  <2>1. k \in Len(l)..Len(a) /\ Len(l) \in 0..Len(a) /\ 1 \in 1..Len(a) + 1 /\ Len(l) + 1 \in Len(l) + 1..Len(l) + Len(m)
        /\ k \in Len(l) + 1..Len(l) + Len(m) /\ (Len(l) + 1) - Len(l) = 1 /\ k - Len(l) = n /\ 1 - 1 = 0
    BY <1>1
  <2>2. SubSeq(a, Len(l) + 1, k) = SubSeq(m, 1, n)
    <3> HIDE DEF k
    <3>1. SubSeq(l \o m, Len(l) + 1, k) = SubSeq(m, (Len(l) + 1) - Len(l), k - Len(l))
      BY <2>1, SubSeqOfConcat2
    <3> QED BY <2>1, <3>1
  <2>3. SubSeq(a, 1, Len(l)) = l
    <3>1. CASE l = <<>>
      <4>1. Len(l) = 0
        BY <3>1
      <4> QED BY <3>1, <4>1, SubSeqEmpty
    <3>2. CASE l # <<>>
      <4>1. Len(l) \in 1..Len(l)
        BY <1>1, <3>2
      <4>2. SubSeq(a, 1, Len(l)) = SubSeq(l, 1, Len(l))
        BY <1>2, <4>1
      <4> QED BY <4>2, SubSeqFull
    <3> QED BY <3>1, <3>2
  <2>4. SubSeq(a, 1, Len(l)) \o SubSeq(a, Len(l) + 1, k) = SubSeq(a, 1, k)
    <3> HIDE DEF k, a
    <3> QED BY <1>1, <2>1, ConcatAdjacentSubSeq
  <2> QED BY <2>2, <2>3, <2>4
<1> HIDE DEF a
<1>4. ASSUME NEW n \in 1..Len(l) PROVE a[n].after = g[a[n].row] + Net(SubSeq(a, 1, n), a[n].row)
  BY <1>1, <1>2 DEF Runs
<1>5. ASSUME NEW n \in 1..Len(m)
      PROVE  a[Len(l) + n].after = g[a[Len(l) + n].row] + Net(SubSeq(a, 1, Len(l) + n), a[Len(l) + n].row)
  <2>1. m[n] \in Move /\ a[Len(l) + n] = m[n]
    BY <1>1
  <2>2. PICK r \in StockRows : r = m[n].row
    BY <2>1 DEF Move
  <2>3. SubSeq(m, 1, n) \in Seq(Move)
    <3>1. \A i \in 1..n : m[i] \in Move
      BY <1>1
    <3> QED BY <3>1, SubSeqProperties
  <2>4. Net(l \o SubSeq(m, 1, n), r) = Net(l, r) + Net(SubSeq(m, 1, n), r)
    BY <2>3, NetConcat
  <2>5. Net(l, r) \in Int /\ Net(SubSeq(m, 1, n), r) \in Int /\ g[r] \in Int
    BY <2>3, NetType
  <2>6. m[n].after = h[r] + Net(SubSeq(m, 1, n), r) /\ h[r] = g[r] + Net(l, r)
    BY <2>2 DEF Runs
  <2>7. m[n].after = g[r] + (Net(l, r) + Net(SubSeq(m, 1, n), r))
    BY <2>5, <2>6
  <2>8. SubSeq(a, 1, Len(l) + n) = l \o SubSeq(m, 1, n)
    BY <1>3
  <2> QED BY <2>1, <2>2, <2>4, <2>7, <2>8
<1>6. ASSUME NEW n \in 1..Len(a) PROVE a[n].after = g[a[n].row] + Net(SubSeq(a, 1, n), a[n].row)
  <2>1. CASE n <= Len(l)
    BY <1>1, <1>4, <2>1
  <2>2. CASE n > Len(l)
    <3>1. n - Len(l) \in 1..Len(m) /\ Len(l) + (n - Len(l)) = n
      BY <1>1, <2>2
    <3>2. PICK k \in 1..Len(m) : Len(l) + k = n
      BY <3>1
    <3> QED BY <1>5, <3>2
  <2> QED BY <1>1, <2>1, <2>2
<1> QED BY <1>6 DEF Runs, a

\* Every step keeps them: a row moved by an open call is not committed by another.
LEMMA RunStep ==
    ASSUME StockAssumption, StockInv, LedgerRuns, CallsRun, StockNext
    PROVE  LedgerRuns' /\ CallsRun'
<1>0. request \in [Callers -> Call]
  BY DEF StockInv, CallsOK
<1>1. ASSUME NEW c \in Callers, NEW q, Runs(onHand, q.done), onHand' = onHand, moved' = moved,
             request' = [request EXCEPT ![c] = q]
      PROVE  LedgerRuns' /\ CallsRun'
  BY <1>0, <1>1 DEF LedgerRuns, CallsRun
<1>2. ASSUME NEW c \in Callers, NEW t \in Transfers, ReadTransfer(c, t) \/ ReadPatch(c, t)
      PROVE  LedgerRuns' /\ CallsRun'
  <2>1. PICK q : q.done = <<>> /\ request' = [request EXCEPT ![c] = q]
    BY <1>2 DEF ReadTransfer, ReadPatch, ReceiveCall, Become, Idle
  <2>2. onHand' = onHand /\ moved' = moved
    BY <1>2 DEF ReadTransfer, ReadPatch, ReceiveCall
  <2> QED BY <1>1, <2>1, <2>2, RunsEmpty
<1>3. ASSUME NEW c \in Callers, ReadLines(c) PROVE LedgerRuns' /\ CallsRun'
  <2>1. PICK q : q.done = request[c].done /\ request' = [request EXCEPT ![c] = q]
    <3>1. request[c] \in Call
      BY <1>0
    <3> QED BY <1>3, <3>1 DEF ReadLines, Become, Call
  <2>2. onHand' = onHand /\ moved' = moved
    BY <1>3 DEF ReadLines
  <2> QED BY <1>1, <2>1, <2>2 DEF CallsRun
<1>4. ASSUME NEW c \in Callers, PostMovement(c) PROVE LedgerRuns' /\ CallsRun'
  <2> DEFINE q0 == request[c]
             e  == Head(q0.todo)
             v  == Seen(q0.done, e.row) + e.qty
             x  == [e EXCEPT !.after = v]
             q  == [q0 EXCEPT !.todo = Tail(@), !.done = Append(@, x)]
  <2>1. q0 \in Call /\ q0.todo # <<>> /\ Sees(onHand, q0) /\ Runs(onHand, q0.done)
    BY <1>0, <1>4 DEF PostMovement, StockInv, CallsOK, CallsRun
  <2>2. request' = [request EXCEPT ![c] = q] /\ onHand' = onHand /\ moved' = moved
    BY <1>4 DEF PostMovement, Become
  <2>3. e \in Move /\ q0.done \in Seq(Move)
    BY <2>1 DEF Call
  <2>4. Seen(q0.done, e.row) = LastSeen(onHand[e.row], q0.done, e.row)
    BY DEF Seen, LastSeen
  <2>5. q.done = Append(q0.done, x)
    BY <2>1 DEF Call
  <2>6. onHand \in [StockRows -> Int]
    BY DEF StockInv, BookOK
  <2> HIDE DEF q0, e, q
  <2>7. e.row \in StockRows /\ e.qty \in Int /\ Net(q0.done, e.row) \in Int
    BY <2>3, NetType DEF Move
  <2>8. v = onHand[e.row] + (Net(q0.done, e.row) + e.qty) /\ v \in Int
    BY <2>1, <2>4, <2>6, <2>7 DEF Sees
  <2> HIDE DEF v
  <2>9. x \in Move /\ x.row = e.row /\ x.qty = e.qty /\ x.after = v
    BY <2>3, <2>8, FillAfter
  <2> HIDE DEF x
  <2>10. Runs(onHand, Append(q0.done, x))
    BY <2>1, <2>3, <2>8, <2>9, RunsAppend
  <2> QED BY <1>1, <2>2, <2>5, <2>10
<1>5. ASSUME NEW c \in Callers, CallVictim(c) \/ CallDies(c) \/ SavePatch(c)
      PROVE  LedgerRuns' /\ CallsRun'
  <2>1. request' = [request EXCEPT ![c] = Idle] /\ onHand' = onHand /\ moved' = moved
    BY <1>5 DEF CallVictim, CallDies, SavePatch, Become
  <2> QED BY <1>1, <2>1, IdleCall, RunsEmpty
<1>6. ASSUME NEW c \in Callers, Complete(c) PROVE LedgerRuns' /\ CallsRun'
  <2> DEFINE q == request[c]
  <2>1. q \in Call /\ Sees(onHand, q) /\ Runs(onHand, q.done) /\ q.done \in Seq(Move)
    BY <1>0 DEF StockInv, CallsOK, CallsRun, Call
  <2>2. request' = [request EXCEPT ![c] = Idle]
    BY <1>6 DEF Complete, Become
  <2>3. CASE transfer[q.t] = "gone"
    <3>1. onHand' = onHand /\ moved' = moved
      BY <1>6, <2>3 DEF Complete
    <3> QED BY <1>1, <2>2, <3>1, IdleCall, RunsEmpty
  <2>4. CASE transfer[q.t] # "gone"
    <3>1. onHand' = [r \in StockRows |-> LastSeen(onHand[r], q.done, r)] /\ moved' = moved \o q.done
      BY <1>6, <2>4 DEF Complete, Seen, LastSeen
    <3>2. /\ moved \in Seq(Move) /\ onHand \in [StockRows -> Int] /\ Opening \in Int
          /\ \A r \in StockRows : onHand[r] = Opening + Net(moved, r)
          /\ \A d, e \in Callers : d # e => RowsOf(request[d].done) \cap RowsOf(request[e].done) = {}
      BY DEF StockInv, BookOK, CallsOK, StockAssumption
    <3>3. \A d \in Callers \ {c} : request'[d] = request[d] /\ request[d].done \in Seq(Move)
      BY <1>0, <2>2 DEF Call
    <3>4. request'[c] = Idle
      BY <1>0, <2>2
    <3>5. \A d \in Callers \ {c} : RowsOf(request[d].done) \cap RowsOf(q.done) = {}
      BY <3>2
    <3> HIDE DEF q
    <3>6. \A r \in StockRows \ RowsOf(q.done) : onHand'[r] = onHand[r]
      BY <2>1, <3>1, NotOn
    <3>7. LedgerRuns'
      <4> DEFINE g == [r \in StockRows |-> Opening]
      <4>1. g \in [StockRows -> Int] /\ \A r \in StockRows : onHand[r] = g[r] + Net(moved, r)
        BY <3>2
      <4>2. Runs(g, moved)
        BY DEF LedgerRuns
      <4> HIDE DEF g
      <4>3. Runs(g, moved \o q.done)
        BY <2>1, <3>2, <4>1, <4>2, RunsConcat
      <4> QED BY <3>1, <4>3 DEF LedgerRuns, g
    <3>8. ASSUME NEW d \in Callers \ {c} PROVE Runs(onHand', request[d].done)
      <4>1. \A r \in RowsOf(request[d].done) : r \in StockRows
        <5>1. request[d].done \in Seq(Move)
          BY <3>3
        <5> QED BY <5>1, RowsType
      <4>2. \A r \in RowsOf(request[d].done) : onHand'[r] = onHand[r]
        BY <3>5, <3>6, <4>1
      <4>3. Runs(onHand, request[d].done)
        BY DEF CallsRun
      <4> QED BY <3>3, <4>2, <4>3, RunsAgree
    <3>9. CallsRun'
      BY <3>3, <3>4, <3>8, IdleCall, RunsEmpty DEF CallsRun
    <3> QED BY <3>7, <3>9
  <2> QED BY <2>3, <2>4
<1>7. ASSUME NEW t \in Transfers, DestroyTransfer(t) PROVE LedgerRuns' /\ CallsRun'
  BY <1>7 DEF DestroyTransfer, LedgerRuns, CallsRun
<1> QED BY <1>2, <1>3, <1>4, <1>5, <1>6, <1>7 DEF StockNext

\* The balance each committed ledger entry shows is the balance of its row at that
\* point: the opening quantity and every movement on the row so far, itself included,
\* although the balance was computed before the commit, among other transactions.
THEOREM BalancesRun == StockSpec => []LedgerRuns
<1>1. StockInit => LedgerRuns /\ CallsRun
  BY RunsEmpty DEF StockInit, LedgerRuns, CallsRun, Idle
<1>2. StockInv /\ LedgerRuns /\ CallsRun /\ [StockNext]_transferVars => LedgerRuns' /\ CallsRun'
  <2> SUFFICES ASSUME StockInv, LedgerRuns, CallsRun, [StockNext]_transferVars
               PROVE  LedgerRuns' /\ CallsRun'
    OBVIOUS
  <2>1. CASE StockNext
    BY <2>1, RunStep, StockAssumption
  <2>2. CASE UNCHANGED transferVars
    BY <2>2 DEF transferVars, LedgerRuns, CallsRun
  <2> QED BY <2>1, <2>2
<1> QED BY <1>1, <1>2, StockInvariant, PTL DEF StockSpec
-----------------------------------------------------------------------------
(* Types *)

\* What a step writes of the fields that no other proof needs.
LEMMA StockTypeStep ==
    ASSUME StockAssumption, StockInv, StockTypeOK, [StockNext]_transferVars
    PROVE  StockTypeOK'
<1>1. CASE UNCHANGED transferVars
  BY <1>1 DEF transferVars, StockTypeOK, StockRows
<1>2. CASE StockNext
  <2>1. StockInv' /\ transfer' \in [Transfers -> TransferStatuses]
    BY <1>2, StockKeeps, StatusKeeps DEF StockTypeOK, TransferStatuses
  <2>2. onHand' \in [StockRows -> Int]
    BY <2>1 DEF StockInv, BookOK
  <2>3. \A k \in DOMAIN moved' : moved'[k].ref \in Transfers /\ moved'[k].row \in StockRows
    <3>1. moved' \in Seq(Move)
      BY <2>1 DEF StockInv, BookOK
    <3>2. \A k \in DOMAIN moved' : moved'[k] \in Move
      BY <3>1
    <3> QED BY <3>2 DEF Move
  <2>4. \A c \in Callers : request'[c].stage \in {"idle", "lines", "posting", "patch"}
    BY <2>1 DEF StockInv, CallsOK, Call
  <2>5. lined' \in [Transfers -> BOOLEAN] /\ stockDeaths' \in 0..MaxStockDeaths /\ stockCalls' \in 0..MaxStockCalls
    <3>1. ASSUME NEW c \in Callers, NEW t \in Transfers, ReadTransfer(c, t) \/ ReadPatch(c, t)
          PROVE  lined' = lined /\ stockDeaths' = stockDeaths /\ stockCalls' \in 0..MaxStockCalls
      BY <3>1 DEF ReadTransfer, ReadPatch, ReceiveCall, StockTypeOK, StockAssumption
    <3>2. ASSUME NEW c \in Callers, ReadLines(c) \/ PostMovement(c) \/ Complete(c) \/ CallVictim(c) \/ SavePatch(c)
          PROVE  lined' = lined /\ stockDeaths' = stockDeaths /\ stockCalls' = stockCalls
      BY <3>2 DEF ReadLines, PostMovement, Complete, CallVictim, SavePatch
    <3>3. ASSUME NEW c \in Callers, CallDies(c)
          PROVE  lined' = lined /\ stockDeaths' \in 0..MaxStockDeaths /\ stockCalls' = stockCalls
      BY <3>3 DEF CallDies, StockTypeOK, StockAssumption
    <3>4. ASSUME NEW t \in Transfers, DestroyTransfer(t)
          PROVE  lined' \in [Transfers -> BOOLEAN] /\ stockDeaths' = stockDeaths /\ stockCalls' \in 0..MaxStockCalls
      BY <3>4 DEF DestroyTransfer, StockTypeOK, StockAssumption
    <3> QED BY <1>2, <3>1, <3>2, <3>3, <3>4 DEF StockNext, StockTypeOK
  <2> QED BY <2>1, <2>2, <2>3, <2>4, <2>5 DEF StockTypeOK, TransferStatuses
<1> QED BY <1>1, <1>2

LEMMA StockTypeInit == StockAssumption /\ StockInit => StockInv /\ StockTypeOK
<1> SUFFICES ASSUME StockAssumption, StockInit PROVE StockInv /\ StockTypeOK
  OBVIOUS
<1>1. StockInv
  BY BookStart
<1>2. StockTypeOK
  BY DEF StockInit, StockTypeOK, Idle, StockAssumption
<1> QED BY <1>1, <1>2

\* Stock rows, ledger, statuses and calls stay what the tables can hold.
THEOREM StockTyped == StockSpec => [](StockInv /\ StockTypeOK)
<1>1. StockInv /\ StockTypeOK /\ [StockNext]_transferVars => StockInv'
  <2> SUFFICES ASSUME StockInv, StockTypeOK, [StockNext]_transferVars PROVE StockInv'
    OBVIOUS
  <2>1. CASE StockNext
    BY <2>1, StockKeeps, StockAssumption DEF StockTypeOK, TransferStatuses
  <2>2. CASE UNCHANGED transferVars
    BY <2>2 DEF transferVars, StockInv, BookOK, CallsOK
  <2> QED BY <2>1, <2>2
<1> QED BY <1>1, StockTypeInit, StockTypeStep, StockAssumption, PTL DEF StockSpec
-----------------------------------------------------------------------------
(* What an invoice costs *)

\* The lines are a function.
LinesThere == DOMAIN line = Lines /\ line = [l \in DOMAIN line |-> line[l]]

\* The inductive invariant: the lines not to be priced any more are priced, the bonus
\* lines are those of the quantities, and the totals those of the last computation.
BillInv ==
    /\ LinesThere
    /\ ~pricing => todo = {}
    /\ calm => /\ bonus = BonusLines
               /\ \A l \in Lines \ todo : ComputeLine(l) = line[l]
               /\ ~pricing => bill = Totals

\* Pricing a priced line again changes nothing: the discount it found is kept, and
\* where there was none there is none.
LEMMA PricedOnce ==
    ASSUME NEW saved, NEW away, NEW l, NEW x
    PROVE  /\ Computed(saved, away, l, x).qty = x.qty
           /\ Computed(saved, away, l, Computed(saved, away, l, x)) = Computed(saved, away, l, x)
<1> DEFINE d == IF x.discount # 0 THEN x.discount ELSE BestSchemeDiscount(saved, l, x.qty)
           y == Computed(saved, away, l, x)
<1>1. y = Taxed(away, x, Gross(l, x.qty) - d, d, GstRate[ItemOf[l]])
  BY DEF Computed
<1>2. d = IF d # 0 THEN d ELSE BestSchemeDiscount(saved, l, x.qty)
  OBVIOUS
<1> HIDE DEF d, y
<1>3. y.qty = x.qty /\ y.discount = d
  BY <1>1 DEF Taxed
<1>4. Computed(saved, away, l, y) = Taxed(away, y, Gross(l, x.qty) - d, d, GstRate[ItemOf[l]])
  BY <1>2, <1>3 DEF Computed
<1>5. Computed(saved, away, l, y) = y
  BY <1>1, <1>3, <1>4 DEF Taxed
<1> QED BY <1>3, <1>5 DEF y

\* A line priced is priced for good, and its quantity is not touched.
LEMMA PriceStep ==
    ASSUME BillInv, NEW l \in Lines, PriceLine(l)
    PROVE  BillInv'
<1>1. /\ line'[l] = Computed(scheme, interstate, l, line[l])
      /\ \A k \in Lines \ {l} : line'[k] = line[k]
      /\ LinesThere'
  BY DEF PriceLine, BillInv, LinesThere, ComputeLine
<1>2. /\ line'[l].qty = line[l].qty
      /\ Computed(scheme, interstate, l, line'[l]) = line'[l]
  BY <1>1, PricedOnce
<1>3. QtyOrdered' = QtyOrdered
  BY <1>1, <1>2 DEF QtyOrdered
<1>4. calm' => \A k \in Lines \ todo' : ComputeLine(k)' = line'[k]
  BY <1>1, <1>2 DEF PriceLine, BillInv, ComputeLine
<1>5. calm' => bonus' = BonusLines'
  BY <1>3 DEF PriceLine, BillInv, BonusLines
<1>6. pricing /\ pricing'
  BY DEF PriceLine, BillInv
<1> QED BY <1>1, <1>4, <1>5, <1>6 DEF BillInv

\* Every step keeps the invariant.
LEMMA BillStep == BillInv /\ [BillNext]_billingVars => BillInv'
<1> SUFFICES ASSUME BillInv, [BillNext]_billingVars PROVE BillInv'
  OBVIOUS
<1> USE DEF BillInv
<1>1. CASE StartRecompute
  BY <1>1 DEF StartRecompute, Rebonused, BonusLines, QtyOrdered, LinesThere
<1>2. CASE FinishRecompute
  <2>1. UNCHANGED <<line, bonus, scheme, interstate, calm, todo>> /\ bill' = Totals /\ todo = {}
    BY <1>2 DEF FinishRecompute
  <2>2. Totals' = Totals
    BY <2>1 DEF Totals, BonusGross, LinesTotal
  <2>3. BonusLines' = BonusLines /\ \A l \in Lines : ComputeLine(l)' = ComputeLine(l)
    BY <2>1 DEF BonusLines, QtyOrdered, ComputeLine
  <2> QED BY <2>1, <2>2, <2>3 DEF LinesThere
<1>3. ASSUME NEW l \in Lines, PriceLine(l) PROVE BillInv'
  BY <1>3, PriceStep
<1>4. ASSUME NEW l \in Lines, NEW q \in Quantities, NEW d \in Discounts, SetLine(l, q, d) PROVE BillInv'
  BY <1>4 DEF SetLine, LinesThere
<1>5. ASSUME NEW s \in Schemes, NEW o \in Offers, SaveScheme(s, o) PROVE BillInv'
  BY <1>5 DEF SaveScheme, LinesThere
<1>6. ASSUME NEW b, DeleteSlabs \/ InsertSlab(b) \/ MoveRegistration PROVE BillInv'
  BY <1>6 DEF DeleteSlabs, InsertSlab, MoveRegistration, LinesThere
<1>7. CASE UNCHANGED billingVars
  <2>1. UNCHANGED <<line, bonus, bill, scheme, interstate, calm, todo, pricing>>
    BY <1>7 DEF billingVars
  <2>2. Totals' = Totals
    BY <2>1 DEF Totals, BonusGross, LinesTotal
  <2>3. BonusLines' = BonusLines /\ \A l \in Lines : ComputeLine(l)' = ComputeLine(l)
    BY <2>1 DEF BonusLines, QtyOrdered, ComputeLine
  <2> QED BY <2>1, <2>2, <2>3 DEF LinesThere
<1> QED
  BY <1>1, <1>2, <1>3, <1>4, <1>5, <1>6, <1>7 DEF BillNext

\* Once an invoice is priced and nothing else is written, recompute_invoice would
\* write the same again: a discount it found is kept, and what it did not find it
\* does not find the next time.
THEOREM Stable == BillSpec => []RecomputeStable
<1>1. BillInit => BillInv
  BY DEF BillInit, BillInv, LinesThere
<1>2. BillInv => RecomputeStable
  BY DEF BillInv, RecomputeStable
<1> QED BY <1>1, <1>2, BillStep, PTL DEF BillSpec
-----------------------------------------------------------------------------
(* What schemes can take off, and the types of an invoice *)

SlabKinds == {"percent", "flat"}
Slabs == [from : Nat, upto : Nat, kind : SlabKinds, value : Nat]

\* The entries are those of an ordinary office: no serializer of the code refuses a
\* negative quantity, rate, percentage or discount, and these theorems are about
\* entries without them.
OrdinaryEntries ==
    /\ IsFiniteSet(Lines) /\ IsFiniteSet(Schemes) /\ IsFiniteSet(Bonuses)
    /\ Rate \in [Lines -> Nat] /\ Quantities \subseteq Nat /\ Discounts \subseteq Nat
    /\ \A o \in Offers : o.kind \in SlabKinds \cup {"slab"} /\ o.value \in Nat /\ o.slabs \in SUBSET Slabs
    /\ \A b \in Bonuses : b.needed \in Nat \ {0} /\ {b.given, b.cap, b.rate} \subseteq Nat

Percent == 0..100

\* An offer as it is saved, its slabs there, gone or coming back.
SchemeRows == [kind : SlabKinds \cup {"slab"}, value : Nat, slabs : SUBSET Slabs]

SchemeInv ==
    /\ scheme \in [Schemes -> SchemeRows]
    /\ \/ saving = NoSaving
       \/ saving \in [scheme : Schemes, slabs : SUBSET Slabs, cleared : BOOLEAN]

\* No offer takes off more than everything.
PercentsOnly ==
    \A o \in Offers :
        /\ o.kind = "percent" => o.value \in Percent
        /\ \A b \in o.slabs : b.kind = "percent" => b.value \in Percent

LEMMA QuantizeType == ASSUME NEW n \in Nat PROVE Quantize(n, 100) \in Nat
BY DEF Quantize

LEMMA QuantizeWithin ==
    ASSUME NEW n \in Nat, NEW g \in Nat, n <= 100 * g
    PROVE  Quantize(n, 100) <= g
BY DEF Quantize

LEMMA PercentOf ==
    ASSUME NEW g \in Nat, NEW v \in Nat
    PROVE  g * v \in Nat /\ (v <= 100 => g * v <= 100 * g)
<1>1. g * v \in Nat
  OBVIOUS
<1>2. ASSUME v <= 100 PROVE g * v <= 100 * g
  <2>1. g * (100 - v) \in Nat
    BY <1>2
  <2>2. g * (100 - v) = 100 * g - g * v
    BY <1>2
  <2> QED BY <1>1, <2>1, <2>2
<1> QED BY <1>1, <1>2

LEMMA OffType ==
    ASSUME NEW k, NEW v \in Nat, NEW g \in Nat
    PROVE  /\ Off(k, v, g) \in Nat
           /\ (k = "percent" => v \in Percent) => Off(k, v, g) <= g
<1>1. g * v \in Nat /\ (v <= 100 => g * v <= 100 * g)
  BY PercentOf
<1>2. CASE k = "percent"
  <2> DEFINE n == g * v
  <2>1. n \in Nat /\ (v <= 100 => n <= 100 * g)
    BY <1>1
  <2>2. Off(k, v, g) = Quantize(n, 100)
    BY <1>2 DEF Off
  <2> HIDE DEF n
  <2>3. v <= 100 => Quantize(n, 100) <= g
    BY <2>1, QuantizeWithin
  <2> QED BY <1>2, <2>1, <2>2, <2>3, QuantizeType DEF Percent
<1>3. CASE k # "percent"
  BY <1>3 DEF Off
<1> QED BY <1>2, <1>3

\* A nonempty set of slabs has one that begins first.
LEMMA FirstSlab ==
    ASSUME NEW S \in SUBSET Slabs, S # {}
    PROVE  \E b \in S : \A c \in S : b.from <= c.from
<1> DEFINE N == {b.from : b \in S}
<1>1. \A b \in S : b.from \in Nat
  BY DEF Slabs
<1>2. N \subseteq Nat /\ N # {}
  BY <1>1
<1>3. PICK n \in N : \A m \in N : <<m, n>> \notin Less
  <2> HIDE DEF N
  <2> QED BY <1>2, LessWellFounded, WFMin
<1>4. PICK b \in S : b.from = n
  BY <1>3
<1>5. \A c \in S : ~(c.from < n)
  BY <1>1, <1>3, <1>4 DEF Less
<1> QED BY <1>1, <1>4, <1>5

LEMMA SlabOffType ==
    ASSUME NEW S \in SUBSET Slabs, NEW q, NEW g \in Nat
    PROVE  /\ SlabOff(S, q, g) \in Nat
           /\ (\A b \in S : b.kind = "percent" => b.value \in Percent) => SlabOff(S, q, g) <= g
<1> DEFINE fitting == {b \in S : Matches(b, q)}
           first == CHOOSE b \in fitting : \A c \in fitting : b.from <= c.from
<1>1. CASE fitting = {}
  BY <1>1 DEF SlabOff
<1>2. CASE fitting # {}
  <2>1. fitting \in SUBSET Slabs
    OBVIOUS
  <2> HIDE DEF fitting
  <2>2. first \in fitting
    BY <1>2, <2>1, FirstSlab
  <2>3. first \in S /\ first \in Slabs
    BY <2>1, <2>2 DEF fitting
  <2>4. SlabOff(S, q, g) = Off(first.kind, first.value, g)
    BY <1>2 DEF SlabOff, fitting
  <2> HIDE DEF first
  <2>5. first.value \in Nat
    BY <2>3 DEF Slabs
  <2> QED BY <2>3, <2>4, <2>5, OffType
<1> QED BY <1>1, <1>2

\* The best of finitely many discounts is one of them.
LEMMA FiniteMax ==
    ASSUME NEW S, IsFiniteSet(S), S # {}, NEW f, \A x \in S : f[x] \in Int
    PROVE  \E x \in S : \A y \in S : f[x] >= f[y]
<1> DEFINE P == {T \in SUBSET S : T = {} \/ \E x \in T : \A y \in T : f[x] >= f[y]}
<1>1. {} \in P
  OBVIOUS
<1>2. ASSUME NEW T \in SUBSET S, NEW z \in S \ T, T \in P PROVE T \cup {z} \in P
  <2>1. CASE T = {}
    BY <2>1
  <2>2. CASE T # {}
    <3>1. PICK x \in T : \A y \in T : f[x] >= f[y]
      BY <1>2, <2>2
    <3>2. CASE f[x] >= f[z]
      <4>1. \A y \in T \cup {z} : f[x] >= f[y]
        BY <3>1, <3>2
      <4> QED BY <4>1
    <3>3. CASE f[z] >= f[x]
      <4>1. \A y \in T \cup {z} : f[z] >= f[y]
        BY <3>1, <3>3
      <4> QED BY <4>1
    <3> QED BY <3>2, <3>3
  <2> QED BY <2>1, <2>2
<1> HIDE DEF P
<1>3. S \in P
  BY <1>1, <1>2, SubsetInduction
<1> QED BY <1>3 DEF P

LEMMA BestType ==
    ASSUME OrdinaryEntries, NEW saved \in [Schemes -> SchemeRows], NEW l \in Lines, NEW q \in Nat
    PROVE  /\ Gross(l, q) \in Nat
           /\ BestSchemeDiscount(saved, l, q) \in Nat
           /\ (\A s \in Schemes : /\ saved[s].kind = "percent" => saved[s].value \in Percent
                                  /\ \A b \in saved[s].slabs : b.kind = "percent" => b.value \in Percent)
                => BestSchemeDiscount(saved, l, q) <= Gross(l, q)
<1> DEFINE S == {t \in Schemes : ItemOf[l] \in SchemeItems[t]}
           g == Gross(l, q)
           f == [s \in S |-> SchemeOff(saved[s], q, g)]
           M == {0} \cup {SchemeOff(saved[s], q, g) : s \in S}
           Sane == \A s \in Schemes : /\ saved[s].kind = "percent" => saved[s].value \in Percent
                                      /\ \A b \in saved[s].slabs : b.kind = "percent" => b.value \in Percent
<1>1. g \in Nat
  <2>1. Rate[l] \in Nat
    BY DEF OrdinaryEntries
  <2> QED BY <2>1, PercentOf DEF Gross
<1>2. IsFiniteSet(S)
  <2>1. S \in SUBSET Schemes /\ IsFiniteSet(Schemes)
    BY DEF OrdinaryEntries
  <2> HIDE DEF S
  <2> QED BY <2>1, FS_Subset
<1> HIDE DEF g
<1>3. ASSUME NEW s \in S
      PROVE  SchemeOff(saved[s], q, g) \in Nat /\ (Sane => SchemeOff(saved[s], q, g) <= g)
  <2>1. s \in Schemes /\ saved[s] \in SchemeRows
    OBVIOUS
  <2>2. saved[s].value \in Nat /\ saved[s].slabs \in SUBSET Slabs
    BY <2>1 DEF SchemeRows
  <2>3. CASE saved[s].kind = "slab"
    BY <1>1, <2>1, <2>2, <2>3, SlabOffType DEF SchemeOff
  <2>4. CASE saved[s].kind # "slab"
    BY <1>1, <2>1, <2>2, <2>4, OffType DEF SchemeOff
  <2> QED BY <2>3, <2>4
<1>4. \E x \in M : \A y \in M : x >= y
  <2>1. CASE S = {}
    BY <2>1
  <2>2. CASE S # {}
    <3>1. \A s \in S : f[s] \in Int
      BY <1>3
    <3>2. PICK s \in S : \A t \in S : f[s] >= f[t]
      <4> HIDE DEF f, S
      <4> QED BY <1>2, <2>2, <3>1, FiniteMax
    <3>3. SchemeOff(saved[s], q, g) >= 0 /\ \A t \in S : SchemeOff(saved[s], q, g) >= SchemeOff(saved[t], q, g)
      BY <1>3, <3>2
    <3>4. \A y \in M : SchemeOff(saved[s], q, g) >= y
      BY <3>3
    <3> QED BY <3>4
  <2> QED BY <2>1, <2>2
<1>5. Max(M) \in M
  <2> HIDE DEF M
  <2> QED BY <1>4 DEF Max
<1>6. Max(M) = BestSchemeDiscount(saved, l, q)
  BY DEF BestSchemeDiscount, g
<1>7. \A x \in M : x \in Nat /\ (Sane => x <= g)
  BY <1>1, <1>3
<1>8. Max(M) \in Nat /\ (Sane => Max(M) <= g)
  <2> HIDE DEF M, Sane
  <2> QED BY <1>5, <1>7
<1> QED BY <1>1, <1>6, <1>8 DEF g

\* The invariant of the draft: lines and bonus lines with their amounts.
EntriesFit ==
    \A l \in Lines :
        /\ {"qty", "discount"} \subseteq DOMAIN line[l]
        /\ line[l].qty \in {0} \cup Quantities /\ line[l].discount \in Nat

BonusOK == IsFiniteSet(bonus) /\ \A x \in bonus : x.scheme \in Bonuses /\ x.qty \in Nat

BillTyped == BillInv /\ BillTypeOK /\ SchemeInv /\ EntriesFit /\ BonusOK

\* A step leaves offers well formed.
LEMMA SchemeStep ==
    ASSUME OrdinaryEntries, SchemeInv, [BillNext]_billingVars
    PROVE  SchemeInv'
<1>1. CASE UNCHANGED <<scheme, saving>>
  BY <1>1 DEF SchemeInv
<1>2. ASSUME NEW s \in Schemes, NEW o \in Offers, SaveScheme(s, o) PROVE SchemeInv'
  <2>1. o.kind \in SlabKinds \cup {"slab"} /\ o.value \in Nat /\ o.slabs \in SUBSET Slabs
    BY DEF OrdinaryEntries
  <2>2. scheme' = [scheme EXCEPT ![s] = [scheme[s] EXCEPT !.kind = o.kind, !.value = o.value]]
    BY <1>2 DEF SaveScheme, SchemeInv
  <2>3. scheme[s] \in SchemeRows
    BY DEF SchemeInv
  <2> DEFINE n == [scheme[s] EXCEPT !.kind = o.kind, !.value = o.value]
  <2>4. n \in SchemeRows /\ n.slabs = scheme[s].slabs
    BY <2>1, <2>3 DEF SchemeRows
  <2> HIDE DEF n
  <2>5. scheme' \in [Schemes -> SchemeRows]
    BY <2>2, <2>4 DEF SchemeInv, n
  <2>6. saving' = NoSaving \/ saving' \in [scheme : Schemes, slabs : SUBSET Slabs, cleared : BOOLEAN]
    BY <1>2, <2>1 DEF SaveScheme
  <2> QED BY <2>5, <2>6 DEF SchemeInv
<1>3. CASE DeleteSlabs
  <2>1. saving \in [scheme : Schemes, slabs : SUBSET Slabs, cleared : BOOLEAN]
    BY <1>3 DEF DeleteSlabs, SchemeInv, NoSaving
  <2> DEFINE s == saving.scheme
             n == [scheme[s] EXCEPT !.slabs = {}]
  <2>2. s \in Schemes /\ scheme' = [scheme EXCEPT ![s] = n]
        /\ saving' \in [scheme : Schemes, slabs : SUBSET Slabs, cleared : BOOLEAN]
    BY <1>3, <2>1 DEF DeleteSlabs, SchemeInv
  <2>3. scheme[s] \in SchemeRows
    BY <2>2 DEF SchemeInv
  <2>4. n \in SchemeRows /\ n.slabs = {}
    BY <2>3 DEF SchemeRows
  <2> HIDE DEF n, s
  <2>5. scheme' \in [Schemes -> SchemeRows]
    BY <2>2, <2>4 DEF SchemeInv
  <2> QED BY <2>2, <2>5 DEF SchemeInv
<1>4. ASSUME NEW b \in saving.slabs, InsertSlab(b) PROVE SchemeInv'
  <2>1. saving \in [scheme : Schemes, slabs : SUBSET Slabs, cleared : BOOLEAN]
    BY <1>4 DEF InsertSlab, SchemeInv, NoSaving
  <2> DEFINE s == saving.scheme
             m == scheme[s].slabs \cup {b}
             n == [scheme[s] EXCEPT !.slabs = m]
  <2>2. s \in Schemes /\ scheme' = [scheme EXCEPT ![s] = n] /\ b \in Slabs
        /\ (saving' = NoSaving \/ saving' \in [scheme : Schemes, slabs : SUBSET Slabs, cleared : BOOLEAN])
    BY <1>4, <2>1 DEF InsertSlab, SchemeInv
  <2>3. scheme[s] \in SchemeRows
    BY <2>2 DEF SchemeInv
  <2>4. m \in SUBSET Slabs
    BY <2>2, <2>3 DEF SchemeRows
  <2> HIDE DEF m
  <2>6. n \in SchemeRows /\ n.slabs = m
    BY <2>3, <2>4 DEF SchemeRows
  <2> HIDE DEF n, s
  <2>7. scheme' \in [Schemes -> SchemeRows]
    BY <2>2, <2>6 DEF SchemeInv
  <2> QED BY <2>2, <2>7 DEF SchemeInv
<1>5. ASSUME NEW l \in Lines, NEW q, NEW d,
             StartRecompute \/ FinishRecompute \/ MoveRegistration \/ PriceLine(l) \/ SetLine(l, q, d)
      PROVE  SchemeInv'
  BY <1>1, <1>5 DEF StartRecompute, FinishRecompute, MoveRegistration, PriceLine, SetLine
<1>6. CASE StartRecompute \/ FinishRecompute \/ MoveRegistration
  BY <1>1, <1>6 DEF StartRecompute, FinishRecompute, MoveRegistration
<1>7. CASE UNCHANGED billingVars
  BY <1>1, <1>7 DEF billingVars
<1> QED BY <1>2, <1>3, <1>4, <1>5, <1>6, <1>7 DEF BillNext

\* What a user can enter as a quantity is a number.
LEMMA QuantitiesNat ==
    ASSUME OrdinaryEntries
    PROVE  \A q \in {0} \cup Quantities : q \in Nat
<1>1. Quantities \subseteq Nat
  BY DEF OrdinaryEntries
<1>2. 0 \in Nat
  OBVIOUS
<1> QED BY <1>1, <1>2, Zenon

\* A step keeps quantities and discounts non-negative.
LEMMA LineStep ==
    ASSUME OrdinaryEntries, LinesThere, SchemeInv, EntriesFit, todo \subseteq Lines, [BillNext]_billingVars
    PROVE  EntriesFit'
<1>1. CASE UNCHANGED line
  BY <1>1 DEF EntriesFit
<1>2. ASSUME NEW l \in Lines, PriceLine(l) PROVE EntriesFit'
  <2>1. line'[l] = ComputeLine(l) /\ \A k \in Lines \ {l} : line'[k] = line[k]
    BY <1>2 DEF PriceLine, LinesThere
  <2>2. line[l].qty \in Nat /\ line[l].qty \in {0} \cup Quantities /\ line[l].discount \in Nat
    <3>1. \A q \in {0} \cup Quantities : q \in Nat
      BY QuantitiesNat
    <3>2. line[l].qty \in {0} \cup Quantities /\ line[l].discount \in Nat
      BY DEF EntriesFit
    <3> QED BY <3>1, <3>2, Zenon
  <2>3. BestSchemeDiscount(scheme, l, line[l].qty) \in Nat
    BY <2>2, BestType DEF SchemeInv
  <2>4. /\ ComputeLine(l).qty = line[l].qty /\ ComputeLine(l).discount \in Nat
        /\ {"qty", "discount"} \subseteq DOMAIN ComputeLine(l)
    BY <2>2, <2>3 DEF ComputeLine, Computed, Taxed
  <2> QED BY <2>1, <2>2, <2>4 DEF EntriesFit
<1>3. ASSUME NEW l \in Lines, NEW q \in Quantities, NEW d \in Discounts, SetLine(l, q, d) PROVE EntriesFit'
  <2>1. line' = [line EXCEPT ![l] = [line[l] EXCEPT !.qty = q, !.discount = d]] /\ d \in Nat
    BY <1>3 DEF SetLine, LinesThere, OrdinaryEntries
  <2> DEFINE n == [line[l] EXCEPT !.qty = q, !.discount = d]
  <2>2. line'[l] = n /\ \A k \in Lines \ {l} : line'[k] = line[k]
    BY <2>1 DEF LinesThere
  <2>3. {"qty", "discount"} \subseteq DOMAIN line[l]
    BY DEF EntriesFit
  <2>4. n.qty = q /\ n.discount = d /\ {"qty", "discount"} \subseteq DOMAIN n
    BY <2>3
  <2> HIDE DEF n
  <2> QED BY <2>1, <2>2, <2>4 DEF EntriesFit
<1> QED
  BY <1>1, <1>2, <1>3 DEF BillNext, billingVars, StartRecompute, FinishRecompute, MoveRegistration,
     DeleteSlabs, InsertSlab, SaveScheme

\* A finite set's image is finite.
LEMMA FiniteImage ==
    ASSUME NEW S, IsFiniteSet(S), NEW f
    PROVE  IsFiniteSet({f[x] : x \in S})
<1> DEFINE P == {T \in SUBSET S : IsFiniteSet({f[x] : x \in T})}
<1>1. {} \in P
  <2>1. {f[x] : x \in {}} = {}
    OBVIOUS
  <2> QED BY <2>1, FS_EmptySet
<1>2. ASSUME NEW T \in SUBSET S, NEW z \in S \ T, T \in P PROVE T \cup {z} \in P
  <2> DEFINE I == {f[x] : x \in T}
  <2>1. IsFiniteSet(I)
    BY <1>2
  <2>2. {f[x] : x \in T \cup {z}} = I \cup {f[z]}
    OBVIOUS
  <2>3. IsFiniteSet(I \cup {f[z]})
    <3> HIDE DEF I
    <3> QED BY <2>1, FS_AddElement
  <2> QED BY <2>2, <2>3
<1> HIDE DEF P
<1>3. S \in P
  BY <1>1, <1>2, SubsetInduction
<1> QED BY <1>3 DEF P

\* A sum of natural numbers is one.
LEMMA SumNat ==
    ASSUME NEW w, NEW S, IsFiniteSet(S), \A x \in S : w[x] \in Nat
    PROVE  SumFunctionOnSet(w, S) \in Nat
<1>1. SumFunctionOnSet(w, S) \in Int
  BY SumType
<1>2. SumFunctionOnSet(w, {}) <= SumFunctionOnSet(w, S)
  BY SumSubset
<1> QED BY <1>1, <1>2, SumEmpty

\* How often a bonus is earned.
LEMMA MultiplesType ==
    ASSUME OrdinaryEntries, NEW ordered, \A l \in Lines : ordered[l] \in Nat, NEW b \in Bonuses
    PROVE  Multiples(ordered, b) \in Nat
<1> DEFINE S == {l \in Lines : ItemOf[l] = b.trigger}
           t == SumFunctionOnSet(ordered, S)
<1>1. S \in SUBSET Lines /\ IsFiniteSet(Lines) /\ b.needed \in Nat \ {0} /\ b.cap \in Nat
  BY DEF OrdinaryEntries
<1>2. t \in Nat
  <2>1. \A l \in S : ordered[l] \in Nat
    OBVIOUS
  <2> HIDE DEF S
  <2>2. IsFiniteSet(S)
    BY <1>1, FS_Subset
  <2> QED BY <2>1, <2>2, SumNat
<1>3. Multiples(ordered, b) = IF b.cap # 0 /\ t \div b.needed > b.cap THEN b.cap ELSE t \div b.needed
  BY DEF Multiples, TriggerQty
<1> HIDE DEF t
<1>4. \A n \in Nat, m \in Nat \ {0} : n \div m \in Nat
  OBVIOUS
<1>5. t \div b.needed \in Nat
  BY <1>1, <1>2, <1>4
<1> QED BY <1>1, <1>3, <1>5

LEMMA EarnedType ==
    ASSUME OrdinaryEntries, NEW ordered, \A l \in Lines : ordered[l] \in Nat
    PROVE  IsFiniteSet(Earned(ordered)) /\ \A x \in Earned(ordered) : x.scheme \in Bonuses /\ x.qty \in Nat
<1> DEFINE S == {c \in Bonuses : Multiples(ordered, c) > 0}
           f == [b \in S |-> [scheme |-> b, qty |-> b.given * Multiples(ordered, b)]]
<1>1. S \in SUBSET Bonuses /\ IsFiniteSet(Bonuses) /\ \A b \in Bonuses : b.given \in Nat
  BY DEF OrdinaryEntries
<1>2. IsFiniteSet(S)
  <2> HIDE DEF S
  <2> QED BY <1>1, FS_Subset
<1>3. Earned(ordered) = {f[b] : b \in S}
  BY DEF Earned
<1>4. ASSUME NEW b \in S PROVE f[b].scheme \in Bonuses /\ f[b].qty \in Nat
  <2>1. b \in Bonuses /\ Multiples(ordered, b) \in Nat /\ b.given \in Nat
    BY <1>1, MultiplesType
  <2>2. b.given * Multiples(ordered, b) \in Nat
    BY <2>1, PercentOf
  <2> QED BY <2>1, <2>2
<1> HIDE DEF f, S
<1> QED BY <1>2, <1>3, <1>4, FiniteImage

LEMMA TotalsType ==
    ASSUME OrdinaryEntries, EntriesFit, BonusOK
    PROVE  Totals.discount \in Nat /\ BonusGross \in Nat
<1> DEFINE d == [l \in Lines |-> line[l].discount]
           g == [b \in bonus |-> b.qty * b.scheme.rate]
<1>1. LinesTotal(d) \in Nat
  <2>1. IsFiniteSet(Lines) /\ \A l \in Lines : d[l] \in Nat
    BY DEF OrdinaryEntries, EntriesFit
  <2> HIDE DEF d
  <2> QED BY <2>1, SumNat DEF LinesTotal
<1>2. BonusGross \in Nat
  <2>1. ASSUME NEW b \in bonus PROVE g[b] \in Nat
    <3>1. b.qty \in Nat /\ b.scheme.rate \in Nat
      BY DEF BonusOK, OrdinaryEntries
    <3> QED BY <3>1, PercentOf
  <2>2. IsFiniteSet(bonus) /\ BonusGross = SumFunctionOnSet(g, bonus)
    BY DEF BonusOK, BonusGross
  <2> HIDE DEF g
  <2> QED BY <2>1, <2>2, SumNat
<1>3. Totals.discount = LinesTotal(d) + BonusGross
  BY DEF Totals
<1> HIDE DEF d
<1> QED BY <1>1, <1>2, <1>3

LEMMA BillTypeStep ==
    ASSUME OrdinaryEntries, BillTyped, [BillNext]_billingVars
    PROVE  BillTyped'
<1> USE DEF BillTyped
<1>1. BillInv' /\ SchemeInv'
  BY BillStep, SchemeStep
<1>2. todo' \subseteq Lines
  BY DEF BillTypeOK, BillNext, billingVars, StartRecompute, FinishRecompute, MoveRegistration, PriceLine,
         SetLine, DeleteSlabs, InsertSlab, SaveScheme
<1>3. EntriesFit'
  BY LineStep DEF BillInv, BillTypeOK
<1>4. BonusOK'
  <2>1. CASE UNCHANGED bonus
    BY <2>1 DEF BonusOK
  <2>2. CASE StartRecompute
    <3>1. \A l \in Lines : QtyOrdered[l] \in Nat
      <4>1. \A q \in {0} \cup Quantities : q \in Nat
        BY QuantitiesNat
      <4>2. \A l \in Lines : line[l].qty \in {0} \cup Quantities
        BY DEF EntriesFit
      <4> QED BY <4>1, <4>2, Zenon DEF QtyOrdered
    <3>2. bonus' = Earned(QtyOrdered)
      BY <2>2 DEF StartRecompute, Rebonused, BonusLines
    <3> QED BY <3>1, <3>2, EarnedType DEF BonusOK
  <2> QED
    BY <2>1, <2>2 DEF BillNext, billingVars, FinishRecompute, MoveRegistration, PriceLine,
       SetLine, DeleteSlabs, InsertSlab, SaveScheme
<1>5. bill'.discount \in Nat
  <2>1. CASE UNCHANGED bill
    BY <2>1 DEF BillTypeOK
  <2>2. CASE FinishRecompute
    BY <2>2, TotalsType DEF FinishRecompute
  <2> QED
    BY <2>1, <2>2 DEF BillNext, billingVars, StartRecompute, MoveRegistration, PriceLine,
       SetLine, DeleteSlabs, InsertSlab, SaveScheme
<1>6. \A s \in Schemes : scheme'[s].kind \in {"percent", "flat", "slab"}
  BY <1>1 DEF SchemeInv, SchemeRows, SlabKinds
<1>7. saving'.scheme \in Schemes \cup {"none"}
  BY <1>1 DEF SchemeInv, NoSaving
<1>8. BillTypeOK'
  BY <1>2, <1>3, <1>5, <1>6, <1>7 DEF BillTypeOK, EntriesFit
<1> QED BY <1>1, <1>3, <1>4, <1>8

LEMMA BillTypeInit == OrdinaryEntries /\ BillInit => BillTyped
<1> SUFFICES ASSUME OrdinaryEntries, BillInit PROVE BillTyped
  OBVIOUS
<1>1. BillInv
  BY DEF BillInit, BillInv, LinesThere
<1>2. SchemeInv
  <2>1. NoOffer \in SchemeRows /\ NoOffer.slabs = {}
    BY DEF NoOffer, SchemeRows, SlabKinds
  <2> QED BY <2>1, FS_EmptySet DEF BillInit, SchemeInv
<1>3. EntriesFit /\ BonusOK
  BY FS_EmptySet DEF BillInit, EntriesFit, BonusOK, NoLine
<1>4. BillTypeOK
  BY DEF BillInit, BillTypeOK, NoLine, NoOffer, NoSaving
<1> QED BY <1>1, <1>2, <1>3, <1>4 DEF BillTyped

\* No amount taken off an invoice is ever negative, bonus lines included.
THEOREM BillsTyped == OrdinaryEntries => (BillSpec => []BillTypeOK)
<1> SUFFICES ASSUME OrdinaryEntries PROVE BillSpec => []BillTypeOK
  OBVIOUS
<1>1. BillTyped => BillTypeOK
  BY DEF BillTyped
<1> QED BY <1>1, BillTypeInit, BillTypeStep, PTL DEF BillSpec

\* The schemes as they are saved, also half way through an edit, take off no more
\* than everything.
SlabsSane(S) == \A b \in S : b.kind = "percent" => b.value \in Percent
SchemesSane ==
    /\ \A s \in Schemes : (scheme[s].kind = "percent" => scheme[s].value \in Percent) /\ SlabsSane(scheme[s].slabs)
    /\ SlabsSane(saving.slabs)

\* A step leaves percentages in range.
LEMMA SaneStep ==
    ASSUME OrdinaryEntries, PercentsOnly, SchemeInv, SchemesSane, [BillNext]_billingVars
    PROVE  SchemesSane'
<1>1. CASE UNCHANGED <<scheme, saving>>
  BY <1>1 DEF SchemesSane
<1>2. ASSUME NEW s \in Schemes, NEW o \in Offers, SaveScheme(s, o) PROVE SchemesSane'
  <2>1. scheme[s] \in SchemeRows
    BY DEF SchemeInv
  <2> DEFINE n == [scheme[s] EXCEPT !.kind = o.kind, !.value = o.value]
  <2>2. n.kind = o.kind /\ n.value = o.value /\ n.slabs = scheme[s].slabs
    BY <2>1 DEF SchemeRows
  <2>3. scheme' = [scheme EXCEPT ![s] = n]
    BY <1>2 DEF SaveScheme, SchemeInv
  <2> HIDE DEF n
  <2>4. \A t \in Schemes : IF t = s THEN scheme'[t] = n ELSE scheme'[t] = scheme[t]
    BY <2>3 DEF SchemeInv
  <2>5. (o.kind = "percent" => o.value \in Percent) /\ SlabsSane(o.slabs) /\ SlabsSane({})
    BY DEF PercentsOnly, SlabsSane
  <2>6. saving'.slabs \in {{}, o.slabs}
    BY <1>2 DEF SaveScheme, NoSaving
  <2> QED BY <2>2, <2>4, <2>5, <2>6 DEF SchemesSane
<1>3. CASE DeleteSlabs
  <2>1. saving \in [scheme : Schemes, slabs : SUBSET Slabs, cleared : BOOLEAN]
    BY <1>3 DEF DeleteSlabs, SchemeInv, NoSaving
  <2> DEFINE s == saving.scheme
             n == [scheme[s] EXCEPT !.slabs = {}]
  <2>2. s \in Schemes /\ scheme' = [scheme EXCEPT ![s] = n] /\ saving'.slabs = saving.slabs
    BY <1>3, <2>1 DEF DeleteSlabs, SchemeInv
  <2>3. scheme[s] \in SchemeRows
    BY <2>2 DEF SchemeInv
  <2>4. n.kind = scheme[s].kind /\ n.value = scheme[s].value /\ SlabsSane(n.slabs)
    BY <2>3 DEF SchemeRows, SlabsSane
  <2> HIDE DEF n, s
  <2>5. \A t \in Schemes : IF t = s THEN scheme'[t] = n ELSE scheme'[t] = scheme[t]
    BY <2>2 DEF SchemeInv
  <2> QED BY <2>2, <2>4, <2>5 DEF SchemesSane
<1>4. ASSUME NEW b \in saving.slabs, InsertSlab(b) PROVE SchemesSane'
  <2>1. saving \in [scheme : Schemes, slabs : SUBSET Slabs, cleared : BOOLEAN]
    BY <1>4 DEF InsertSlab, SchemeInv, NoSaving
  <2> DEFINE s == saving.scheme
             m == scheme[s].slabs \cup {b}
             n == [scheme[s] EXCEPT !.slabs = m]
  <2>2. s \in Schemes /\ scheme' = [scheme EXCEPT ![s] = n] /\ saving'.slabs \subseteq saving.slabs
    BY <1>4, <2>1 DEF InsertSlab, SchemeInv, NoSaving
  <2>3. scheme[s] \in SchemeRows
    BY <2>2 DEF SchemeInv
  <2>4. SlabsSane(m) /\ SlabsSane(saving'.slabs)
    BY <2>2 DEF SchemesSane, SlabsSane
  <2> HIDE DEF m
  <2>5. n.kind = scheme[s].kind /\ n.value = scheme[s].value /\ SlabsSane(n.slabs)
    BY <2>3, <2>4 DEF SchemeRows
  <2> HIDE DEF n, s
  <2>6. \A t \in Schemes : IF t = s THEN scheme'[t] = n ELSE scheme'[t] = scheme[t]
    BY <2>2 DEF SchemeInv
  <2> QED BY <2>2, <2>4, <2>5, <2>6 DEF SchemesSane
<1> QED
  BY <1>1, <1>2, <1>3, <1>4 DEF BillNext, billingVars, StartRecompute, FinishRecompute, MoveRegistration,
     PriceLine, SetLine

\* The discount the schemes give is never negative and never more than the gross
\* amount of the line.
DiscountWithinGross ==
    \A l \in Lines, q \in Quantities : BestSchemeDiscount(scheme, l, q) \in 0..Gross(l, q)

\* As long as no percentage on offer is above a hundred, no line becomes negative by
\* its schemes, whatever slabs a half saved scheme has at the moment.
THEOREM SchemesNeverPayOut == OrdinaryEntries /\ PercentsOnly => (BillSpec => []DiscountWithinGross)
<1> SUFFICES ASSUME OrdinaryEntries, PercentsOnly PROVE BillSpec => []DiscountWithinGross
  OBVIOUS
<1> DEFINE I == SchemeInv /\ SchemesSane
<1>1. BillInit => I
  <2> SUFFICES ASSUME BillInit PROVE I
    OBVIOUS
  <2>1. SchemeInv
    BY BillTypeInit DEF BillTyped
  <2>2. SchemesSane
    BY DEF BillInit, SchemesSane, SlabsSane, NoOffer, NoSaving, Percent
  <2> QED BY <2>1, <2>2
<1>2. I /\ [BillNext]_billingVars => I'
  BY SchemeStep, SaneStep
<1>3. I => DiscountWithinGross
  <2> SUFFICES ASSUME I, NEW l \in Lines, NEW q \in Quantities
               PROVE  BestSchemeDiscount(scheme, l, q) \in 0..Gross(l, q)
    BY DEF DiscountWithinGross
  <2>1. q \in Nat
    BY QuantitiesNat
  <2>2. scheme \in [Schemes -> SchemeRows]
    BY DEF SchemeInv
  <2>3. \A s \in Schemes : /\ scheme[s].kind = "percent" => scheme[s].value \in Percent
                           /\ \A b \in scheme[s].slabs : b.kind = "percent" => b.value \in Percent
    BY DEF SchemesSane, SlabsSane
  <2>4. /\ Gross(l, q) \in Nat /\ BestSchemeDiscount(scheme, l, q) \in Nat
        /\ BestSchemeDiscount(scheme, l, q) <= Gross(l, q)
    BY <2>1, <2>2, <2>3, BestType
  <2> QED BY <2>4
<1> HIDE DEF I
<1> QED BY <1>1, <1>2, <1>3, PTL DEF BillSpec
=============================================================================
