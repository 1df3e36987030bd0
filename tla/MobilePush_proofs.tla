-------------------------- MODULE MobilePush_proofs --------------------------
(***************************************************************************)
(* Theorems about MobilePush, for any records, any number of overlapping   *)
(* calls of synchronize(), of requests and of mishaps.                     *)
(***************************************************************************)
EXTENDS MobilePush, TLAPS

Waiting == {"lookup", "check", "save", "reject"}

\* A request carries a record in a version the phone had; what it may answer and
\* decide is backed by the tables.
CallOK(k) ==
    k.pc # "free" =>
        /\ k.rec \in Records
        /\ k.pc \in Waiting => k.ver \in 1..2
        /\ k.pc \in Waiting /\ Kind[k.rec] = "trip_checkpoint" => HasRow(Parent[k.rec])
        /\ k.pc = "reject" => Parent[k.rec] # NoRecord /\ Kind[k.rec] # "trip_checkpoint"
        /\ k.pc = "done" /\ k.ans = "applied" /\ Parent[k.rec] = NoRecord => HasRow(k.rec)

\* What a cycle holds for confirmed is stored, and so are the trips of the
\* checkpoints it is about to send.
CycleOK(k) ==
    /\ \A t \in k.confirmed : HasRow(t)
    /\ \A r \in k.todo : Kind[r] = "trip_checkpoint" => HasRow(Parent[r])

\* A cycle awaits a request of its own.
Awaited ==
    /\ \A c \in Cycles : cycle[c].req # 0 => call[cycle[c].req].pc # "free"
    /\ \A c, e \in Cycles : c # e /\ cycle[c].req # 0 => cycle[c].req # cycle[e].req

\* What the calls and the cycles know of the tables.
Backed ==
    /\ \A q \in Slots : CallOK(call[q])
    /\ \A c \in Cycles : CycleOK(cycle[c])
    /\ Awaited

\* The inductive invariant.
IInv ==
    /\ TypeOK
    /\ AppliedMeansStored
    /\ SyncedMeansStored
    /\ OnlyOrphansRemembered
    /\ Backed

-----------------------------------------------------------------------------
(* Types.                                                                  *)

LEMMA InitTypes == ASSUME MobilePushAssumption PROVE Init => TypeOK
BY DEF MobilePushAssumption, Init, TypeOK, CycleState, CallState, Idle, Free

\* The answer to a request is a request that is free or answered.
LEMMA AnswerTypes ==
    ASSUME TypeOK, NEW q \in Slots, NEW a \in {"none", "applied", "rejected", "error"},
           Answer(q, a)
    PROVE  call' \in [Slots -> CallState]
<1> DEFINE k == [pc |-> "done", rec |-> call[q].rec, ver |-> 0, dev |-> FALSE, ans |-> a]
<1>1. call[q].rec \in Records \cup {NoRecord}
  BY DEF TypeOK, CallState
<1>2. k \in CallState /\ Free \in CallState
  BY <1>1 DEF CallState, Free
<1> QED BY <1>2 DEF Answer, TypeOK

LEMMA GotoTypes ==
    ASSUME TypeOK, NEW q \in Slots, NEW pc \in {"save", "reject"}, Goto(q, pc)
    PROVE  call' \in [Slots -> CallState]
<1>1. [call[q] EXCEPT !.pc = pc] \in CallState
  BY DEF TypeOK, CallState
<1> QED BY <1>1 DEF Goto, TypeOK

LEMMA SettleTypes ==
    ASSUME TypeOK, NEW c \in Cycles, NEW ok \in BOOLEAN,
           call[cycle[c].req].rec \in Records, Settle(c, ok)
    PROVE  /\ status' \in [Records -> {"absent", "pending", "failed", "synced"}]
           /\ cycle' \in [Cycles -> CycleState]
<1> DEFINE r == call[cycle[c].req].rec
           new == IF ok /\ Kind[r] = "trip" THEN cycle[c].confirmed \cup {r}
                                            ELSE cycle[c].confirmed
<1>1. cycle[c] \in CycleState /\ new \in SUBSET Records
  BY DEF TypeOK, CycleState
<1>2. [cycle[c] EXCEPT !.req = 0, !.confirmed = new] \in CycleState
  BY <1>1 DEF CycleState
<1>3. cycle' = [cycle EXCEPT ![c] = [cycle[c] EXCEPT !.req = 0, !.confirmed = new]]
  BY DEF Settle, TypeOK
<1> QED BY <1>2, <1>3 DEF Settle, TypeOK

-----------------------------------------------------------------------------
(* What the server's steps have in common.                                 *)

RowsStay == \A r \in Records : HasRow(r) => HasRow(r)'

\* As long as no row disappears, what the others know remains true.
LEMMA OthersBacked ==
    ASSUME MobilePushAssumption, TypeOK, Backed, RowsStay, NEW q \in Slots,
           call' \in [Slots -> CallState],
           \A p \in Slots : p # q => call'[p] = call[p]
    PROVE  \A p \in Slots : p # q => CallOK(call[p])'
<1> SUFFICES ASSUME NEW p \in Slots, p # q PROVE CallOK(call[p])'
  OBVIOUS
<1>1. call'[p] = call[p] /\ CallOK(call[p]) /\ call[p] \in CallState
  BY DEF Backed, TypeOK
<1>2. call[p].pc # "free" => call[p].rec \in Records
  BY <1>1 DEF CallOK
<1>3. call[p].pc # "free" /\ Kind[call[p].rec] = "trip_checkpoint" => Parent[call[p].rec] \in Records
  BY <1>2 DEF MobilePushAssumption
<1> QED BY <1>1, <1>2, <1>3 DEF CallOK, RowsStay, HasRow, Waiting, CallState

LEMMA CyclesBacked ==
    ASSUME MobilePushAssumption, TypeOK, Backed, RowsStay, cycle' = cycle
    PROVE  \A c \in Cycles : CycleOK(cycle[c])'
<1> SUFFICES ASSUME NEW c \in Cycles PROVE CycleOK(cycle[c])'
  OBVIOUS
<1>1. CycleOK(cycle[c]) /\ cycle[c].confirmed \subseteq Records /\ cycle[c].todo \subseteq Records
  BY DEF Backed, TypeOK, CycleState
<1>2. \A r \in cycle[c].todo : Kind[r] = "trip_checkpoint" => Parent[r] \in Records
  BY <1>1 DEF MobilePushAssumption
<1> QED BY <1>1, <1>2 DEF CycleOK, RowsStay, HasRow

\* A waiting request is answered: "applied" only what is stored.
LEMMA AnswerBacked ==
    ASSUME MobilePushAssumption, TypeOK, Backed, RowsStay, NEW q \in Slots,
           NEW a \in {"none", "applied", "rejected", "error"}, cycle' = cycle,
           call[q].pc \in Waiting, Answer(q, a),
           a = "applied" /\ Parent[call[q].rec] = NoRecord => row'[call[q].rec] # 0
    PROVE  Backed'
<1>1. call' \in [Slots -> CallState]
  BY AnswerTypes
<1>2. \A p \in Slots : p # q => call'[p] = call[p]
  BY DEF Answer, TypeOK
<1>3. \A p \in Slots : p # q => CallOK(call[p])'
  BY <1>1, <1>2, OthersBacked
<1>4. call[q].rec \in Records
  BY DEF Backed, CallOK, Waiting
<1>5. call'[q] = IF \E c \in Cycles : cycle[c].req = q
                 THEN [pc |-> "done", rec |-> call[q].rec, ver |-> 0, dev |-> FALSE, ans |-> a]
                 ELSE Free
  BY DEF Answer, TypeOK
<1>6. CallOK(call[q])'
  BY <1>4, <1>5 DEF CallOK, Waiting, Free, HasRow
<1>7. Awaited'
  <2>1. ASSUME NEW c \in Cycles, cycle'[c].req # 0 PROVE call'[cycle'[c].req].pc # "free"
    <3>1. cycle[c].req \in Slots /\ call[cycle[c].req].pc # "free"
      BY <2>1 DEF Backed, Awaited, TypeOK, CycleState
    <3> QED BY <1>2, <1>5, <3>1
  <2> QED BY <2>1 DEF Awaited, Backed
<1>8. \A c \in Cycles : CycleOK(cycle[c])'
  BY CyclesBacked
<1> QED BY <1>3, <1>6, <1>7, <1>8 DEF Backed

\* A request goes on to be stored, or to be rejected for a parent that is missing.
LEMMA MoveBacked ==
    ASSUME MobilePushAssumption, TypeOK, Backed, row' = row, NEW q \in Slots, cycle' = cycle,
           NEW k \in CallState, call' = [call EXCEPT ![q] = k],
           call[q].pc \in Waiting, k.pc \in Waiting, k.rec = call[q].rec, k.ver = call[q].ver,
           k.pc = "reject" => Parent[k.rec] # NoRecord /\ Kind[k.rec] # "trip_checkpoint"
    PROVE  Backed'
<1>1. call' \in [Slots -> CallState] /\ \A p \in Slots : p # q => call'[p] = call[p]
  BY DEF TypeOK
<1>2. RowsStay
  BY DEF RowsStay, HasRow
<1>3. \A p \in Slots : p # q => CallOK(call[p])'
  BY <1>1, <1>2, OthersBacked
<1>4. call'[q] = k /\ CallOK(call[q])
  BY DEF TypeOK, Backed
<1>5. CallOK(call[q])'
  BY <1>4 DEF CallOK, Waiting, HasRow
<1>6. Awaited'
  <2>1. ASSUME NEW c \in Cycles, cycle'[c].req # 0 PROVE call'[cycle'[c].req].pc # "free"
    <3>1. cycle[c].req \in Slots /\ call[cycle[c].req].pc # "free"
      BY <2>1 DEF Backed, Awaited, TypeOK, CycleState
    <3>2. k.pc # "free"
      BY DEF Waiting
    <3> QED BY <1>1, <1>4, <3>1, <3>2
  <2> QED BY <2>1 DEF Awaited, Backed
<1>7. \A c \in Cycles : CycleOK(cycle[c])'
  BY <1>2, CyclesBacked
<1> QED BY <1>3, <1>5, <1>6, <1>7 DEF Backed

-----------------------------------------------------------------------------
(* The steps of the server.                                                *)

LEMMA LookupStep ==
    ASSUME MobilePushAssumption, IInv, NEW q \in Slots, Lookup(q) PROVE IInv'
<1> DEFINE r == call[q].rec
           k == [call[q] EXCEPT !.pc = "check", !.dev = device]
<1> USE DEF IInv
<1>1. r \in Records /\ log[r] \in {"none", "applied", "rejected"} /\ call[q].pc \in Waiting
  BY DEF Lookup, Backed, CallOK, TypeOK, Waiting
<1>2. RowsStay
  BY DEF Lookup, server, RowsStay, HasRow
<1>3. call' \in [Slots -> CallState] /\ Backed'
  <2>1. ASSUME NEW a \in {"none", "applied", "rejected", "error"}, Answer(q, a),
               a = "applied" => log[r] = "applied"
        PROVE  call' \in [Slots -> CallState] /\ Backed'
    <3>1. a = "applied" => row'[r] # 0
      BY <1>1, <1>2, <2>1 DEF RowsStay, AppliedMeansStored, HasRow
    <3> QED BY <1>1, <1>2, <2>1, <3>1, AnswerTypes, AnswerBacked DEF Lookup
  <2>2. CASE log[r] # "none" /\ Answer(q, log[r])
    BY <1>1, <2>1, <2>2
  <2>3. CASE Answer(q, "rejected")
    BY <2>1, <2>3
  <2>4. CASE call' = [call EXCEPT ![q].pc = "check", ![q].dev = device]
    <3>1. call[q] \in CallState /\ device \in BOOLEAN
      BY DEF TypeOK
    <3>2. k \in CallState
      BY <3>1 DEF CallState
    <3>3. k.pc = "check" /\ k.rec = call[q].rec /\ k.ver = call[q].ver
      BY <3>1 DEF CallState
    <3>4. call' = [call EXCEPT ![q] = k]
      BY <2>4 DEF TypeOK
    <3>5. call' \in [Slots -> CallState]
      BY <3>2, <3>4 DEF TypeOK
    <3>6. k.pc \in Waiting /\ k.pc # "reject" /\ row' = row /\ cycle' = cycle
      BY <3>3 DEF Waiting, Lookup, server
    <3>7. Backed'
      BY <1>1, <3>2, <3>3, <3>4, <3>6, MoveBacked
    <3> QED BY <3>5, <3>7
  <2> QED BY <2>2, <2>3, <2>4 DEF Lookup
<1> QED BY <1>3 DEF Lookup, phone, server, TypeOK, AppliedMeansStored, SyncedMeansStored,
                   OnlyOrphansRemembered, HasRow

LEMMA CheckStep ==
    ASSUME MobilePushAssumption, IInv, NEW q \in Slots, Check(q) PROVE IInv'
<1> DEFINE r == call[q].rec
<1> USE DEF IInv
<1>1. r \in Records /\ call[q].pc \in Waiting /\ call[q] \in CallState
  BY DEF Check, Backed, CallOK, TypeOK, Waiting
<1>2. RowsStay /\ row' = row /\ cycle' = cycle
  BY DEF Check, server, RowsStay, HasRow
<1>3. call' \in [Slots -> CallState] /\ Backed'
  <2>1. ASSUME NEW pc \in {"save", "reject"}, Goto(q, pc),
               pc = "reject" => Parent[r] # NoRecord /\ Kind[r] # "trip_checkpoint"
        PROVE  call' \in [Slots -> CallState] /\ Backed'
    <3> DEFINE k == [call[q] EXCEPT !.pc = pc]
    <3>1. k \in CallState
      BY <1>1 DEF CallState
    <3>2. k.pc = pc /\ k.rec = call[q].rec /\ k.ver = call[q].ver
      BY <1>1 DEF CallState
    <3>3. call' = [call EXCEPT ![q] = k]
      BY <2>1 DEF Goto, TypeOK
    <3>4. k.pc \in Waiting
      BY <3>2 DEF Waiting
    <3> HIDE DEF k
    <3>5. Backed'
      BY <1>1, <1>2, <2>1, <3>1, <3>2, <3>3, <3>4, MoveBacked
    <3> QED BY <2>1, <3>5, GotoTypes
  <2>2. CASE Valid(r) /\ Goto(q, "save")
    BY <2>1, <2>2
  <2>3. CASE ~Valid(r) /\ Kind[r] = "trip_checkpoint" /\ Answer(q, "rejected")
    BY <1>1, <1>2, <2>3, AnswerTypes, AnswerBacked
  <2>4. CASE ~Valid(r) /\ Kind[r] # "trip_checkpoint" /\ Goto(q, "reject")
    BY <2>1, <2>4 DEF Valid
  <2> QED BY <2>2, <2>3, <2>4 DEF Check
<1> QED BY <1>3 DEF Check, phone, server, TypeOK, AppliedMeansStored, SyncedMeansStored,
                   OnlyOrphansRemembered, HasRow

LEMMA SaveStep ==
    ASSUME MobilePushAssumption, IInv, NEW q \in Slots, Save(q) PROVE IInv'
<1> DEFINE r == call[q].rec
           conflict == HasRow(r) \/ (call[q].dev /\ log[r] # "none")
<1> USE DEF IInv
<1>1. r \in Records /\ call[q].pc \in Waiting /\ call[q].ver \in 1..2
  BY DEF Save, Backed, CallOK, Waiting
<1>2. \/ row' = row
      \/ row' = [row EXCEPT ![r] = call[q].ver]
  BY Zenon DEF Save
<1>3. \/ row' = row /\ log' = log /\ (HasRow(r) \/ log[r] # "none")
      \/ row' = [row EXCEPT ![r] = call[q].ver] /\ log' \in {log, [log EXCEPT ![r] = "applied"]}
  <2>1. CASE conflict
    BY <2>1, Zenon DEF Save
  <2>2. CASE ~conflict
    BY <2>2, Zenon DEF Save
  <2> QED BY <2>1, <2>2
<1> HIDE DEF conflict
<1>4. /\ row' \in [Records -> 0..2]
      /\ log' \in [Records -> {"none", "applied", "rejected"}]
      /\ RowsStay
  BY <1>1, <1>2, <1>3 DEF TypeOK, RowsStay, HasRow
<1>5. Parent[r] = NoRecord => row'[r] # 0
  <2>1. CASE row' = row /\ (HasRow(r) \/ log[r] # "none")
    BY <1>1, <2>1 DEF AppliedMeansStored, OnlyOrphansRemembered, HasRow, TypeOK
  <2>2. CASE row' = [row EXCEPT ![r] = call[q].ver]
    BY <1>1, <2>2 DEF HasRow, TypeOK
  <2> QED BY <1>3, <2>1, <2>2
<1>6. call' \in [Slots -> CallState] /\ Backed'
  BY <1>1, <1>4, <1>5, AnswerTypes, AnswerBacked DEF Save
<1>7. \A p \in Records : log'[p] = log[p] \/ (p = r /\ log'[p] = "applied" /\ HasRow(p)')
  BY <1>1, <1>3 DEF HasRow, TypeOK
<1> QED BY <1>4, <1>6, <1>7 DEF Save, phone, TypeOK, AppliedMeansStored,
      SyncedMeansStored, OnlyOrphansRemembered, RowsStay

LEMMA LogRejectionStep ==
    ASSUME MobilePushAssumption, IInv, NEW q \in Slots, LogRejection(q) PROVE IInv'
<1> DEFINE r == call[q].rec
<1> USE DEF IInv
<1>1. r \in Records /\ call[q].pc \in Waiting /\ Parent[r] # NoRecord
         /\ Kind[r] # "trip_checkpoint"
  BY DEF LogRejection, Backed, CallOK, Waiting
<1>2. RowsStay
  BY DEF LogRejection, RowsStay, HasRow
<1>3. log' \in [Records -> {"none", "applied", "rejected"}]
         /\ \A p \in Records : log'[p] = log[p] \/ (p = r /\ log'[p] = "rejected")
  BY <1>1 DEF LogRejection, TypeOK
<1>4. \E a \in {"rejected", "error"} : Answer(q, a)
  BY DEF LogRejection
<1>5. call' \in [Slots -> CallState] /\ Backed'
  BY <1>1, <1>2, <1>4, AnswerTypes, AnswerBacked DEF LogRejection
<1> QED BY <1>1, <1>3, <1>5 DEF LogRejection, phone, TypeOK, AppliedMeansStored,
      SyncedMeansStored, OnlyOrphansRemembered, HasRow

LEMMA ServerErrorStep ==
    ASSUME MobilePushAssumption, IInv, NEW q \in Slots, ServerError(q) PROVE IInv'
<1> USE DEF IInv
<1>1. call[q].pc \in Waiting /\ RowsStay
  BY DEF ServerError, server, RowsStay, HasRow, Waiting
<1>2. call' \in [Slots -> CallState] /\ Backed'
  BY <1>1, AnswerTypes, AnswerBacked DEF ServerError
<1>3. mishaps' \in 0..MaxMishaps
  BY DEF ServerError, TypeOK, MobilePushAssumption
<1> QED BY <1>2, <1>3 DEF ServerError, phone, server, TypeOK, AppliedMeansStored,
      SyncedMeansStored, OnlyOrphansRemembered, HasRow

-----------------------------------------------------------------------------
(* The steps of the phone.                                                 *)

\* What a cycle learns when pushItem returns is stored.
LEMMA SettleHonest ==
    ASSUME MobilePushAssumption, IInv, NEW c \in Cycles, NEW ok \in BOOLEAN,
           cycle[c].req # 0, call[cycle[c].req].pc # "free", Settle(c, ok), row' = row,
           ok => call[cycle[c].req].pc = "done" /\ call[cycle[c].req].ans = "applied"
    PROVE  /\ status' \in [Records -> {"absent", "pending", "failed", "synced"}]
           /\ cycle' \in [Cycles -> CycleState]
           /\ version' = version
           /\ SyncedMeansStored'
           /\ \A e \in Cycles : CycleOK(cycle[e])'
           /\ cycle'[c].req = 0
           /\ \A e \in Cycles : e # c => cycle'[e] = cycle[e]
<1> DEFINE r == call[cycle[c].req].rec
           new == IF ok /\ Kind[r] = "trip" THEN cycle[c].confirmed \cup {r}
                                            ELSE cycle[c].confirmed
<1> USE DEF IInv
<1>1. cycle[c] \in CycleState /\ cycle[c].req \in Slots
  BY DEF TypeOK, CycleState
<1>2. r \in Records /\ CallOK(call[cycle[c].req])
  BY <1>1 DEF Backed, CallOK
<1>3. ok /\ Parent[r] = NoRecord => HasRow(r)
  BY <1>2 DEF CallOK
<1>4. ok /\ Kind[r] = "trip" => HasRow(r)
  BY <1>2, <1>3 DEF MobilePushAssumption
<1>5. SyncedMeansStored'
  <2> SUFFICES ASSUME NEW p \in Records, Parent[p] = NoRecord, status'[p] = "synced"
               PROVE  row'[p] # 0
    BY DEF SyncedMeansStored, HasRow
  <2>1. CASE p = r
    BY <1>2, <1>3, <2>1 DEF Settle, TypeOK, HasRow
  <2>2. CASE p # r
    BY <1>2, <2>2 DEF Settle, TypeOK, HasRow, SyncedMeansStored
  <2> QED BY <2>1, <2>2
<1>6. cycle' = [cycle EXCEPT ![c] = [cycle[c] EXCEPT !.req = 0, !.confirmed = new]]
  BY DEF Settle, TypeOK
<1>7. /\ [cycle[c] EXCEPT !.req = 0, !.confirmed = new].confirmed = new
      /\ [cycle[c] EXCEPT !.req = 0, !.confirmed = new].todo = cycle[c].todo
      /\ [cycle[c] EXCEPT !.req = 0, !.confirmed = new].req = 0
  BY <1>1 DEF CycleState
<1> HIDE DEF new
<1>8. /\ cycle'[c].confirmed = new
      /\ cycle'[c].todo = cycle[c].todo
      /\ cycle'[c].req = 0
      /\ \A e \in Cycles : e # c => cycle'[e] = cycle[e]
  BY <1>6, <1>7 DEF TypeOK
<1>9. \A t \in new : HasRow(t)
  BY <1>4 DEF new, Backed, CycleOK
<1>10. \A e \in Cycles : CycleOK(cycle[e])'
  <2> SUFFICES ASSUME NEW e \in Cycles PROVE CycleOK(cycle[e])'
    OBVIOUS
  <2>1. CycleOK(cycle[e])
    BY DEF Backed
  <2>2. CASE e = c
    BY <1>8, <1>9, <2>1, <2>2 DEF CycleOK, HasRow
  <2>3. CASE e # c
    BY <1>8, <2>1, <2>3 DEF CycleOK, HasRow
  <2> QED BY <2>2, <2>3
<1> QED BY <1>2, <1>5, <1>8, <1>10, SettleTypes DEF Settle

\* The request a cycle awaited is over, or left to itself.
LEMMA Released ==
    ASSUME MobilePushAssumption, IInv, NEW c \in Cycles, cycle[c].req # 0, row' = row,
           cycle'[c].req = 0, \A e \in Cycles : e # c => cycle'[e] = cycle[e],
           call' = call \/ call' = [call EXCEPT ![cycle[c].req] = Free]
    PROVE  /\ call' \in [Slots -> CallState]
           /\ \A q \in Slots : CallOK(call[q])'
           /\ Awaited'
<1> USE DEF IInv
<1>1. cycle[c].req \in Slots
  BY DEF TypeOK, CycleState
<1>2. Free \in CallState /\ Free.pc = "free"
  BY DEF Free, CallState
<1>3. call' \in [Slots -> CallState]
      /\ \A q \in Slots : call'[q] = call[q] \/ (q = cycle[c].req /\ call'[q] = Free)
  BY <1>1, <1>2 DEF TypeOK
<1>4. \A q \in Slots : CallOK(call[q])'
  BY <1>2, <1>3 DEF Backed, CallOK, HasRow
<1>5. ASSUME NEW e \in Cycles, cycle'[e].req # 0 PROVE call'[cycle'[e].req].pc # "free"
  <2>1. e # c /\ cycle'[e] = cycle[e] /\ cycle[e].req \in Slots
    BY <1>5 DEF TypeOK, CycleState
  <2>2. cycle[e].req # cycle[c].req /\ call[cycle[e].req].pc # "free"
    BY <1>5, <2>1 DEF Backed, Awaited
  <2> QED BY <1>3, <2>1, <2>2
<1>6. \A e, d \in Cycles : e # d /\ cycle'[e].req # 0 => cycle'[e].req # cycle'[d].req
  BY DEF Backed, Awaited
<1> QED BY <1>3, <1>4, <1>5, <1>6 DEF Awaited

LEMMA ReplyStep ==
    ASSUME MobilePushAssumption, IInv, NEW c \in Cycles, Reply(c) PROVE IInv'
<1> DEFINE ok == call[cycle[c].req].ans = "applied"
<1>1. /\ cycle[c].req # 0 /\ call[cycle[c].req].pc = "done" /\ Settle(c, ok)
      /\ row' = row /\ ok \in BOOLEAN
  BY DEF Reply, server
<1>2. /\ status' \in [Records -> {"absent", "pending", "failed", "synced"}]
      /\ cycle' \in [Cycles -> CycleState]
      /\ version' = version
      /\ SyncedMeansStored'
      /\ \A e \in Cycles : CycleOK(cycle[e])'
      /\ cycle'[c].req = 0
      /\ \A e \in Cycles : e # c => cycle'[e] = cycle[e]
  BY <1>1, SettleHonest
<1>3. call' = [call EXCEPT ![cycle[c].req] = Free]
  BY DEF Reply
<1>4. call' \in [Slots -> CallState] /\ (\A q \in Slots : CallOK(call[q])') /\ Awaited'
  BY <1>1, <1>2, <1>3, Released
<1> QED BY <1>2, <1>4 DEF Reply, server, IInv, Backed, TypeOK, AppliedMeansStored,
      OnlyOrphansRemembered, HasRow

LEMMA NetworkFailureStep ==
    ASSUME MobilePushAssumption, IInv, NEW c \in Cycles, NetworkFailure(c) PROVE IInv'
<1>1. cycle[c].req # 0 /\ Settle(c, FALSE) /\ row' = row
  BY DEF NetworkFailure, server
<1>2. call[cycle[c].req].pc # "free"
  BY <1>1 DEF IInv, Backed, Awaited
<1>3. /\ status' \in [Records -> {"absent", "pending", "failed", "synced"}]
      /\ cycle' \in [Cycles -> CycleState]
      /\ version' = version
      /\ SyncedMeansStored'
      /\ \A e \in Cycles : CycleOK(cycle[e])'
      /\ cycle'[c].req = 0
      /\ \A e \in Cycles : e # c => cycle'[e] = cycle[e]
  BY <1>1, <1>2, SettleHonest
<1>4. call' = call \/ call' = [call EXCEPT ![cycle[c].req] = Free]
  BY Zenon DEF NetworkFailure
<1>5. call' \in [Slots -> CallState] /\ (\A q \in Slots : CallOK(call[q])') /\ Awaited'
  BY <1>1, <1>3, <1>4, Released
<1>6. mishaps' \in 0..MaxMishaps
  BY DEF NetworkFailure, IInv, TypeOK, MobilePushAssumption
<1> QED BY <1>3, <1>5, <1>6 DEF NetworkFailure, server, IInv, Backed, TypeOK,
      AppliedMeansStored, OnlyOrphansRemembered, HasRow

LEMMA KillStep == ASSUME MobilePushAssumption, IInv, Kill PROVE IInv'
<1> USE DEF IInv
<1>1. Idle \in CycleState /\ Free \in CallState /\ Free.pc = "free"
         /\ Idle.req = 0 /\ Idle.todo = {} /\ Idle.confirmed = {}
  BY DEF Idle, CycleState, Free, CallState
<1>2. cycle' = [c \in Cycles |-> Idle] /\ row' = row
  BY DEF Kill, server
<1>3. call' \in [Slots -> CallState]
      /\ \A q \in Slots : call'[q] = call[q] \/ call'[q] = Free
  BY <1>1 DEF Kill, TypeOK
<1>4. \A q \in Slots : CallOK(call[q])'
  BY <1>1, <1>2, <1>3 DEF Backed, CallOK, HasRow
<1>5. (\A c \in Cycles : CycleOK(cycle[c])') /\ Awaited'
  BY <1>1, <1>2 DEF CycleOK, Awaited
<1>6. mishaps' \in 0..MaxMishaps
  BY DEF Kill, TypeOK, MobilePushAssumption
<1> QED BY <1>1, <1>2, <1>3, <1>4, <1>5, <1>6 DEF Kill, phone, server, Backed, TypeOK,
      AppliedMeansStored, SyncedMeansStored, OnlyOrphansRemembered, HasRow

LEMMA RecordStep ==
    ASSUME MobilePushAssumption, IInv, NEW r \in Records, Record(r) \/ Finish(r) PROVE IInv'
<1> USE DEF IInv
<1>1. status' = [status EXCEPT ![r] = "pending"] /\ row' = row /\ log' = log
         /\ cycle' = cycle /\ call' = call /\ permitted' = permitted /\ device' = device
         /\ mishaps' = mishaps
  BY DEF Record, Finish, server
<1>2. version' \in [Records -> 1..2]
  BY DEF Record, Finish, TypeOK
<1>3. TypeOK'
  BY <1>1, <1>2 DEF TypeOK
<1>4. SyncedMeansStored'
  BY <1>1 DEF SyncedMeansStored, TypeOK, HasRow
<1>5. Backed'
  BY <1>1 DEF Backed, CallOK, CycleOK, Awaited, HasRow
<1> QED BY <1>1, <1>3, <1>4, <1>5 DEF AppliedMeansStored, OnlyOrphansRemembered, HasRow

\* The checkpoints a loop takes up belong to a trip that is stored.
LEMMA PendingStored ==
    ASSUME MobilePushAssumption, IInv, NEW c \in Cycles, NEW kind, NEW r \in Pending(c, kind),
           Kind[r] = "trip_checkpoint"
    PROVE  HasRow(Parent[r])
<1>1. Parent[r] \in Confirmed(c)
  BY DEF Pending
<1>2. CASE Parent[r] \in cycle[c].confirmed
  BY <1>2 DEF IInv, Backed, CycleOK
<1>3. CASE Parent[r] \in Records /\ Kind[Parent[r]] = "trip" /\ status[Parent[r]] = "synced"
  BY <1>3 DEF IInv, SyncedMeansStored, MobilePushAssumption
<1> QED BY <1>1, <1>2, <1>3 DEF Confirmed

LEMMA NextCollectionStep ==
    ASSUME MobilePushAssumption, IInv, NEW c \in Cycles, NextCollection(c) PROVE IInv'
<1> USE DEF IInv
<1>1. PICK k \in CycleState : cycle' = [cycle EXCEPT ![c] = k] /\ k.req = 0 /\ CycleOK(k)
  <2>1. CASE cycle' = [cycle EXCEPT ![c] = Idle]
    <3>1. Idle \in CycleState /\ Idle.req = 0 /\ Idle.todo = {} /\ Idle.confirmed = {}
      BY DEF Idle, CycleState
    <3>2. CycleOK(Idle)
      BY <3>1 DEF CycleOK
    <3> QED BY <2>1, <3>1, <3>2
  <2>2. ASSUME NEW i \in DOMAIN PushOrder,
               cycle' = [cycle EXCEPT ![c] = [at |-> i, todo |-> Pending(c, PushOrder[i]),
                                              req |-> 0, confirmed |-> {}]]
        PROVE  \E k \in CycleState : cycle' = [cycle EXCEPT ![c] = k] /\ k.req = 0
                                     /\ CycleOK(k)
    <3> DEFINE todo == Pending(c, PushOrder[i])
    <3>1. todo \subseteq Records
      BY DEF Pending
    <3>2. \A r \in todo : Kind[r] = "trip_checkpoint" => HasRow(Parent[r])
      BY PendingStored
    <3> HIDE DEF todo
    <3> DEFINE k == [at |-> i, todo |-> todo, req |-> 0, confirmed |-> {}]
    <3>3. k \in CycleState /\ k.req = 0 /\ k.todo = todo /\ k.confirmed = {}
      BY <3>1 DEF CycleState
    <3>4. cycle' = [cycle EXCEPT ![c] = k]
      BY <2>2 DEF todo
    <3> HIDE DEF k
    <3>5. CycleOK(k)
      BY <3>2, <3>3 DEF CycleOK
    <3> QED BY <3>3, <3>4, <3>5
  <2>3. \/ cycle' = [cycle EXCEPT ![c] = Idle]
        \/ \E i \in DOMAIN PushOrder :
              cycle' = [cycle EXCEPT ![c] = [at |-> i, todo |-> Pending(c, PushOrder[i]),
                                             req |-> 0, confirmed |-> {}]]
    BY Zenon DEF NextCollection, Later
  <2> QED BY <2>1, <2>2, <2>3
<1>2. row' = row /\ log' = log /\ call' = call /\ status' = status /\ version' = version
         /\ permitted' = permitted /\ device' = device /\ mishaps' = mishaps
  BY DEF NextCollection, phone, server
<1>3. \A e \in Cycles : (e = c /\ cycle'[e] = k) \/ (e # c /\ cycle'[e] = cycle[e])
  BY <1>1 DEF TypeOK
<1>4. TypeOK'
  BY <1>1, <1>2 DEF TypeOK
<1>5. ASSUME NEW e \in Cycles PROVE CycleOK(cycle[e])'
  <2>1. CycleOK(cycle[e])
    BY DEF Backed
  <2>2. CycleOK(k)
    BY <1>1
  <2>3. cycle'[e] \in {k, cycle[e]}
    BY <1>3
  <2> HIDE DEF IInv
  <2>4. CASE cycle'[e] = k
    BY <1>2, <2>2, <2>4 DEF CycleOK, HasRow
  <2>5. CASE cycle'[e] = cycle[e]
    BY <1>2, <2>1, <2>5 DEF CycleOK, HasRow
  <2> QED BY <2>3, <2>4, <2>5
<1>6. Awaited'
  <2>1. k.req = 0 /\ \A e \in Cycles : cycle[e].req # 0 => call[cycle[e].req].pc # "free"
    BY <1>1 DEF Backed, Awaited
  <2>2. \A e, d \in Cycles : e # d /\ cycle'[e].req # 0 => cycle'[e].req # cycle'[d].req
    BY <1>1, <1>3 DEF Backed, Awaited
  <2>3. \A e \in Cycles : cycle'[e].req # 0 => call'[cycle'[e].req].pc # "free"
    BY <1>2, <1>3, <2>1
  <2> QED BY <2>2, <2>3 DEF Awaited
<1> QED BY <1>2, <1>4, <1>5, <1>6 DEF AppliedMeansStored, SyncedMeansStored,
      OnlyOrphansRemembered, HasRow, Backed, CallOK

LEMMA SendStep ==
    ASSUME MobilePushAssumption, IInv, NEW c \in Cycles, Send(c) PROVE IInv'
<1> USE DEF IInv
<1>1. PICK r \in cycle[c].todo, q \in Slots :
         /\ call[q].pc = "free"
         /\ call' = [call EXCEPT ![q] = [pc |-> "lookup", rec |-> r, ver |-> version[r],
                                         dev |-> FALSE, ans |-> "none"]]
         /\ cycle' = [cycle EXCEPT ![c].req = q, ![c].todo = @ \ {r}]
  BY Zenon DEF Send
<1> DEFINE k == [pc |-> "lookup", rec |-> r, ver |-> version[r], dev |-> FALSE, ans |-> "none"]
           s == [cycle[c] EXCEPT !.req = q, !.todo = cycle[c].todo \ {r}]
<1>2. cycle[c] \in CycleState /\ CycleOK(cycle[c]) /\ r \in Records /\ q # 0
  BY <1>1 DEF TypeOK, CycleState, Backed, MobilePushAssumption
<1>3. version[r] \in 1..2
  BY <1>2 DEF TypeOK
<1>4. k \in CallState /\ k.pc = "lookup" /\ k.rec = r /\ k.ver \in 1..2
  BY <1>2, <1>3 DEF CallState
<1>5. s \in CycleState /\ s.req = q /\ s.todo = cycle[c].todo \ {r}
         /\ s.confirmed = cycle[c].confirmed
  BY <1>1, <1>2 DEF CycleState
<1>6. call' = [call EXCEPT ![q] = k] /\ cycle' = [cycle EXCEPT ![c] = s]
  BY <1>1 DEF TypeOK
<1> HIDE DEF k, s
<1>7. row' = row /\ log' = log /\ status' = status /\ version' = version
         /\ permitted' = permitted /\ device' = device /\ mishaps' = mishaps
  BY DEF Send, phone, server
<1>8. TypeOK'
  BY <1>4, <1>5, <1>6, <1>7 DEF TypeOK
<1>9. \A p \in Slots : (p = q /\ call'[p] = k) \/ (p # q /\ call'[p] = call[p])
  BY <1>6 DEF TypeOK
<1>10. \A e \in Cycles : (e = c /\ cycle'[e] = s) \/ (e # c /\ cycle'[e] = cycle[e])
  BY <1>6 DEF TypeOK
<1>11. Kind[r] = "trip_checkpoint" => HasRow(Parent[r])
  BY <1>2 DEF CycleOK
<1>12. \A p \in Slots : CallOK(call[p])'
  BY <1>2, <1>4, <1>7, <1>9, <1>11 DEF Backed, CallOK, HasRow, Waiting
<1>13. \A e \in Cycles : CycleOK(cycle[e])'
  BY <1>2, <1>5, <1>7, <1>10 DEF Backed, CycleOK, HasRow
<1>14. \A e \in Cycles : e # c /\ cycle[e].req # 0 => cycle[e].req \in Slots /\ cycle[e].req # q
                            /\ call[cycle[e].req].pc # "free"
  BY <1>1 DEF Backed, Awaited, TypeOK, CycleState
<1>15. \A e \in Cycles : cycle'[e].req # 0 => call'[cycle'[e].req].pc # "free"
  BY <1>4, <1>5, <1>9, <1>10, <1>14
<1>16. \A e, d \in Cycles : e # d /\ cycle'[e].req # 0 => cycle'[e].req # cycle'[d].req
  BY <1>2, <1>5, <1>10, <1>14 DEF Backed, Awaited
<1> QED BY <1>7, <1>8, <1>12, <1>13, <1>15, <1>16 DEF AppliedMeansStored, SyncedMeansStored,
      OnlyOrphansRemembered, HasRow, Backed, Awaited

LEMMA AdminStep ==
    ASSUME MobilePushAssumption, IInv, SetPermission \/ SetDevice PROVE IInv'
<1>1. TypeOK'
  <2>1. CASE SetPermission
    BY <2>1 DEF SetPermission, phone, server, IInv, TypeOK, MobilePushAssumption
  <2>2. CASE SetDevice
    BY <2>2 DEF SetDevice, phone, server, IInv, TypeOK, MobilePushAssumption
  <2> QED BY <2>1, <2>2
<1>2. row' = row /\ log' = log /\ status' = status /\ cycle' = cycle /\ call' = call
  BY DEF SetPermission, SetDevice, phone, server
<1> QED BY <1>1, <1>2 DEF IInv, AppliedMeansStored, SyncedMeansStored,
      OnlyOrphansRemembered, HasRow, Backed, CallOK, CycleOK, Awaited

-----------------------------------------------------------------------------
(* The theorems.                                                           *)

LEMMA InitHolds == MobilePushAssumption => (Init => IInv)
<1> SUFFICES ASSUME MobilePushAssumption, Init PROVE IInv
  OBVIOUS
<1>1. TypeOK
  BY InitTypes
<1>2. Idle.req = 0 /\ Idle.todo = {} /\ Idle.confirmed = {} /\ Free.pc = "free"
  BY DEF Idle, Free
<1> QED BY <1>1, <1>2 DEF Init, IInv, AppliedMeansStored, SyncedMeansStored,
      OnlyOrphansRemembered, Backed, CallOK, CycleOK, Awaited

LEMMA StepKeeps == MobilePushAssumption => (IInv /\ [Next]_vars => IInv')
<1> SUFFICES ASSUME MobilePushAssumption, IInv, [Next]_vars PROVE IInv'
  OBVIOUS
<1>1. CASE UNCHANGED vars
  BY <1>1 DEF vars, IInv, TypeOK, AppliedMeansStored, SyncedMeansStored,
      OnlyOrphansRemembered, HasRow, Backed, CallOK, CycleOK, Awaited
<1>2. ASSUME NEW r \in Records, Record(r) \/ Finish(r) PROVE IInv'
  BY <1>2, RecordStep
<1>3. ASSUME NEW c \in Cycles, StartSync(c) \/ Advance(c) PROVE IInv'
  BY <1>3, NextCollectionStep DEF StartSync, Advance
<1>4. ASSUME NEW c \in Cycles, Send(c) PROVE IInv'
  BY <1>4, SendStep
<1>5. ASSUME NEW c \in Cycles, Reply(c) PROVE IInv'
  BY <1>5, ReplyStep
<1>6. ASSUME NEW c \in Cycles, NetworkFailure(c) PROVE IInv'
  BY <1>6, NetworkFailureStep
<1>7. CASE Kill
  BY <1>7, KillStep
<1>8. ASSUME NEW q \in Slots, Lookup(q) \/ Check(q) PROVE IInv'
  BY <1>8, LookupStep, CheckStep
<1>9. ASSUME NEW q \in Slots, Save(q) \/ LogRejection(q) PROVE IInv'
  BY <1>9, SaveStep, LogRejectionStep
<1>10. ASSUME NEW q \in Slots, ServerError(q) PROVE IInv'
  BY <1>10, ServerErrorStep
<1>11. CASE SetPermission \/ SetDevice
  BY <1>11, AdminStep
<1> QED BY <1>1, <1>2, <1>3, <1>4, <1>5, <1>6, <1>7, <1>8, <1>9, <1>10, <1>11 DEF Next

\* The inductive invariant holds in every reachable state of push() and PushView.
THEOREM Invariant == Spec => []IInv
<1> USE MobilePushAssumption
<1>1. Init => IInv
  BY InitHolds
<1>2. IInv /\ [Next]_vars => IInv'
  BY StepKeeps
<1> QED BY <1>1, <1>2, PTL DEF Spec

\* Every variable of push() and PushView stays within its type.
THEOREM TypeCorrect == Spec => []TypeOK
<1>1. IInv => TypeOK
  BY DEF IInv
<1> QED BY <1>1, Invariant, PTL

\* PushView's log vouches for no record whose row is missing, however the requests
\* of any number of cycles interleave and fail.
THEOREM LogHonest == Spec => []AppliedMeansStored
<1>1. IInv => AppliedMeansStored
  BY DEF IInv
<1> QED BY <1>1, Invariant, PTL

\* push() marks a record that refers to no other as synced only once PushView
\* stored it.
THEOREM SyncedHonest == Spec => []SyncedMeansStored
<1>1. IInv => SyncedMeansStored
  BY DEF IInv
<1> QED BY <1>1, Invariant, PTL

\* push() sends no checkpoint whose trip is not on the server.
THEOREM CheckpointsWait == Spec => []NoCheckpointBeforeTrip
<1>1. IInv => NoCheckpointBeforeTrip
  BY DEF IInv, Backed, CallOK, NoCheckpointBeforeTrip, Waiting
<1> QED BY <1>1, Invariant, PTL

\* PushView remembers as rejected only records whose parent may be missing.
THEOREM OrphansOnly == Spec => []OnlyOrphansRemembered
<1>1. IInv => OnlyOrphansRemembered
  BY DEF IInv
<1> QED BY <1>1, Invariant, PTL
=============================================================================
