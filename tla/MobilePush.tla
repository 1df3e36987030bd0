------------------------------ MODULE MobilePush ------------------------------
(***************************************************************************)
(* Pushing what a field agent recorded offline: push() and pushItem() of   *)
(* mobile/src/sync/synchronize.ts with PushView of                         *)
(* backend/apps/mobile_sync/views.py, one agent and one phone.             *)
(*                                                                         *)
(* synchronize() is called from every screen, from the GPS timer and from  *)
(* the Sync button, with no mutual exclusion: several cycles of the phone  *)
(* interleave at every await.  A request may be lost before or after the   *)
(* server served it, and the phone may be killed; its SQLite rows survive. *)
(*                                                                         *)
(* A record's data is its version: 1 as created, 2 once the trip was ended *)
(* (or the visit checked out).  A payload is valid when the row it refers  *)
(* to exists on the server.                                                *)
(***************************************************************************)
EXTENDS Integers, Sequences, FiniteSets

CONSTANTS Records,    \* what the agent records
          Kind,       \* Kind[r]: its entity type
          Parent,     \* Parent[r]: the record its payload refers to, or NoRecord
          NoRecord,
          Cycles,     \* calls of synchronize() that may run at a time
          Slots,      \* requests the server may be serving at a time
          MaxMishaps  \* bound: network failures, server errors, kills of the
                      \* application, changes of the permission and the device

\* The order in which push() goes through the collections.
PushOrder == <<"invoice", "trip", "trip_checkpoint", "expense", "receipt", "sales_order",
               "credit_note", "location_ping", "attendance">>

Editable == {"trip", "trip_checkpoint"}

ASSUME MobilePushAssumption ==
    /\ NoRecord \notin Records
    /\ Kind \in [Records -> {PushOrder[i] : i \in DOMAIN PushOrder}]
    /\ Parent \in [Records -> Records \cup {NoRecord}]
    /\ \A r \in Records :
          /\ Kind[r] = "trip" => Parent[r] = NoRecord
          /\ Kind[r] = "trip_checkpoint" => Parent[r] # NoRecord /\ Kind[Parent[r]] = "trip"
    /\ 0 \notin Slots
    /\ MaxMishaps \in Nat

VARIABLES
    status,    \* status[r]: the phone's sync_status, "absent" before it is recorded
    version,   \* version[r]: the phone's row
    cycle,     \* cycle[c]: where a call of push() is
    call,      \* call[q]: a request to /api/sync/push/ and its PushView.post
    row,       \* row[r]: the version in the server's table, 0 when there is no row
    log,       \* log[r]: the PushRequestLog row with that idempotency_key
    permitted, \* whether the agent's roles hold the permission
    device,    \* whether the agent has an active Device row
    mishaps    \* mishaps so far

phone  == <<status, version>>
server == <<row, log>>
vars   == <<status, version, cycle, call, row, log, permitted, device, mishaps>>

\* The collections after the i-th that have records.
Later(i) == {j \in DOMAIN PushOrder : j > i /\ \E r \in Records : Kind[r] = PushOrder[j]}

CycleState == [at : DOMAIN PushOrder \cup {0}, todo : SUBSET Records, req : Slots \cup {0},
               confirmed : SUBSET Records]

CallState == [pc : {"free", "lookup", "check", "save", "reject", "done"},
              rec : Records \cup {NoRecord}, ver : 0..2, dev : BOOLEAN,
              ans : {"none", "applied", "rejected", "error"}]

Idle == [at |-> 0, todo |-> {}, req |-> 0, confirmed |-> {}]
Free == [pc |-> "free", rec |-> NoRecord, ver |-> 0, dev |-> FALSE, ans |-> "none"]

HasRow(r) == row[r] # 0

\* is_valid: the foreign key of the payload finds its row.
Valid(r) == Parent[r] \in {NoRecord} \cup {p \in Records : HasRow(p)}

\* What a screen offers to refer to: the trip under way, or anything recorded.
Offered == {p \in Records : status[p] # "absent" /\ (Kind[p] = "trip" => version[p] = 1)}

Init ==
    /\ status = [r \in Records |-> "absent"]
    /\ version = [r \in Records |-> 1]
    /\ cycle = [c \in Cycles |-> Idle]
    /\ call = [q \in Slots |-> Free]
    /\ row = [r \in Records |-> 0]
    /\ log = [r \in Records |-> "none"]
    /\ permitted = TRUE
    /\ device \in BOOLEAN
    /\ mishaps = 0

-----------------------------------------------------------------------------
(* The phone.                                                              *)

\* A screen saves a record; one that belongs to a trip, during that trip.
Record(r) ==
    /\ status[r] = "absent"
    /\ Parent[r] \in {NoRecord} \cup Offered
    /\ status' = [status EXCEPT ![r] = "pending"]
    /\ UNCHANGED <<version, cycle, call, server, permitted, device, mishaps>>

\* MUTANT: End Trip may be tapped again.
Finish_Repeated(r) ==
    /\ Kind[r] \in Editable
    /\ status[r] # "absent"
    /\ version[r] < 3
    /\ version' = [version EXCEPT ![r] = @ + 1]
    /\ status' = [status EXCEPT ![r] = "pending"]
    /\ UNCHANGED <<cycle, call, server, permitted, device, mishaps>>

\* endTrip and the check-out of toggleCheckpoint update the row and queue it again.
Finish(r) ==
    /\ Kind[r] \in Editable
    /\ status[r] # "absent"
    /\ version[r] = 1
    /\ version' = [version EXCEPT ![r] = 2]
    /\ status' = [status EXCEPT ![r] = "pending"]
    /\ UNCHANGED <<cycle, call, server, permitted, device, mishaps>>

\* The trips a cycle holds for confirmed: synced by itself or by an earlier one.
Confirmed(c) ==
    cycle[c].confirmed \cup {t \in Records : Kind[t] = "trip" /\ status[t] = "synced"}

\* MUTANT: failed rows are not offered again.
Pending_NotFailed(c, kind) ==
    {r \in Records : /\ Kind[r] = kind
                     /\ status[r] = "pending"
                     /\ kind = "trip_checkpoint" => Parent[r] \in Confirmed(c)}

\* The rows the loop over a collection will send: no checkpoint whose trip is not
\* confirmed.
Pending(c, kind) ==
    {r \in Records : /\ Kind[r] = kind
                     /\ status[r] \in {"pending", "failed"}
                     /\ kind = "trip_checkpoint" => Parent[r] \in Confirmed(c)}

\* The query at the head of a loop; after the last one the cycle is over.  What was
\* confirmed matters only to the loop that follows that of the trips.
NextCollection(c) ==
    LET later == Later(cycle[c].at) IN
    /\ cycle[c].todo = {} /\ cycle[c].req = 0
    /\ \/ later = {} /\ cycle' = [cycle EXCEPT ![c] = Idle]
       \/ \E i \in later :
             /\ \A j \in later : i <= j
             /\ cycle' = [cycle EXCEPT ![c] =
                    [at |-> i, todo |-> Pending(c, PushOrder[i]), req |-> 0, confirmed |-> {}]]
    /\ UNCHANGED <<phone, call, server, permitted, device, mishaps>>

\* synchronize() is called while the phone is online.
StartSync(c) == cycle[c].at = 0 /\ NextCollection(c)

Advance(c) == cycle[c].at # 0 /\ NextCollection(c)

\* pushItem posts the payload as it is now.
Send(c) ==
    /\ cycle[c].req = 0
    /\ \E r \in cycle[c].todo, q \in Slots :
          /\ call[q].pc = "free"
          /\ \A p \in Slots : p < q => call[p].pc # "free"
          /\ call' = [call EXCEPT ![q] = [pc |-> "lookup", rec |-> r, ver |-> version[r],
                                          dev |-> FALSE, ans |-> "none"]]
          /\ cycle' = [cycle EXCEPT ![c].req = q, ![c].todo = @ \ {r}]
    /\ UNCHANGED <<phone, server, permitted, device, mishaps>>

\* MUTANT: a trip counts as confirmed once it was offered.
Settle_ConfirmAll(c, ok) ==
    LET r == call[cycle[c].req].rec IN
    /\ status' = [status EXCEPT ![r] = IF ok THEN "synced" ELSE "failed"]
    /\ cycle' = [cycle EXCEPT ![c].req = 0,
                              ![c].confirmed = IF Kind[r] = "trip" THEN @ \cup {r} ELSE @]
    /\ UNCHANGED version

\* pushItem returned: the row is synced or failed, whatever became of it meanwhile.
Settle(c, ok) ==
    LET r == call[cycle[c].req].rec IN
    /\ status' = [status EXCEPT ![r] = IF ok THEN "synced" ELSE "failed"]
    /\ cycle' = [cycle EXCEPT ![c].req = 0,
                              ![c].confirmed = IF ok /\ Kind[r] = "trip" THEN @ \cup {r} ELSE @]
    /\ UNCHANGED version

\* MUTANT: response.ok is taken for the item's own status.
Reply_HttpOk(c) ==
    /\ cycle[c].req # 0
    /\ call[cycle[c].req].pc = "done"
    /\ Settle(c, call[cycle[c].req].ans # "error")
    /\ call' = [call EXCEPT ![cycle[c].req] = Free]
    /\ UNCHANGED <<server, permitted, device, mishaps>>

Reply(c) ==
    /\ cycle[c].req # 0
    /\ call[cycle[c].req].pc = "done"
    /\ Settle(c, call[cycle[c].req].ans = "applied")
    /\ call' = [call EXCEPT ![cycle[c].req] = Free]
    /\ UNCHANGED <<server, permitted, device, mishaps>>

\* fetch throws: the request was not received, or its answer will not be.
NetworkFailure(c) ==
    LET q == cycle[c].req IN
    /\ q # 0 /\ mishaps < MaxMishaps
    /\ Settle(c, FALSE)
    /\ \/ call[q].pc \in {"lookup", "done"} /\ call' = [call EXCEPT ![q] = Free]
       \/ call[q].pc # "done" /\ UNCHANGED call
    /\ mishaps' = mishaps + 1
    /\ UNCHANGED <<server, permitted, device>>

\* The application is killed: its cycles are gone, its rows and requests are not.
Kill ==
    /\ mishaps < MaxMishaps
    /\ \E c \in Cycles : cycle[c].at # 0
    /\ cycle' = [c \in Cycles |-> Idle]
    /\ call' = [q \in Slots |-> IF call[q].pc = "done" THEN Free ELSE call[q]]
    /\ mishaps' = mishaps + 1
    /\ UNCHANGED <<phone, server, permitted, device>>

-----------------------------------------------------------------------------
(* The server.  Every request carries one item.                            *)

\* The answer is kept while a cycle awaits it.
Answer(q, a) ==
    call' = [call EXCEPT ![q] =
        IF \E c \in Cycles : cycle[c].req = q
        THEN [pc |-> "done", rec |-> call[q].rec, ver |-> 0, dev |-> FALSE, ans |-> a]
        ELSE Free]

Goto(q, pc) == call' = [call EXCEPT ![q].pc = pc]

\* MUTANT: a denied item is remembered like an invalid one.
Lookup_Remembering(q) ==
    LET r == call[q].rec IN
    /\ call[q].pc = "lookup"
    /\ log' = IF log[r] = "none" /\ ~permitted THEN [log EXCEPT ![r] = "rejected"] ELSE log
    /\ \/ log[r] # "none" /\ Answer(q, log[r])
       \/ log[r] = "none" /\ ~permitted /\ Answer(q, "rejected")
       \/ /\ log[r] = "none" /\ permitted
          /\ call' = [call EXCEPT ![q].pc = "check", ![q].dev = device]
    /\ UNCHANGED <<phone, cycle, row, permitted, device, mishaps>>

\* The device and the permissions are read, then the log, without a lock.
Lookup(q) ==
    LET r == call[q].rec IN
    /\ call[q].pc = "lookup"
    /\ \/ log[r] # "none" /\ Answer(q, log[r])
       \/ log[r] = "none" /\ ~permitted /\ Answer(q, "rejected")
       \/ /\ log[r] = "none" /\ permitted
          /\ call' = [call EXCEPT ![q].pc = "check", ![q].dev = device]
    /\ UNCHANGED <<phone, cycle, server, permitted, device, mishaps>>

\* A checkpoint's trip must be the agent's: refused without a trace in the log.
\* Any other payload is validated by its serializer.
Check(q) ==
    LET r == call[q].rec IN
    /\ call[q].pc = "check"
    /\ IF Valid(r) THEN Goto(q, "save")
       ELSE IF Kind[r] = "trip_checkpoint" THEN Answer(q, "rejected") ELSE Goto(q, "reject")
    /\ UNCHANGED <<phone, cycle, server, permitted, device, mishaps>>

\* Row and log entry in one transaction; a key that exists in either table is an
\* IntegrityError, which is answered "applied".
Save(q) ==
    LET r == call[q].rec
        conflict == HasRow(r) \/ (call[q].dev /\ log[r] # "none")
    IN
    /\ call[q].pc = "save"
    /\ row' = IF conflict THEN row ELSE [row EXCEPT ![r] = call[q].ver]
    /\ log' = IF conflict \/ ~call[q].dev THEN log ELSE [log EXCEPT ![r] = "applied"]
    /\ Answer(q, "applied")
    /\ UNCHANGED <<phone, cycle, permitted, device, mishaps>>

\* An invalid payload is remembered as rejected; the IntegrityError of a key that
\* is already there is not caught here.
LogRejection(q) ==
    LET r == call[q].rec IN
    /\ call[q].pc = "reject"
    /\ \/ ~call[q].dev /\ Answer(q, "rejected") /\ UNCHANGED log
       \/ /\ call[q].dev /\ log[r] = "none"
          /\ log' = [log EXCEPT ![r] = "rejected"]
          /\ Answer(q, "rejected")
       \/ call[q].dev /\ log[r] # "none" /\ Answer(q, "error") /\ UNCHANGED log
    /\ UNCHANGED <<phone, cycle, row, permitted, device, mishaps>>

\* MUTANT: the log entry is written first and commits by itself.
ServerError_LogFirst(q) ==
    LET r == call[q].rec IN
    /\ call[q].pc \in {"lookup", "check", "save", "reject"}
    /\ mishaps < MaxMishaps
    /\ log' = IF call[q].pc = "save" /\ call[q].dev THEN [log EXCEPT ![r] = "applied"] ELSE log
    /\ Answer(q, "error")
    /\ mishaps' = mishaps + 1
    /\ UNCHANGED <<phone, cycle, row, permitted, device>>

\* The process dies or the database fails before the commit.
ServerError(q) ==
    /\ call[q].pc \in {"lookup", "check", "save", "reject"}
    /\ mishaps < MaxMishaps
    /\ Answer(q, "error")
    /\ mishaps' = mishaps + 1
    /\ UNCHANGED <<phone, cycle, server, permitted, device>>

\* An administrator changes the agent's role.
SetPermission ==
    /\ mishaps < MaxMishaps
    /\ permitted' = ~permitted
    /\ mishaps' = mishaps + 1
    /\ UNCHANGED <<phone, cycle, call, server, device>>

\* A Device row is created, or revoked (also by deactivating the user).
SetDevice ==
    /\ mishaps < MaxMishaps
    /\ device' = ~device
    /\ mishaps' = mishaps + 1
    /\ UNCHANGED <<phone, cycle, call, server, permitted>>

-----------------------------------------------------------------------------
Serve(q) == Lookup(q) \/ Check(q) \/ Save(q) \/ LogRejection(q)

Continue(c) == Advance(c) \/ Send(c) \/ Reply(c)

Next ==
    \/ \E r \in Records : Record(r) \/ Finish(r)
    \/ \E c \in Cycles : StartSync(c) \/ Advance(c) \/ Send(c) \/ Reply(c) \/ NetworkFailure(c)
    \/ Kill
    \/ \E q \in Slots : Lookup(q) \/ Check(q) \/ Save(q) \/ LogRejection(q) \/ ServerError(q)
    \/ SetPermission
    \/ SetDevice

Spec == Init /\ [][Next]_vars

\* A running cycle goes on, a received request is served, and synchronize() is
\* called again and again: by the GPS timer, by the screens and by the agent.
FairSpec ==
    /\ Spec
    /\ \A c \in Cycles : WF_vars(StartSync(c)) /\ WF_vars(Continue(c))
    /\ \A q \in Slots : WF_vars(Serve(q))

-----------------------------------------------------------------------------
(* Properties.                                                             *)

\* Every variable stays within its type.
TypeOK ==
    /\ status \in [Records -> {"absent", "pending", "failed", "synced"}]
    /\ version \in [Records -> 1..2]
    /\ cycle \in [Cycles -> CycleState]
    /\ call \in [Slots -> CallState]
    /\ row \in [Records -> 0..2]
    /\ log \in [Records -> {"none", "applied", "rejected"}]
    /\ permitted \in BOOLEAN /\ device \in BOOLEAN
    /\ mishaps \in 0..MaxMishaps

\* The idempotency log never vouches for a row that is not there: save() and the
\* log entry of PushView.post commit together or not at all.
AppliedMeansStored == \A r \in Records : log[r] = "applied" => HasRow(r)

\* The phone stops offering a record that refers to no other only once the server
\* has it, whatever requests were lost, repeated or served at the same time.
SyncedMeansStored ==
    \A r \in Records : Parent[r] = NoRecord /\ status[r] = "synced" => HasRow(r)

\* No checkpoint travels before its trip is stored: push() waits until the trip is
\* confirmed, although confirmations of another cycle or an earlier push count too.
NoCheckpointBeforeTrip ==
    \A q \in Slots :
        LET r == call[q].rec IN
        call[q].pc \in {"lookup", "check", "save", "reject"} /\ Kind[r] = "trip_checkpoint"
            => HasRow(Parent[r])

\* A rejection the server remembers can only be that of a payload whose parent was
\* missing: a revoked permission or a failed request is not held against a record.
OnlyOrphansRemembered ==
    \A r \in Records : log[r] = "rejected" =>
        Parent[r] # NoRecord /\ Kind[r] # "trip_checkpoint"

Delivered(r) == status[r] # "absent" ~> (status[r] = "synced" /\ HasRow(r))

\* Once the agent is permitted for good, records without a parent and checkpoints
\* reach the server and the phone learns it, after any loss, death or repetition.
RootsDelivered ==
    <>[]permitted => \A r \in Records :
        Parent[r] = NoRecord \/ Kind[r] = "trip_checkpoint" => Delivered(r)

\* CLAIM of synchronize.ts: push() is safe to call repeatedly, including after a
\* partial failure, so that every record gets there in the end.
EveryRecordDelivered == <>[]permitted => \A r \in Records : Delivered(r)

\* CLAIM of TripSerializer: the ended trip reaches the server through push; what
\* the phone shows as synced is what the server holds.
SyncedIsCurrent == \A r \in Records : status[r] = "synced" => row[r] = version[r]
=============================================================================
