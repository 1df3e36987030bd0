----------------------------- MODULE PullCursor -----------------------------
(***************************************************************************)
(* PullView of backend/apps/mobile_sync/views.py against writers of master *)
(* data, and pull() of mobile/src/sync/synchronize.ts: the phone asks for  *)
(* the rows changed since the timestamp of its last answer.  updated_at is *)
(* taken when a row is saved, before its transaction commits, and not at   *)
(* all by save(update_fields) or by a change of a child row; the server's  *)
(* timestamp is taken before the tables are read, one after another.       *)
(***************************************************************************)
EXTENDS Integers

CONSTANTS SyncRows,                       \* rows of different tables
          Pulls,                          \* pulls that may overlap
          MaxWrites, MaxPulls, MaxPhoneFaults  \* bounds

ASSUME PullAssumption == MaxWrites \in Nat

VARIABLES
    appClock,  \* timezone.now() of the app server; every reading differs
    rows,      \* committed: [value, stamp (updated_at), shared (in the agent's querysets)]
    writing,   \* writing[r]: the uncommitted write of r, or NoWrite
    pull,      \* pull[k]: [since, timestamp, todo, answer], or NoPull
    cursor,    \* lastPulledAt, 0 for null
    phone,     \* phone[r]: the value stored, 0 for none
    behind,    \* rows committed behind a timestamp already handed out
    writes, pulled, phoneFaults

pullVars == <<appClock, rows, writing, pull, cursor, phone, behind, writes, pulled, phoneFaults>>

NoWrite == [value |-> 0, stamp |-> 0, shared |-> FALSE]
NoPull  == [since |-> -1, timestamp |-> -1, todo |-> {}, answer |-> {}]

PullInit ==
    /\ appClock = 1
    /\ rows = [r \in SyncRows |-> [value |-> 1, stamp |-> 1, shared |-> TRUE]]
    /\ writing = [r \in SyncRows |-> NoWrite]
    /\ pull = [k \in Pulls |-> NoPull]
    /\ cursor = 0
    /\ phone = [r \in SyncRows |-> 0]
    /\ behind = {}
    /\ writes = 0 /\ pulled = 0 /\ phoneFaults = 0

Stamped(k) == pull[k].timestamp # -1

\* A timestamp at or after s is with the phone, or with a pull that asked from
\* there or that has read r.
Announced(r, s) ==
    \/ cursor >= s \/ \E k \in Pulls : pull[k].since >= s
    \/ \E k \in Pulls : Stamped(k) /\ pull[k].timestamp >= s /\ r \notin pull[k].todo

(* Writers.  A row lock: one uncommitted write of a row at a time. *)
Write(r, w) ==
    /\ writes < MaxWrites /\ writing[r] = NoWrite
    /\ writing' = [writing EXCEPT ![r] = w]
    /\ writes' = writes + 1
    /\ UNCHANGED <<rows, pull, cursor, phone, behind, pulled, phoneFaults>>

\* save(): auto_now takes the time here.
Save(r) ==
    /\ Write(r, [value |-> rows[r].value + 1, stamp |-> appClock + 1, shared |-> TRUE])
    /\ appClock' = appClock + 1

\* save(update_fields=["outstanding_balance"]), a price entry of a list.
SaveUnstamped(r) == Write(r, [rows[r] EXCEPT !.value = @ + 1]) /\ UNCHANGED appClock

\* The customer is put on one of the agent's beats, or taken off.
Reassign(r) == Write(r, [rows[r] EXCEPT !.shared = ~@]) /\ UNCHANGED appClock

CommitWrite(r) ==
    /\ writing[r] # NoWrite
    /\ rows' = [rows EXCEPT ![r] = writing[r]]
    /\ writing' = [writing EXCEPT ![r] = NoWrite]
    /\ behind' = IF Announced(r, writing[r].stamp) THEN behind \cup {r} ELSE behind \ {r}
    /\ UNCHANGED <<appClock, pull, cursor, phone, writes, pulled, phoneFaults>>

(* PullView.get. *)
StartPull(k) ==
    /\ pulled < MaxPulls /\ pull[k] = NoPull
    /\ pull' = [pull EXCEPT ![k] = [NoPull EXCEPT !.since = cursor, !.todo = SyncRows]]
    /\ pulled' = pulled + 1
    /\ UNCHANGED <<appClock, rows, writing, cursor, phone, behind, writes, phoneFaults>>

TakeTimestamp(k) ==
    /\ pull[k].since # -1 /\ ~Stamped(k)
    /\ appClock' = appClock + 1
    /\ pull' = [pull EXCEPT ![k].timestamp = appClock + 1]
    /\ UNCHANGED <<rows, writing, cursor, phone, behind, writes, pulled, phoneFaults>>

Selected(r, since) == rows[r].shared /\ rows[r].stamp > since

\* A queryset runs when the serializer iterates over it.
ReadTable(k, r) ==
    /\ Stamped(k) /\ r \in pull[k].todo
    /\ pull' = [pull EXCEPT ![k].todo = @ \ {r},
                            ![k].answer = IF Selected(r, pull[k].since)
                                          THEN @ \cup {<<r, rows[r].value>>} ELSE @]
    /\ UNCHANGED <<appClock, rows, writing, cursor, phone, behind, writes, pulled, phoneFaults>>

(* pull() on the phone. *)
Upserted(answer) ==
    [r \in SyncRows |-> IF \E v \in 1..MaxWrites + 1 : <<r, v>> \in answer
                    THEN CHOOSE v \in 1..MaxWrites + 1 : <<r, v>> \in answer
                    ELSE phone[r]]

\* Another pull has asked for less than this answer lets the cursor fall back to.
Overtaken(k, r) ==
    \E j \in Pulls \ {k} : pull[k].timestamp < rows[r].stamp /\ rows[r].stamp <= pull[j].since

\* Mutant of Apply: the cursor never goes back.
Apply_Monotone(k) ==
    /\ Stamped(k) /\ pull[k].todo = {}
    /\ phone' = Upserted(pull[k].answer)
    /\ cursor' = IF cursor > pull[k].timestamp THEN cursor ELSE pull[k].timestamp
    /\ behind' = behind \cup {r \in SyncRows : Overtaken(k, r)}
    /\ pull' = [pull EXCEPT ![k] = NoPull]
    /\ UNCHANGED <<appClock, rows, writing, writes, pulled, phoneFaults>>

Apply(k) ==
    /\ Stamped(k) /\ pull[k].todo = {}
    /\ phone' = Upserted(pull[k].answer)
    /\ cursor' = pull[k].timestamp
    /\ behind' = behind \cup {r \in SyncRows : Overtaken(k, r)}
    /\ pull' = [pull EXCEPT ![k] = NoPull]
    /\ UNCHANGED <<appClock, rows, writing, writes, pulled, phoneFaults>>

PhoneFault == phoneFaults < MaxPhoneFaults /\ phoneFaults' = phoneFaults + 1

LoseAnswer(k) ==
    /\ PhoneFault /\ pull[k] # NoPull
    /\ pull' = [pull EXCEPT ![k] = NoPull]
    /\ UNCHANGED <<appClock, rows, writing, cursor, phone, behind, writes, pulled>>

\* lastPulledAt lives in memory only.
RestartApp ==
    /\ PhoneFault
    /\ pull' = [k \in Pulls |-> NoPull]
    /\ cursor' = 0
    /\ UNCHANGED <<appClock, rows, writing, phone, behind, writes, pulled>>

PullNext ==
    \/ \E r \in SyncRows : Save(r) \/ SaveUnstamped(r) \/ Reassign(r) \/ CommitWrite(r)
    \/ \E k \in Pulls :
          \/ StartPull(k) \/ TakeTimestamp(k) \/ Apply(k) \/ LoseAnswer(k)
          \/ \E r \in SyncRows : ReadTable(k, r)
    \/ RestartApp

PullSpec == PullInit /\ [][PullNext]_pullVars
-----------------------------------------------------------------------------
PullTypeOK ==
    /\ appClock \in 1..(1 + MaxWrites + MaxPulls)
    /\ cursor \in 0..appClock
    /\ behind \subseteq SyncRows
    /\ \A r \in SyncRows : phone[r] \in 0..(MaxWrites + 1) /\ rows[r].stamp \in 1..appClock
    /\ \A k \in Pulls : pull[k].since <= appClock /\ pull[k].todo \subseteq SyncRows

\* A row of the agent whose copy on the phone is old will be in the next
\* answer, unless its change was committed behind a timestamp handed out
\* before (or an answer of an older pull took it back after a newer pull had
\* asked): overlapping pulls, lost answers and restarts lose nothing else.
NothingElseMissed ==
    \A r \in SyncRows :
        rows[r].shared /\ phone[r] # rows[r].value /\ r \notin behind => rows[r].stamp > cursor

=============================================================================
