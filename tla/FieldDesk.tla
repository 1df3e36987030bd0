----------------------------- MODULE FieldDesk -----------------------------
(***************************************************************************)
(* Expenses and attendance (backend/apps/expenses, backend/apps/attendance) *)
(* and the push notices of apps/notifications.  Agents file expenses and   *)
(* check in, from the API or by a push of the phone; supervisors decide.   *)
(* Every call reads a copy, and saves either the named columns (decisions, *)
(* check-out) or, for a PATCH, every column of the copy.  A decision is     *)
(* followed by a notice to the agent's devices, whose tokens the agents    *)
(* register and withdraw meanwhile.                                        *)
(***************************************************************************)
EXTENDS Naturals, Sequences, FiniteSets

CONSTANTS Agents, Supervisors, Reasons,
          Desks,                 \* calls served at a time
          Tokens,                \* push tokens of devices
          NoOne, NoReason,
          MaxExpenses, MaxShifts, \* bounds: rows
          MaxDeskCalls            \* bound: calls that change a row

VARIABLES
    expense,  \* the Expense rows: [agent, photo, status, by, reason]
    shift,    \* the Attendance rows: [agent, out, selfie]
    desk,     \* desk[d]: the call being served
    notice,   \* the NotificationLog rows: [row, decision, channel, devices]
    token,    \* token[x]: the user the DeviceToken belongs to, NoOne for no row
    keyed,    \* an FCM key is set, in the gateway settings or the environment
    decided,  \* the decisions taken: <<expense, status, by, reason>>
    deskCalls

deskVars == <<expense, shift, desk, notice, token, keyed, decided, deskCalls>>

FreeDesk == [stage |-> "free", row |-> 0, copy |-> <<>>]

Put(d, r) == desk' = [desk EXCEPT ![d] = r]

Undecided == [status |-> "submitted", by |-> NoOne, reason |-> NoReason]

Open(a) == {k \in DOMAIN shift : shift[k].agent = a /\ ~shift[k].out}

DeskInit ==
    /\ expense = <<>> /\ shift = <<>> /\ notice = <<>>
    /\ desk = [d \in Desks |-> FreeDesk]
    /\ token = [x \in Tokens |-> NoOne]
    /\ keyed \in BOOLEAN
    /\ decided = {}
    /\ deskCalls = 0

BeginCall(d, r) ==
    /\ desk[d] = FreeDesk
    /\ deskCalls < MaxDeskCalls
    /\ deskCalls' = deskCalls + 1
    /\ Put(d, r)

\* POST expenses, or an expense of a push: both insert it undecided.
FileExpense(a) ==
    /\ Len(expense) < MaxExpenses
    /\ expense' = Append(expense, [agent |-> a, photo |-> FALSE, status |-> Undecided.status,
                                   by |-> Undecided.by, reason |-> Undecided.reason])
    /\ UNCHANGED <<shift, desk, notice, token, keyed, decided, deskCalls>>

\* approve() and reject() do not test the status.
ReadExpense(d, k, decision) ==
    /\ BeginCall(d, [stage |-> "decide", row |-> k, copy |-> decision])
    /\ UNCHANGED <<expense, shift, notice, token, keyed, decided>>

Approval(s) == [status |-> "approved", by |-> s, reason |-> NoReason]
Rejection(s, why) == [status |-> "rejected", by |-> s, reason |-> why]

\* Mutant of WithDecision: approve() leaves an earlier rejection's reason.
WithDecision_Stale(e, decision) ==
    IF decision.status = "approved" THEN [e EXCEPT !.status = "approved", !.by = decision.by]
    ELSE [e EXCEPT !.status = decision.status, !.by = decision.by, !.reason = decision.reason]

\* save(update_fields=[status, approved_by, approved_at, rejection_reason])
WithDecision(e, decision) ==
    [e EXCEPT !.status = decision.status, !.by = decision.by, !.reason = decision.reason]

Decide(d) ==
    LET k == desk[d].row IN
    /\ desk[d].stage = "decide"
    /\ expense' = [expense EXCEPT ![k] = WithDecision(@, desk[d].copy)]
    /\ decided' = decided \cup {<<k, desk[d].copy>>}
    /\ Put(d, [desk[d] EXCEPT !.stage = "notify"])
    /\ UNCHANGED <<shift, notice, token, keyed, deskCalls>>

\* POST device-tokens: update_or_create, so a token moves to whoever registers it;
\* DELETE withdraws a token of one's own.
RegisterToken(x, u) ==
    /\ deskCalls < MaxDeskCalls /\ deskCalls' = deskCalls + 1
    /\ token' = [token EXCEPT ![x] = u]
    /\ UNCHANGED <<expense, shift, desk, notice, keyed, decided>>

\* send_push_notification reads the agent's tokens and the key ...
ReadTokens(d) ==
    LET to == {x \in Tokens : token[x] = expense[desk[d].row].agent} IN
    /\ desk[d].stage = "notify"
    /\ Put(d, [desk[d] EXCEPT !.stage = "push",
                 !.copy = [decision |-> @, channel |-> IF keyed /\ to # {} THEN "fcm" ELSE "console",
                           devices |-> to]])
    /\ UNCHANGED <<expense, shift, notice, token, keyed, decided, deskCalls>>

\* ... calls the gateway for each, whatever it answers, and logs the notice once.
LogNotice(d) ==
    /\ desk[d].stage = "push"
    /\ LET n == desk[d].copy
       IN  notice' = Append(notice, [row |-> desk[d].row, decision |-> n.decision,
                                     channel |-> n.channel, devices |-> n.devices])
    /\ Put(d, FreeDesk)
    /\ UNCHANGED <<expense, shift, token, keyed, decided, deskCalls>>

\* A bad template, or an answer cut off, raises instead: nothing is logged.
NoticeFails(d) ==
    /\ desk[d].stage \in {"notify", "push"}
    /\ Put(d, FreeDesk)
    /\ UNCHANGED <<expense, shift, notice, token, keyed, decided, deskCalls>>

\* PATCH of the expense (the photo of the receipt follows the push).
ReadExpensePatch(d, k) ==
    /\ BeginCall(d, [stage |-> "patch", row |-> k, copy |-> expense[k]])
    /\ UNCHANGED <<expense, shift, notice, token, keyed, decided>>

SaveExpensePatch(d) ==
    /\ desk[d].stage = "patch"
    /\ expense' = [expense EXCEPT ![desk[d].row] = [desk[d].copy EXCEPT !.photo = TRUE]]
    /\ Put(d, FreeDesk)
    /\ UNCHANGED <<shift, notice, token, keyed, decided, deskCalls>>

\* POST attendance: no open record of the agent may exist ...
ReadOpen(d, a) ==
    /\ Open(a) = {}
    /\ BeginCall(d, [stage |-> "check in", row |-> 0, copy |-> a])
    /\ UNCHANGED <<expense, shift, notice, token, keyed, decided>>

NewShift(a) == [agent |-> a, out |-> FALSE, selfie |-> FALSE]

\* ... when it is inserted, which is another statement.
CheckInShift(d) ==
    /\ desk[d].stage = "check in"
    /\ Len(shift) < MaxShifts
    /\ shift' = Append(shift, NewShift(desk[d].copy))
    /\ Put(d, FreeDesk)
    /\ UNCHANGED <<expense, notice, token, keyed, decided, deskCalls>>

\* A push inserts the record without that test.
PushCheckIn(a) ==
    /\ Len(shift) < MaxShifts
    /\ shift' = Append(shift, NewShift(a))
    /\ UNCHANGED <<expense, desk, notice, token, keyed, decided, deskCalls>>

ReadShift(d, k, stage) ==
    /\ stage = "check out" => ~shift[k].out
    /\ BeginCall(d, [stage |-> stage, row |-> k, copy |-> shift[k]])
    /\ UNCHANGED <<expense, shift, notice, token, keyed, decided>>

\* check_out saves its columns; a PATCH (the selfie) the whole copy.
SaveShift(d) ==
    LET k == desk[d].row IN
    /\ desk[d].stage \in {"check out", "selfie"}
    /\ shift' = [shift EXCEPT ![k] =
                    IF desk[d].stage = "check out" THEN [@ EXCEPT !.out = TRUE]
                    ELSE [desk[d].copy EXCEPT !.selfie = TRUE]]
    /\ Put(d, FreeDesk)
    /\ UNCHANGED <<expense, notice, token, keyed, decided, deskCalls>>

DeskNext ==
    \/ \E a \in Agents : FileExpense(a) \/ PushCheckIn(a)
    \/ \E x \in Tokens, u \in Agents \cup Supervisors \cup {NoOne} : RegisterToken(x, u)
    \/ \E d \in Desks :
          \/ Decide(d) \/ ReadTokens(d) \/ LogNotice(d) \/ NoticeFails(d) \/ SaveExpensePatch(d) \/ CheckInShift(d) \/ SaveShift(d)
          \/ \E a \in Agents : ReadOpen(d, a)
          \/ \E k \in DOMAIN expense :
                \/ ReadExpensePatch(d, k)
                \/ \E s \in Supervisors : ReadExpense(d, k, Approval(s))
                \/ \E s \in Supervisors, why \in Reasons : ReadExpense(d, k, Rejection(s, why))
          \/ \E k \in DOMAIN shift : ReadShift(d, k, "check out") \/ ReadShift(d, k, "selfie")

DeskSpec == DeskInit /\ [][DeskNext]_deskVars

-----------------------------------------------------------------------------
(* Properties *)

DeskTypeOK ==
    /\ \A k \in DOMAIN expense : expense[k].agent \in Agents
    /\ \A k \in DOMAIN shift : shift[k].agent \in Agents /\ shift[k].out \in BOOLEAN
    /\ \A d \in Desks : desk[d].stage \in {"free", "decide", "notify", "push", "patch",
                                "check in", "check out", "selfie"}
    /\ \A k \in DOMAIN notice : notice[k].devices \subseteq Tokens
    /\ token \in [Tokens -> Agents \cup Supervisors \cup {NoOne}] /\ keyed \in BOOLEAN
    /\ deskCalls \in 0..MaxDeskCalls

Decision(e) == [status |-> e.status, by |-> e.by, reason |-> e.reason]

\* The columns of a decision belong together: what an expense says of its status,
\* its supervisor and the reason is one decision somebody took (or none), never
\* the status of one with the signature or the reason of another, though decisions
\* overlap, follow one another and meet PATCHes that save an old copy; nor does a
\* notice tell the agent of a decision that was not saved.
DecisionsWhole ==
    /\ \A k \in DOMAIN expense :
          \/ Decision(expense[k]) = Undecided
          \/ <<k, Decision(expense[k])>> \in decided
    /\ \A n \in DOMAIN notice : <<notice[n].row, notice[n].decision>> \in decided
=============================================================================
