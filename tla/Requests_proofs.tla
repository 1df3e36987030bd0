--------------------------- MODULE Requests_proofs ---------------------------
(***************************************************************************)
(* Theorems about requests that are served side by side, for any people,   *)
(* addresses, proposals, slugs, databases, documents, secrets, rows,       *)
(* sheets, overlapping calls and bounds.  What one asks for and another    *)
(* decides: the columns of a decision belong together, an approved sign-up *)
(* has a whole account of its own, an approved change of a governed        *)
(* setting is in force, tenants are kept apart.  What crosses the border:  *)
(* a signed request is served and a subscriber called once, an order is    *)
(* paid by one receipt, a pull misses nothing committed before its         *)
(* timestamp, or taken back by an answer that came late, and repeating a   *)
(* sheet only takes rows off its errors.  And what the tables, the phone   *)
(* and the running calls hold keeps its type.                              *)
(***************************************************************************)
EXTENDS FieldDesk, Accounts, ChangeRequests, Tenancy, ConnectorTraffic, Payments, PullCursor, MasterImport,
        SequenceTheorems, FiniteSetTheorems, TLAPS

-----------------------------------------------------------------------------
(* FieldDesk: decisions on expenses *)

Columns == {"status", "by", "reason"}

\* Expense k may hold e when the decisions D were taken.
Whole(k, e, D) ==
    /\ Columns \subseteq DOMAIN e
    /\ Decision(e) = Undecided \/ <<k, Decision(e)>> \in D

\* A call may be at r when X are the expenses and the decisions D were taken.
Fits(r, X, D) ==
    /\ r = [stage |-> r.stage, row |-> r.row, copy |-> r.copy]
    /\ r.stage = "decide" => /\ r.row \in X
                             /\ DOMAIN r.copy = Columns /\ Decision(r.copy) = r.copy
    /\ r.stage = "notify" => <<r.row, r.copy>> \in D
    /\ r.stage = "push" => <<r.row, r.copy.decision>> \in D
    /\ r.stage = "patch" => r.row \in X /\ Whole(r.row, r.copy, D)

Rows ==
    /\ \E S : expense \in Seq(S)
    /\ \A k \in DOMAIN expense : Whole(k, expense[k], decided)

Notices ==
    /\ \E S : notice \in Seq(S)
    /\ \A n \in DOMAIN notice : <<notice[n].row, notice[n].decision>> \in decided

Served == DOMAIN desk = Desks /\ \A d \in Desks : Fits(desk[d], DOMAIN expense, decided)

DeskInv == Rows /\ Notices /\ Served

LEMMA DeskImplied == DeskInv => DecisionsWhole
BY DEF DeskInv, Rows, Notices, Whole, DecisionsWhole

LEMMA DeskInitially == DeskInit => DeskInv
<1> SUFFICES ASSUME DeskInit PROVE DeskInv
  OBVIOUS
<1>1. Fits(FreeDesk, {}, {})
  BY DEF FreeDesk, Fits
<1>2. expense \in Seq({}) /\ notice \in Seq({}) /\ DOMAIN expense = {} /\ DOMAIN notice = {} /\ decided = {}
  BY DEF DeskInit
<1>3. Rows /\ Notices
  BY <1>2 DEF Rows, Notices
<1>4. Served
  BY <1>1, <1>2 DEF DeskInit, Served
<1> QED BY <1>3, <1>4 DEF DeskInv

\* More decisions and more expenses take nothing back.
LEMMA Monotone ==
    ASSUME NEW D, NEW D2, D \subseteq D2, NEW X, NEW X2, X \subseteq X2
    PROVE  /\ \A k, e : Whole(k, e, D) => Whole(k, e, D2)
           /\ \A r : Fits(r, X, D) => Fits(r, X2, D2)
BY DEF Whole, Fits

\* What has to be shown of a step that puts a call at r.
LEMMA PutStep ==
    ASSUME DeskInv, NEW d \in Desks, NEW r, Put(d, r), Fits(r, DOMAIN expense', decided'),
           Rows', Notices', decided \subseteq decided', DOMAIN expense \subseteq DOMAIN expense'
    PROVE  DeskInv'
<1>1. /\ DOMAIN desk' = Desks /\ desk'[d] = r
      /\ \A c \in Desks \ {d} : desk'[c] = desk[c]
  BY DEF Put, DeskInv, Served
<1>2. \A c \in Desks \ {d} : Fits(desk'[c], DOMAIN expense', decided')
  BY <1>1, Monotone DEF DeskInv, Served
<1> QED BY <1>1, <1>2 DEF DeskInv, Served

\* A step that leaves the expenses, the notices and the decisions alone.
LEMMA QuietStep ==
    ASSUME DeskInv, NEW d \in Desks, NEW r, Put(d, r), Fits(r, DOMAIN expense, decided),
           UNCHANGED <<expense, notice, decided>>
    PROVE  DeskInv'
<1>1. Rows' /\ Notices'
  BY DEF DeskInv, Rows, Notices
<1> QED BY <1>1, PutStep

\* A call that works on attendance, or is over, owes nothing.
LEMMA OtherCalls ==
    ASSUME NEW r, r = [stage |-> r.stage, row |-> r.row, copy |-> r.copy],
           r.stage \notin {"decide", "notify", "push", "patch"}
    PROVE  \A X, D : Fits(r, X, D)
BY DEF Fits

LEMMA FreeFits == \A X, D : Fits(FreeDesk, X, D)
BY OtherCalls DEF FreeDesk

-----------------------------------------------------------------------------

LEMMA FileStep ==
    ASSUME DeskInv, NEW a \in Agents, FileExpense(a)
    PROVE  DeskInv'
<1> DEFINE e == [agent |-> a, photo |-> FALSE, status |-> Undecided.status,
                 by |-> Undecided.by, reason |-> Undecided.reason]
<1>1. expense' = Append(expense, e) /\ UNCHANGED <<desk, notice, decided>>
  BY DEF FileExpense
<1>2. Columns \subseteq DOMAIN e /\ e.status = Undecided.status /\ e.by = Undecided.by /\ e.reason = Undecided.reason
  BY DEF Columns
<1>3. Whole(Len(expense'), e, decided)
  BY <1>2 DEF Whole, Decision, Undecided
<1> HIDE DEF e
<1>4. PICK S : expense \in Seq(S)
  BY DEF DeskInv, Rows
<1>5. expense \in Seq(S \cup {e}) /\ expense' \in Seq(S \cup {e})
  BY <1>1, <1>4
<1>6. PICK n : /\ n = Len(expense') /\ DOMAIN expense' = DOMAIN expense \cup {n}
               /\ expense'[n] = e /\ \A k \in DOMAIN expense : expense'[k] = expense[k]
  BY <1>1, <1>5
<1>7. Rows'
  BY <1>1, <1>3, <1>5, <1>6 DEF DeskInv, Rows
<1>8. Notices'
  BY <1>1 DEF DeskInv, Notices
<1>9. Served'
  BY <1>1, <1>6, Monotone DEF DeskInv, Served
<1> QED BY <1>7, <1>8, <1>9 DEF DeskInv

LEMMA DeskReadStep ==
    ASSUME DeskInv, NEW d \in Desks, NEW k \in DOMAIN expense,
           \/ ReadExpensePatch(d, k)
           \/ \E s \in Supervisors : ReadExpense(d, k, Approval(s))
           \/ \E s \in Supervisors, why \in Reasons : ReadExpense(d, k, Rejection(s, why))
    PROVE  DeskInv'
<1>1. CASE ReadExpensePatch(d, k)
  <2> DEFINE r == [stage |-> "patch", row |-> k, copy |-> expense[k]]
  <2>1. Put(d, r) /\ UNCHANGED <<expense, notice, decided>>
    BY <1>1 DEF ReadExpensePatch, BeginCall
  <2>2. Fits(r, DOMAIN expense, decided)
    BY DEF Fits, DeskInv, Rows
  <2> QED BY <2>1, <2>2, QuietStep
<1>2. ASSUME NEW decision, ReadExpense(d, k, decision),
             DOMAIN decision = Columns, Decision(decision) = decision
      PROVE  DeskInv'
  <2> DEFINE r == [stage |-> "decide", row |-> k, copy |-> decision]
  <2>1. Put(d, r) /\ UNCHANGED <<expense, notice, decided>>
    BY <1>2 DEF ReadExpense, BeginCall
  <2>2. Fits(r, DOMAIN expense, decided)
    BY <1>2 DEF Fits
  <2> QED BY <2>1, <2>2, QuietStep
<1>3. \A s : DOMAIN Approval(s) = Columns /\ Decision(Approval(s)) = Approval(s)
  BY DEF Approval, Columns, Decision
<1>4. \A s, why : DOMAIN Rejection(s, why) = Columns /\ Decision(Rejection(s, why)) = Rejection(s, why)
  BY DEF Rejection, Columns, Decision
<1> QED BY <1>1, <1>2, <1>3, <1>4

\* The named columns are saved together.
LEMMA DecideStep ==
    ASSUME DeskInv, NEW d \in Desks, Decide(d)
    PROVE  DeskInv'
<1> DEFINE k == desk[d].row
           c == desk[d].copy
           e == WithDecision(expense[k], c)
           r == [desk[d] EXCEPT !.stage = "notify"]
<1>1. /\ desk[d].stage = "decide" /\ expense' = [expense EXCEPT ![k] = e]
      /\ decided' = decided \cup {<<k, c>>} /\ Put(d, r) /\ UNCHANGED notice
  BY DEF Decide
<1>2. /\ k \in DOMAIN expense /\ DOMAIN c = Columns /\ Decision(c) = c
      /\ desk[d] = [stage |-> desk[d].stage, row |-> k, copy |-> c]
  BY <1>1 DEF DeskInv, Served, Fits
<1>2a. Columns \subseteq DOMAIN expense[k]
  BY <1>2 DEF DeskInv, Rows, Whole
<1>3. Columns \subseteq DOMAIN e /\ e.status = c.status /\ e.by = c.by /\ e.reason = c.reason
  BY <1>2, <1>2a DEF WithDecision, Columns
<1>4. Whole(k, e, decided')
  BY <1>1, <1>2, <1>3 DEF Whole, Decision
<1>5. r = [stage |-> "notify", row |-> k, copy |-> c]
  BY <1>2
<1>6. Fits(r, DOMAIN expense', decided')
  BY <1>1, <1>5 DEF Fits
<1> HIDE DEF e, r
<1>7. DOMAIN expense' = DOMAIN expense /\ expense'[k] = e /\ \A m \in DOMAIN expense \ {k} : expense'[m] = expense[m]
  BY <1>1, <1>2
<1>8. Rows'
  <2>1. PICK S : expense \in Seq(S)
    BY DEF DeskInv, Rows
  <2>2. expense' \in Seq(S \cup {e})
    BY <1>1, <1>2, <2>1
  <2>3. \A m \in DOMAIN expense \ {k} : Whole(m, expense'[m], decided')
    BY <1>1, <1>7, Monotone DEF DeskInv, Rows
  <2> QED BY <1>4, <1>7, <2>2, <2>3 DEF Rows
<1>9. Notices'
  BY <1>1 DEF DeskInv, Notices
<1> QED BY <1>1, <1>6, <1>7, <1>8, <1>9, PutStep

LEMMA MovedOn ==
    ASSUME NEW c, NEW stage, NEW y, c = [stage |-> c.stage, row |-> c.row, copy |-> c.copy]
    PROVE  [c EXCEPT !.stage = stage, !.copy = y] = [stage |-> stage, row |-> c.row, copy |-> y]
<1> DEFINE s == [c EXCEPT !.stage = stage]
<1>1. s = [stage |-> stage, row |-> c.row, copy |-> c.copy]
  OBVIOUS
<1>2. [c EXCEPT !.stage = stage, !.copy = y] = [s EXCEPT !.copy = y]
  OBVIOUS
<1> HIDE DEF s
<1>3. [s EXCEPT !.copy = y] = [stage |-> stage, row |-> c.row, copy |-> y]
  BY <1>1
<1> QED BY <1>2, <1>3

\* A notice carries the decision its call has saved.
LEMMA NoticeStep ==
    ASSUME DeskInv, NEW d \in Desks, ReadTokens(d) \/ LogNotice(d) \/ NoticeFails(d)
    PROVE  DeskInv'
<1> DEFINE k == desk[d].row
           c == desk[d].copy
<1>0. desk[d] = [stage |-> desk[d].stage, row |-> k, copy |-> c]
  BY DEF DeskInv, Served, Fits
<1>1. CASE ReadTokens(d)
  <2>1. PICK channel, to :
           /\ Put(d, [desk[d] EXCEPT !.stage = "push",
                        !.copy = [decision |-> c, channel |-> channel, devices |-> to]])
           /\ desk[d].stage = "notify" /\ UNCHANGED <<expense, notice, decided>>
    BY <1>1 DEF ReadTokens
  <2> DEFINE r == [stage |-> "push", row |-> k, copy |-> [decision |-> c, channel |-> channel, devices |-> to]]
  <2>2. Put(d, r)
    <3>1. [desk[d] EXCEPT !.stage = "push", !.copy = [decision |-> c, channel |-> channel, devices |-> to]] = r
      BY <1>0, MovedOn
    <3> QED BY <2>1, <3>1
  <2>3. <<k, c>> \in decided
    BY <2>1 DEF DeskInv, Served, Fits
  <2>4. Fits(r, DOMAIN expense, decided)
    BY <2>3 DEF Fits
  <2> QED BY <2>1, <2>2, <2>4, QuietStep
<1>2. CASE LogNotice(d)
  <2> DEFINE n == [row |-> k, decision |-> c.decision, channel |-> c.channel, devices |-> c.devices]
  <2>1. /\ notice' = Append(notice, n) /\ desk[d].stage = "push" /\ Put(d, FreeDesk)
        /\ UNCHANGED <<expense, decided>>
    BY <1>2 DEF LogNotice
  <2>2. <<k, c.decision>> \in decided
    BY <2>1 DEF DeskInv, Served, Fits
  <2>3. n.row = k /\ n.decision = c.decision
    OBVIOUS
  <2> HIDE DEF n
  <2>4. PICK S : notice \in Seq(S)
    BY DEF DeskInv, Notices
  <2>5. notice \in Seq(S \cup {n}) /\ notice' \in Seq(S \cup {n})
    BY <2>1, <2>4
  <2>6. PICK j : /\ DOMAIN notice' = DOMAIN notice \cup {j} /\ notice'[j] = n
                 /\ \A i \in DOMAIN notice : notice'[i] = notice[i]
    BY <2>1, <2>5
  <2>7. Notices'
    BY <2>1, <2>2, <2>3, <2>5, <2>6 DEF DeskInv, Notices
  <2>8. Rows'
    BY <2>1 DEF DeskInv, Rows
  <2> QED BY <2>1, <2>7, <2>8, FreeFits, PutStep
<1>3. CASE NoticeFails(d)
  <2>1. Put(d, FreeDesk) /\ UNCHANGED <<expense, notice, decided>>
    BY <1>3 DEF NoticeFails
  <2> QED BY <2>1, FreeFits, QuietStep
<1> QED BY <1>1, <1>2, <1>3

LEMMA PatchStep ==
    ASSUME DeskInv, NEW d \in Desks, SaveExpensePatch(d)
    PROVE  DeskInv'
<1> DEFINE k == desk[d].row
           e == [desk[d].copy EXCEPT !.photo = TRUE]
<1>1. /\ expense' = [expense EXCEPT ![k] = e] /\ desk[d].stage = "patch" /\ Put(d, FreeDesk)
      /\ UNCHANGED <<notice, decided>>
  BY DEF SaveExpensePatch
<1>2. k \in DOMAIN expense /\ Whole(k, desk[d].copy, decided)
  BY <1>1 DEF DeskInv, Served, Fits
<1>3. /\ DOMAIN e = DOMAIN desk[d].copy
      /\ e.status = desk[d].copy.status /\ e.by = desk[d].copy.by /\ e.reason = desk[d].copy.reason
  BY <1>2 DEF Whole, Columns
<1>4. Whole(k, e, decided)
  BY <1>2, <1>3 DEF Whole, Decision
<1> HIDE DEF e
<1>5. DOMAIN expense' = DOMAIN expense /\ expense'[k] = e /\ \A m \in DOMAIN expense \ {k} : expense'[m] = expense[m]
  BY <1>1, <1>2
<1>6. Rows'
  <2>1. PICK S : expense \in Seq(S)
    BY DEF DeskInv, Rows
  <2>2. expense' \in Seq(S \cup {e})
    BY <1>1, <1>2, <2>1
  <2> QED BY <1>1, <1>4, <1>5, <2>2 DEF DeskInv, Rows
<1>7. Notices'
  BY <1>1 DEF DeskInv, Notices
<1> QED BY <1>1, <1>5, <1>6, <1>7, FreeFits, PutStep

\* Attendance and tokens.
LEMMA AttendanceStep ==
    ASSUME DeskInv, NEW d \in Desks,
           \/ CheckInShift(d) \/ SaveShift(d) \/ \E a \in Agents : ReadOpen(d, a)
           \/ \E k \in DOMAIN shift : ReadShift(d, k, "check out") \/ ReadShift(d, k, "selfie")
    PROVE  DeskInv'
<1>1. CASE CheckInShift(d) \/ SaveShift(d)
  <2>1. Put(d, FreeDesk) /\ UNCHANGED <<expense, notice, decided>>
    BY <1>1 DEF CheckInShift, SaveShift
  <2> QED BY <2>1, FreeFits, QuietStep
<1>2. ASSUME NEW stage \in {"check in", "check out", "selfie"}, NEW k, NEW copy,
             BeginCall(d, [stage |-> stage, row |-> k, copy |-> copy]),
             UNCHANGED <<expense, notice, decided>>
      PROVE  DeskInv'
  <2> DEFINE r == [stage |-> stage, row |-> k, copy |-> copy]
  <2>1. Put(d, r)
    BY <1>2 DEF BeginCall
  <2>2. Fits(r, DOMAIN expense, decided)
    BY <1>2 DEF Fits
  <2> QED BY <1>2, <2>1, <2>2, QuietStep
<1>3. CASE \E a \in Agents : ReadOpen(d, a)
  BY <1>2, <1>3 DEF ReadOpen
<1>4. CASE \E k \in DOMAIN shift : ReadShift(d, k, "check out") \/ ReadShift(d, k, "selfie")
  BY <1>2, <1>4 DEF ReadShift
<1> QED BY <1>1, <1>3, <1>4

LEMMA IdleStep == ASSUME DeskInv, UNCHANGED <<expense, desk, notice, decided>> PROVE DeskInv'
BY DEF DeskInv, Rows, Notices, Served

LEMMA DeskStepwise == ASSUME DeskInv, [DeskNext]_deskVars PROVE DeskInv'
<1>1. CASE UNCHANGED deskVars
  BY <1>1, IdleStep DEF deskVars
<1>2. CASE \E x \in Tokens, u \in Agents \cup Supervisors \cup {NoOne} : RegisterToken(x, u)
  BY <1>2, IdleStep DEF RegisterToken
<1>3. CASE \E a \in Agents : FileExpense(a) \/ PushCheckIn(a)
  BY <1>3, FileStep, IdleStep DEF PushCheckIn
<1>4. ASSUME NEW d \in Desks,
             \/ Decide(d) \/ ReadTokens(d) \/ LogNotice(d) \/ NoticeFails(d) \/ SaveExpensePatch(d)
             \/ CheckInShift(d) \/ SaveShift(d) \/ \E a \in Agents : ReadOpen(d, a)
             \/ \E k \in DOMAIN expense :
                  \/ ReadExpensePatch(d, k)
                  \/ \E s \in Supervisors : ReadExpense(d, k, Approval(s))
                  \/ \E s \in Supervisors, why \in Reasons : ReadExpense(d, k, Rejection(s, why))
             \/ \E k \in DOMAIN shift : ReadShift(d, k, "check out") \/ ReadShift(d, k, "selfie")
      PROVE  DeskInv'
  BY <1>4, DecideStep, NoticeStep, PatchStep, DeskReadStep, AttendanceStep
<1> QED BY <1>1, <1>2, <1>3, <1>4 DEF DeskNext

\* The columns of a decision belong together, and a notice tells of a decision that
\* was saved (approve, reject and partial_update of ExpenseViewSet, and
\* send_push_notification after them).
THEOREM DecisionsStayWhole == DeskSpec => []DecisionsWhole
<1>1. DeskInit => DeskInv
  BY DeskInitially
<1>2. DeskInv /\ [DeskNext]_deskVars => DeskInv'
  BY DeskStepwise
<1>3. DeskInv => DecisionsWhole
  BY DeskImplied
<1> QED BY <1>1, <1>2, <1>3, PTL DEF DeskSpec

-----------------------------------------------------------------------------
(* Accounts: approved sign-ups *)

SignupRow(r) == r = [email |-> r.email, status |-> r.status, user |-> r.user, role |-> r.role]
UserRow(r)   == r = [name |-> r.name, email |-> r.email, roles |-> r.roles,
                     password |-> r.password, login |-> r.login, active |-> r.active]
CallRow(r)   == r = [stage |-> r.stage, k |-> r.k, name |-> r.name, role |-> r.role, u |-> r.u, copy |-> r.copy]

AccountShape ==
    /\ \E S : signup \in Seq(S)
    /\ \E S : user \in Seq(S)
    /\ DOMAIN admin = Admins
    /\ \A k \in DOMAIN signup : SignupRow(signup[k])
    /\ \A u \in DOMAIN user : UserRow(user[u])
    /\ \A a \in Admins : CallRow(admin[a])

\* Stages of a call that has created a user and not named it yet.
Unnamed == {"grant", "approved"}

\* What a call works on: the user it created is that of the request's address, and
\* neither named by a request nor another call's.
Working ==
    \A a \in Admins :
       LET r == admin[a] IN
       /\ r.stage \in {"create", "rejected"} \cup Unnamed => r.k \in DOMAIN signup
       /\ r.stage \in Unnamed =>
             /\ r.u \in DOMAIN user /\ user[r.u].email = signup[r.k].email
             /\ \A k \in DOMAIN signup : signup[k].user # r.u
             /\ \A b \in Admins \ {a} : admin[b].stage \in Unnamed => admin[b].u # r.u
       /\ r.stage = "approved" => {r.role} \ {NoRole} \subseteq user[r.u].roles
       /\ r.stage \in {"deactivate", "activate", "patch"} => r.u \in DOMAIN user
       /\ r.stage = "patch" => UserRow(r.copy) /\ r.copy.email = user[r.u].email

Named == \A k \in DOMAIN signup : signup[k].user # 0 => signup[k].user \in DOMAIN user

AccountInv == AccountShape /\ Working /\ Named /\ ApprovedAccountsWhole

LEMMA AccountInitially == AccountInit => AccountInv
<1> SUFFICES ASSUME AccountInit PROVE AccountInv
  OBVIOUS
<1>1. signup \in Seq({}) /\ user \in Seq({}) /\ DOMAIN signup = {} /\ DOMAIN user = {}
  BY DEF AccountInit
<1>2. CallRow(NoAdminCall) /\ NoAdminCall.stage = "idle"
  BY DEF NoAdminCall, CallRow
<1>3. DOMAIN admin = Admins /\ \A a \in Admins : admin[a] = NoAdminCall
  BY DEF AccountInit
<1>4. AccountShape
  BY <1>1, <1>2, <1>3 DEF AccountShape
<1>5. Working
  BY <1>2, <1>3 DEF Working, Unnamed
<1> QED BY <1>1, <1>4, <1>5 DEF AccountInv, Named, ApprovedAccountsWhole

-----------------------------------------------------------------------------
(* Records with some fields replaced. *)

LEMMA CallField ==
    ASSUME NEW c, CallRow(c), NEW x
    PROVE  /\ [c EXCEPT !.stage = x] = [stage |-> x, k |-> c.k, name |-> c.name, role |-> c.role, u |-> c.u, copy |-> c.copy]
           /\ [c EXCEPT !.k = x] = [stage |-> c.stage, k |-> x, name |-> c.name, role |-> c.role, u |-> c.u, copy |-> c.copy]
           /\ [c EXCEPT !.name = x] = [stage |-> c.stage, k |-> c.k, name |-> x, role |-> c.role, u |-> c.u, copy |-> c.copy]
           /\ [c EXCEPT !.role = x] = [stage |-> c.stage, k |-> c.k, name |-> c.name, role |-> x, u |-> c.u, copy |-> c.copy]
           /\ [c EXCEPT !.u = x] = [stage |-> c.stage, k |-> c.k, name |-> c.name, role |-> c.role, u |-> x, copy |-> c.copy]
           /\ [c EXCEPT !.copy = x] = [stage |-> c.stage, k |-> c.k, name |-> c.name, role |-> c.role, u |-> c.u, copy |-> x]
BY DEF CallRow

LEMMA CallOnRequest ==
    ASSUME NEW c, CallRow(c), NEW s, NEW k, NEW n, NEW o
    PROVE  [c EXCEPT !.stage = s, !.k = k, !.name = n, !.role = o]
              = [stage |-> s, k |-> k, name |-> n, role |-> o, u |-> c.u, copy |-> c.copy]
<1> DEFINE c1 == [c EXCEPT !.stage = s]
           c2 == [c1 EXCEPT !.k = k]
           c3 == [c2 EXCEPT !.name = n]
<1>1. [c EXCEPT !.stage = s, !.k = k, !.name = n, !.role = o] = [c3 EXCEPT !.role = o]
  OBVIOUS
<1>2. c1 = [stage |-> s, k |-> c.k, name |-> c.name, role |-> c.role, u |-> c.u, copy |-> c.copy]
  BY CallField
<1> HIDE DEF c1
<1>3. c2 = [stage |-> s, k |-> k, name |-> c.name, role |-> c.role, u |-> c.u, copy |-> c.copy]
  BY <1>2
<1> HIDE DEF c2
<1>4. c3 = [stage |-> s, k |-> k, name |-> n, role |-> c.role, u |-> c.u, copy |-> c.copy]
  BY <1>3
<1> HIDE DEF c3
<1>5. [c3 EXCEPT !.role = o] = [stage |-> s, k |-> k, name |-> n, role |-> o, u |-> c.u, copy |-> c.copy]
  BY <1>4
<1> QED BY <1>1, <1>5

LEMMA CallOnUser ==
    ASSUME NEW c, CallRow(c), NEW s, NEW u, NEW y
    PROVE  [c EXCEPT !.stage = s, !.u = u, !.copy = y]
              = [stage |-> s, k |-> c.k, name |-> c.name, role |-> c.role, u |-> u, copy |-> y]
<1> DEFINE c1 == [c EXCEPT !.stage = s]
           c2 == [c1 EXCEPT !.u = u]
<1>1. [c EXCEPT !.stage = s, !.u = u, !.copy = y] = [c2 EXCEPT !.copy = y]
  OBVIOUS
<1>2. c1 = [stage |-> s, k |-> c.k, name |-> c.name, role |-> c.role, u |-> c.u, copy |-> c.copy]
  BY CallField
<1> HIDE DEF c1
<1>3. c2 = [stage |-> s, k |-> c.k, name |-> c.name, role |-> c.role, u |-> u, copy |-> c.copy]
  BY <1>2
<1> HIDE DEF c2
<1>4. [c2 EXCEPT !.copy = y] = [stage |-> s, k |-> c.k, name |-> c.name, role |-> c.role, u |-> u, copy |-> y]
  BY <1>3
<1> QED BY <1>1, <1>4

LEMMA CallWithUser ==
    ASSUME NEW c, CallRow(c), NEW s, NEW u
    PROVE  [c EXCEPT !.u = u, !.stage = s]
              = [stage |-> s, k |-> c.k, name |-> c.name, role |-> c.role, u |-> u, copy |-> c.copy]
<1> DEFINE c1 == [c EXCEPT !.u = u]
<1>1. [c EXCEPT !.u = u, !.stage = s] = [c1 EXCEPT !.stage = s]
  OBVIOUS
<1>2. c1 = [stage |-> c.stage, k |-> c.k, name |-> c.name, role |-> c.role, u |-> u, copy |-> c.copy]
  BY CallField
<1> HIDE DEF c1
<1>3. [c1 EXCEPT !.stage = s] = [stage |-> s, k |-> c.k, name |-> c.name, role |-> c.role, u |-> u, copy |-> c.copy]
  BY <1>2
<1> QED BY <1>1, <1>3

LEMMA SignupDecided ==
    ASSUME NEW r, SignupRow(r), NEW s, NEW u, NEW o
    PROVE  [r EXCEPT !.status = s, !.user = u, !.role = o]
              = [email |-> r.email, status |-> s, user |-> u, role |-> o]
<1> DEFINE r1 == [r EXCEPT !.status = s]
           r2 == [r1 EXCEPT !.user = u]
<1>1. [r EXCEPT !.status = s, !.user = u, !.role = o] = [r2 EXCEPT !.role = o]
  OBVIOUS
<1>2. r1 = [email |-> r.email, status |-> s, user |-> r.user, role |-> r.role]
  BY DEF SignupRow
<1> HIDE DEF r1
<1>3. r2 = [email |-> r.email, status |-> s, user |-> u, role |-> r.role]
  BY <1>2
<1> HIDE DEF r2
<1>4. [r2 EXCEPT !.role = o] = [email |-> r.email, status |-> s, user |-> u, role |-> o]
  BY <1>3
<1> QED BY <1>1, <1>4

-----------------------------------------------------------------------------
(* Steps that leave the requests alone. *)

\* Accounts keep their address and their roles.
UsersGrow ==
    /\ DOMAIN user \subseteq DOMAIN user'
    /\ \A u \in DOMAIN user : user'[u].email = user[u].email /\ user[u].roles \subseteq user'[u].roles
    /\ \E S : user' \in Seq(S)
    /\ \A u \in DOMAIN user' : UserRow(user'[u])

LEMMA UsersSame == ASSUME AccountInv, UNCHANGED user PROVE UsersGrow
BY DEF AccountInv, AccountShape, UsersGrow

\* One account is saved with other columns.
LEMMA UserSaved ==
    ASSUME AccountInv, NEW u \in DOMAIN user, NEW e, UserRow(e),
           e.email = user[u].email, user[u].roles \subseteq e.roles,
           user' = [user EXCEPT ![u] = e]
    PROVE  UsersGrow
<1>1. /\ DOMAIN user' = DOMAIN user /\ user'[u] = e
      /\ \A v \in DOMAIN user \ {u} : user'[v] = user[v]
  OBVIOUS
<1>2. \E S : user' \in Seq(S)
  <2>1. PICK S : user \in Seq(S)
    BY DEF AccountInv, AccountShape
  <2>2. user' \in Seq(S \cup {e})
    BY <2>1
  <2> QED BY <2>2
<1> QED BY <1>1, <1>2 DEF UsersGrow, AccountInv, AccountShape

LEMMA NamedKept ==
    ASSUME AccountInv, UsersGrow, UNCHANGED signup
    PROVE  Named' /\ ApprovedAccountsWhole'
BY DEF AccountInv, Named, ApprovedAccountsWhole, UsersGrow

LEMMA CallsKept ==
    ASSUME AccountInv, UsersGrow, UNCHANGED <<signup, admin>>
    PROVE  AccountInv'
<1>1. AccountShape'
  BY DEF AccountInv, AccountShape, UsersGrow
<1>2. Working'
  BY DEF AccountInv, Working, UsersGrow, Unnamed
<1> QED BY <1>1, <1>2, NamedKept DEF AccountInv

\* A call goes on to where it has no unnamed user.
LEMMA CallMoved ==
    ASSUME AccountInv, UsersGrow, UNCHANGED signup, NEW a \in Admins, NEW r, CallRow(r),
           admin' = [admin EXCEPT ![a] = r],
           r.stage \notin Unnamed,
           r.stage \in {"create", "rejected"} => r.k \in DOMAIN signup,
           r.stage \in {"deactivate", "activate", "patch"} => r.u \in DOMAIN user,
           r.stage = "patch" => UserRow(r.copy) /\ r.copy.email = user[r.u].email
    PROVE  AccountInv'
<1>1. DOMAIN admin' = Admins /\ admin'[a] = r /\ \A b \in Admins \ {a} : admin'[b] = admin[b]
  BY DEF AccountInv, AccountShape
<1>2. AccountShape'
  BY <1>1 DEF AccountInv, AccountShape, UsersGrow
<1>3. Working'
  BY <1>1 DEF AccountInv, Working, UsersGrow, Unnamed
<1> QED BY <1>2, <1>3, NamedKept DEF AccountInv

LEMMA CallEnded ==
    ASSUME AccountInv, UsersGrow, UNCHANGED signup, NEW a \in Admins, End(a)
    PROVE  AccountInv'
<1>1. CallRow(NoAdminCall) /\ NoAdminCall.stage = "idle"
  BY DEF NoAdminCall, CallRow
<1> QED BY <1>1, CallMoved DEF End, Unnamed

-----------------------------------------------------------------------------

LEMMA SubmitStep ==
    ASSUME AccountInv, NEW e \in Emails, Submit(e)
    PROVE  AccountInv'
<1> DEFINE r == [email |-> e, status |-> "pending", user |-> 0, role |-> NoRole]
<1>1. signup' = Append(signup, r) /\ UNCHANGED <<user, admin>>
  BY DEF Submit
<1>2. SignupRow(r) /\ r.user = 0 /\ r.status = "pending"
  BY DEF SignupRow
<1> HIDE DEF r
<1>3. PICK S : signup \in Seq(S)
  BY DEF AccountInv, AccountShape
<1>4. signup \in Seq(S \cup {r}) /\ signup' \in Seq(S \cup {r})
  BY <1>1, <1>3
<1>5. PICK n : /\ DOMAIN signup' = DOMAIN signup \cup {n} /\ n \notin DOMAIN signup /\ signup'[n] = r
               /\ \A k \in DOMAIN signup : signup'[k] = signup[k]
  BY <1>1, <1>4
<1>6. AccountShape'
  BY <1>1, <1>2, <1>4, <1>5 DEF AccountInv, AccountShape
<1>7. \A a \in Admins : admin[a].stage \in Unnamed => admin[a].u # 0
  BY DEF AccountInv, Working, AccountShape
<1>8. Working'
  BY <1>1, <1>2, <1>5, <1>7 DEF AccountInv, Working, Unnamed
<1>9. Named' /\ ApprovedAccountsWhole'
  BY <1>1, <1>2, <1>5 DEF AccountInv, Named, ApprovedAccountsWhole
<1> QED BY <1>6, <1>8, <1>9 DEF AccountInv

LEMMA AccountReadStep ==
    ASSUME AccountInv, NEW a \in Admins, NEW stage, NEW k, NEW name, NEW role,
           stage \in {"create", "rejected"}, k \in DOMAIN signup, ReadSignup(a, k, stage, name, role)
    PROVE  AccountInv'
<1> DEFINE r == [NoAdminCall EXCEPT !.stage = stage, !.k = k, !.name = name, !.role = role]
<1>1. admin' = [admin EXCEPT ![a] = r] /\ UNCHANGED <<signup, user>>
  BY DEF ReadSignup, BeginAdmin
<1>0. CallRow(NoAdminCall)
  BY DEF CallRow, NoAdminCall
<1>2. CallRow(r) /\ r.stage = stage /\ r.k = k
  <2>1. r = [stage |-> stage, k |-> k, name |-> name, role |-> role, u |-> NoAdminCall.u, copy |-> NoAdminCall.copy]
    BY <1>0, CallOnRequest
  <2> HIDE DEF r
  <2> QED BY <2>1 DEF CallRow
<1> HIDE DEF r
<1> QED BY <1>1, <1>2, UsersSame, CallMoved DEF Unnamed

LEMMA ReadUserStep ==
    ASSUME AccountInv, NEW a \in Admins, NEW u \in DOMAIN user, NEW stage,
           stage \in {"deactivate", "activate", "patch"}, ReadUser(a, u, stage)
    PROVE  AccountInv'
<1> DEFINE r == [NoAdminCall EXCEPT !.stage = stage, !.u = u, !.copy = user[u]]
<1>1. admin' = [admin EXCEPT ![a] = r] /\ UNCHANGED <<signup, user>>
  BY DEF ReadUser, BeginAdmin
<1>0. CallRow(NoAdminCall)
  BY DEF CallRow, NoAdminCall
<1>2. CallRow(r) /\ r.stage = stage /\ r.u = u /\ r.copy = user[u]
  <2>1. r = [stage |-> stage, k |-> NoAdminCall.k, name |-> NoAdminCall.name, role |-> NoAdminCall.role, u |-> u, copy |-> user[u]]
    BY <1>0, CallOnUser
  <2> HIDE DEF r
  <2> QED BY <2>1 DEF CallRow
<1>3. UserRow(user[u])
  BY DEF AccountInv, AccountShape
<1> HIDE DEF r
<1> QED BY <1>1, <1>2, <1>3, UsersSame, CallMoved DEF Unnamed

\* The new user is nobody's yet.
LEMMA CreateStep ==
    ASSUME AccountInv, NEW a \in Admins, CreateUser(a)
    PROVE  AccountInv'
<1> DEFINE c == admin[a]
           e == NewUser(c.name, signup[c.k].email)
<1>1. CASE End(a) /\ UNCHANGED user
  BY <1>1, UsersSame, CallEnded DEF CreateUser
<1>2. CASE user' = Append(user, e) /\ admin' = [admin EXCEPT ![a].u = Len(user'), ![a].stage = "grant"]
  <2>1. c.stage = "create" /\ UNCHANGED signup /\ c.k \in DOMAIN signup /\ CallRow(c)
    BY DEF CreateUser, AccountInv, Working, AccountShape
  <2>2. UserRow(e) /\ e.email = signup[c.k].email
    BY DEF UserRow, NewUser
  <2> HIDE DEF e
  <2>3. PICK S : user \in Seq(S)
    BY DEF AccountInv, AccountShape
  <2>4. user \in Seq(S \cup {e}) /\ user' \in Seq(S \cup {e})
    BY <1>2, <2>3
  <2>5. PICK n : /\ n = Len(user') /\ DOMAIN user' = DOMAIN user \cup {n} /\ n \notin DOMAIN user /\ n # 0
                 /\ user'[n] = e /\ \A u \in DOMAIN user : user'[u] = user[u]
    BY <1>2, <2>4
  <2>6. UsersGrow
    BY <2>2, <2>4, <2>5 DEF UsersGrow, AccountInv, AccountShape
  <2>7. PICK r : /\ DOMAIN admin' = Admins /\ admin'[a] = r /\ \A b \in Admins \ {a} : admin'[b] = admin[b]
                 /\ r.stage = "grant" /\ r.k = c.k /\ r.u = n /\ CallRow(r)
    <3>1. [stage |-> "grant", k |-> c.k, name |-> c.name, role |-> c.role, u |-> n, copy |-> c.copy]
             = [c EXCEPT !.u = n, !.stage = "grant"]
      BY <2>1, CallWithUser
    <3> QED BY <1>2, <2>5, <3>1 DEF AccountInv, AccountShape, CallRow
  <2>8. AccountShape'
    BY <2>1, <2>6, <2>7 DEF AccountInv, AccountShape, UsersGrow
  <2>9. \A k \in DOMAIN signup : signup[k].user # n
    BY <2>5 DEF AccountInv, Named
  <2>10. \A b \in Admins : admin[b].stage \in Unnamed => admin[b].u # n
    BY <2>5 DEF AccountInv, Working
  <2>11. Working'
    BY <2>1, <2>2, <2>5, <2>6, <2>7, <2>9, <2>10 DEF AccountInv, Working, UsersGrow, Unnamed
  <2> QED BY <2>1, <2>6, <2>8, <2>11, NamedKept DEF AccountInv
<1> QED BY <1>1, <1>2 DEF CreateUser

LEMMA GrantStep ==
    ASSUME AccountInv, NEW a \in Admins, GrantRole(a)
    PROVE  AccountInv'
<1> DEFINE c == admin[a]
           e == [user[c.u] EXCEPT !.roles = Granted(c.u, c.role)]
           r == [c EXCEPT !.stage = "approved"]
<1>1. /\ c.stage = "grant" /\ user' = [user EXCEPT ![c.u] = e] /\ admin' = [admin EXCEPT ![a] = r]
      /\ UNCHANGED signup
  BY DEF GrantRole, ToStage
<1>2. c.u \in DOMAIN user /\ CallRow(c)
  BY <1>1 DEF AccountInv, Working, AccountShape, Unnamed
<1>3. UserRow(user[c.u])
  BY <1>2 DEF AccountInv, AccountShape
<1>4. UserRow(e) /\ e.email = user[c.u].email /\ e.roles = user[c.u].roles \cup ({c.role} \ {NoRole})
  <2> DEFINE g == Granted(c.u, c.role)
  <2>1. g = user[c.u].roles \cup ({c.role} \ {NoRole})
    BY DEF Granted
  <2> HIDE DEF g
  <2>2. UserRow([user[c.u] EXCEPT !.roles = g]) /\ [user[c.u] EXCEPT !.roles = g].email = user[c.u].email
        /\ [user[c.u] EXCEPT !.roles = g].roles = g
    BY <1>3 DEF UserRow
  <2> QED BY <2>1, <2>2 DEF g
<1>5. CallRow(r) /\ r.stage = "approved" /\ r.k = c.k /\ r.u = c.u /\ r.role = c.role
  BY <1>2 DEF CallRow
<1> HIDE DEF e, r
<1>6. UsersGrow
  BY <1>1, <1>2, <1>4, UserSaved
<1>7. /\ DOMAIN admin' = Admins /\ admin'[a] = r /\ \A b \in Admins \ {a} : admin'[b] = admin[b]
      /\ user'[c.u] = e
  BY <1>1, <1>2 DEF AccountInv, AccountShape
<1>8. AccountShape'
  BY <1>1, <1>5, <1>6, <1>7 DEF AccountInv, AccountShape, UsersGrow
<1>9. {r.role} \ {NoRole} \subseteq user'[r.u].roles
  BY <1>4, <1>5, <1>7
<1>10. Working'
  BY <1>1, <1>5, <1>6, <1>7, <1>9 DEF AccountInv, Working, UsersGrow, Unnamed
<1> QED BY <1>1, <1>6, <1>8, <1>10, NamedKept DEF AccountInv

\* An approval names the user that its own call created.
LEMMA DecisionStep ==
    ASSUME AccountInv, NEW a \in Admins, SaveSignup(a)
    PROVE  AccountInv'
<1> DEFINE c == admin[a]
           s == [signup[c.k] EXCEPT !.status = c.stage,
                                    !.user = IF c.stage = "approved" THEN c.u ELSE @,
                                    !.role = IF c.stage = "approved" THEN c.role ELSE @]
<1>1. c.stage \in {"approved", "rejected"} /\ UNCHANGED user
  BY DEF SaveSignup
<1>2. c.k \in DOMAIN signup /\ CallRow(c)
  BY <1>1 DEF AccountInv, Working, AccountShape, Unnamed
<1>3. SignupRow(signup[c.k])
  BY <1>2 DEF AccountInv, AccountShape
<1>4. signup' = [signup EXCEPT ![c.k] = s]
  BY DEF SaveSignup
<1>5. /\ SignupRow(s) /\ s.email = signup[c.k].email /\ s.status = c.stage
      /\ s.user = IF c.stage = "approved" THEN c.u ELSE signup[c.k].user
      /\ s.role = IF c.stage = "approved" THEN c.role ELSE signup[c.k].role
  <2> DEFINE u == IF c.stage = "approved" THEN c.u ELSE signup[c.k].user
             o == IF c.stage = "approved" THEN c.role ELSE signup[c.k].role
  <2>1. s = [signup[c.k] EXCEPT !.status = c.stage, !.user = u, !.role = o]
    OBVIOUS
  <2> HIDE DEF u, o, s
  <2>2. s = [email |-> signup[c.k].email, status |-> c.stage, user |-> u, role |-> o]
    BY <1>3, <2>1, SignupDecided
  <2>3. SignupRow(s) /\ s.email = signup[c.k].email /\ s.status = c.stage /\ s.user = u /\ s.role = o
    BY <2>2 DEF SignupRow
  <2> QED BY <2>3 DEF u, o
<1> HIDE DEF s
<1>6. /\ DOMAIN signup' = DOMAIN signup /\ signup'[c.k] = s
      /\ \A m \in DOMAIN signup \ {c.k} : signup'[m] = signup[m]
  BY <1>2, <1>4
<1>7. PICK r : /\ DOMAIN admin' = Admins /\ admin'[a] = r /\ \A b \in Admins \ {a} : admin'[b] = admin[b]
               /\ r.stage \in {"mail", "idle"} /\ CallRow(r)
  <2>1. CASE c.stage = "approved"
    <3> DEFINE r == [c EXCEPT !.stage = "mail"]
    <3>1. CallRow(r) /\ r.stage = "mail"
      BY <1>2 DEF CallRow
    <3>2. admin' = [admin EXCEPT ![a] = r]
      BY <2>1 DEF SaveSignup, ToStage
    <3> HIDE DEF r
    <3> QED BY <3>1, <3>2 DEF AccountInv, AccountShape
  <2>2. CASE c.stage = "rejected"
    <3>1. CallRow(NoAdminCall) /\ NoAdminCall.stage = "idle"
      BY DEF NoAdminCall, CallRow
    <3>2. admin' = [admin EXCEPT ![a] = NoAdminCall]
      BY <2>2 DEF SaveSignup, End
    <3> QED BY <3>1, <3>2 DEF AccountInv, AccountShape
  <2> QED BY <1>1, <2>1, <2>2
<1>8. AccountShape'
  <2>1. PICK S : signup \in Seq(S)
    BY DEF AccountInv, AccountShape
  <2>2. signup' \in Seq(S \cup {s})
    BY <1>2, <1>4, <2>1
  <2> QED BY <1>1, <1>5, <1>6, <1>7, <2>2 DEF AccountInv, AccountShape
<1>9. \A b \in Admins \ {a} : admin[b].stage \in Unnamed => s.user # admin[b].u
  <2>1. CASE c.stage = "approved"
    BY <1>5, <2>1 DEF AccountInv, Working, Unnamed
  <2>2. CASE c.stage = "rejected"
    BY <1>2, <1>5, <2>2 DEF AccountInv, Working
  <2> QED BY <1>1, <2>1, <2>2
<1>10. Working'
  BY <1>1, <1>5, <1>6, <1>7, <1>9 DEF AccountInv, Working, Unnamed
<1>11. Named'
  BY <1>1, <1>5, <1>6 DEF AccountInv, Named, Working, Unnamed
<1>12. ApprovedAccountsWhole'
  <2>1. CASE c.stage = "approved"
    <3>1. /\ c.u \in DOMAIN user /\ user[c.u].email = signup[c.k].email
          /\ \A k \in DOMAIN signup : signup[k].user # c.u
          /\ {c.role} \ {NoRole} \subseteq user[c.u].roles /\ c.u # 0
      BY <2>1 DEF AccountInv, Working, Unnamed, AccountShape
    <3> QED BY <1>1, <1>5, <1>6, <2>1, <3>1 DEF AccountInv, ApprovedAccountsWhole
  <2>2. CASE c.stage = "rejected"
    BY <1>1, <1>5, <1>6, <2>2 DEF AccountInv, ApprovedAccountsWhole
  <2> QED BY <1>1, <2>1, <2>2
<1> QED BY <1>8, <1>10, <1>11, <1>12 DEF AccountInv

\* Columns of an account other than its address and roles.
LEMMA AccountStep ==
    ASSUME AccountInv, NEW u \in DOMAIN user,
           \/ \E p : user' = [user EXCEPT ![u].password = p]
           \/ \E p : user' = [user EXCEPT ![u].login = p]
           \/ \E p : user' = [user EXCEPT ![u].active = p]
    PROVE  UsersGrow
<1>1. UserRow(user[u])
  BY DEF AccountInv, AccountShape
<1>2. CASE \E p : user' = [user EXCEPT ![u].password = p]
  <2>1. PICK p : user' = [user EXCEPT ![u] = [user[u] EXCEPT !.password = p]]
    BY <1>2
  <2> DEFINE e == [user[u] EXCEPT !.password = p]
  <2>2. UserRow(e) /\ e.email = user[u].email /\ e.roles = user[u].roles
    BY <1>1 DEF UserRow
  <2> HIDE DEF e
  <2> QED BY <2>1, <2>2, UserSaved DEF e
<1>3. CASE \E p : user' = [user EXCEPT ![u].login = p]
  <2>1. PICK p : user' = [user EXCEPT ![u] = [user[u] EXCEPT !.login = p]]
    BY <1>3
  <2> DEFINE e == [user[u] EXCEPT !.login = p]
  <2>2. UserRow(e) /\ e.email = user[u].email /\ e.roles = user[u].roles
    BY <1>1 DEF UserRow
  <2> QED BY <2>1, <2>2, UserSaved
<1>4. CASE \E p : user' = [user EXCEPT ![u].active = p]
  <2>1. PICK p : user' = [user EXCEPT ![u] = [user[u] EXCEPT !.active = p]]
    BY <1>4
  <2> DEFINE e == [user[u] EXCEPT !.active = p]
  <2>2. UserRow(e) /\ e.email = user[u].email /\ e.roles = user[u].roles
    BY <1>1 DEF UserRow
  <2> QED BY <2>1, <2>2, UserSaved
<1> QED BY <1>2, <1>3, <1>4

LEMMA ActiveStep ==
    ASSUME AccountInv, NEW a \in Admins, SaveActive(a)
    PROVE  AccountInv'
<1> DEFINE c == admin[a]
<1>1. /\ c.stage \in {"deactivate", "activate"} /\ UNCHANGED signup
      /\ \E p : user' = [user EXCEPT ![c.u].active = p]
  BY DEF SaveActive
<1>2. c.u \in DOMAIN user /\ CallRow(c)
  BY <1>1 DEF AccountInv, Working, AccountShape
<1>3. UsersGrow
  BY <1>1, <1>2, AccountStep
<1>4. CASE End(a)
  BY <1>1, <1>3, <1>4, CallEnded
<1>5. CASE ToStage(a, "devices")
  <2> DEFINE r == [c EXCEPT !.stage = "devices"]
  <2>1. CallRow(r) /\ r.stage = "devices" /\ admin' = [admin EXCEPT ![a] = r]
    BY <1>2, <1>5 DEF CallRow, ToStage
  <2> HIDE DEF r
  <2> QED BY <1>1, <1>3, <2>1, CallMoved DEF Unnamed
<1> QED BY <1>4, <1>5 DEF SaveActive

\* The copy has the address of the account; its roles are another table.
LEMMA SaveUserStep ==
    ASSUME AccountInv, NEW a \in Admins, SaveUser(a)
    PROVE  AccountInv'
<1> DEFINE c == admin[a]
           e == [c.copy EXCEPT !.roles = user[c.u].roles]
<1>1. c.stage = "patch" /\ user' = [user EXCEPT ![c.u] = e] /\ End(a) /\ UNCHANGED signup
  BY DEF SaveUser
<1>2. c.u \in DOMAIN user /\ UserRow(c.copy) /\ c.copy.email = user[c.u].email
  BY <1>1 DEF AccountInv, Working
<1>3. UserRow(e) /\ e.email = user[c.u].email /\ e.roles = user[c.u].roles
  BY <1>2 DEF UserRow
<1> HIDE DEF e
<1>4. UsersGrow
  BY <1>1, <1>2, <1>3, UserSaved
<1> QED BY <1>1, <1>4, CallEnded

LEMMA AdminSteps == ASSUME AccountInv, NEW a \in Admins, AdminStep(a) PROVE AccountInv'
<1>1. CASE MailLink(a) \/ SwitchOffDevices(a) \/ AdminDies(a)
  <2>1. End(a) /\ UNCHANGED <<signup, user>>
    BY <1>1 DEF MailLink, SwitchOffDevices, AdminDies
  <2> QED BY <2>1, UsersSame, CallEnded
<1> QED BY <1>1, CreateStep, GrantStep, DecisionStep, ActiveStep, SaveUserStep DEF AdminStep

LEMMA AccountStepwise == ASSUME AccountInv, [AccountNext]_accountVars PROVE AccountInv'
<1>1. CASE UNCHANGED accountVars
  BY <1>1, UsersSame, CallsKept DEF accountVars
<1>2. CASE \E e \in Emails : Submit(e)
  BY <1>2, SubmitStep
<1>3. CASE \E a \in Admins, k \in DOMAIN signup :
              \/ ReadSignup(a, k, "rejected", "", NoRole)
              \/ \E n \in Names \cup {signup[k].email}, r \in Roles \cup {NoRole} :
                    ReadSignup(a, k, "create", n, r)
  <2>1. PICK a \in Admins, k \in DOMAIN signup :
              \/ ReadSignup(a, k, "rejected", "", NoRole)
              \/ \E n \in Names \cup {signup[k].email}, r \in Roles \cup {NoRole} :
                    ReadSignup(a, k, "create", n, r)
    BY <1>3
  <2>2. CASE ReadSignup(a, k, "rejected", "", NoRole)
    <3> DEFINE name == ""
    <3>1. ReadSignup(a, k, "rejected", name, NoRole)
      BY <2>2
    <3> HIDE DEF name
    <3> QED BY <3>1, AccountReadStep
  <2>3. ASSUME NEW n, NEW r, ReadSignup(a, k, "create", n, r) PROVE AccountInv'
    BY <2>3, AccountReadStep
  <2> QED BY <2>1, <2>2, <2>3
<1>4. CASE \E a \in Admins : AdminStep(a)
  BY <1>4, AdminSteps
<1>5. CASE \E a \in Admins, u \in DOMAIN user, stage \in {"deactivate", "activate", "patch"} : ReadUser(a, u, stage)
  BY <1>5, ReadUserStep
<1>6. CASE \E u \in DOMAIN user : RequestReset(u) \/ Login(u)
  <2>1. PICK u \in DOMAIN user : RequestReset(u) \/ Login(u)
    BY <1>6
  <2>2. CASE RequestReset(u)
    BY <2>2, UsersSame, CallsKept DEF RequestReset
  <2>3. CASE Login(u)
    <3>1. UsersGrow
      BY <2>3, AccountStep DEF Login
    <3> QED BY <2>3, <3>1, CallsKept DEF Login
  <2> QED BY <2>1, <2>2, <2>3
<1>7. CASE \E l \in links : SetPassword(l)
  <2>1. PICK l \in links : SetPassword(l)
    BY <1>7
  <2>2. CASE l.user \in DOMAIN user
    <3>1. UsersGrow
      BY <2>1, <2>2, AccountStep DEF SetPassword
    <3> QED BY <2>1, <3>1, CallsKept DEF SetPassword
  <2>3. CASE l.user \notin DOMAIN user
    <3>1. user' = [user EXCEPT ![l.user].password = changes'] /\ UNCHANGED <<signup, admin>>
      BY <2>1 DEF SetPassword
    <3>2. user' = user
      <4>1. PICK S : user \in Seq(S)
        BY DEF AccountInv, AccountShape
      <4>2. user = [u \in DOMAIN user |-> user[u]]
        BY <4>1
      <4> QED BY <2>3, <3>1, <4>2
    <3> QED BY <3>1, <3>2, UsersSame, CallsKept
  <2> QED BY <2>2, <2>3
<1> QED BY <1>1, <1>2, <1>3, <1>4, <1>5, <1>6, <1>7 DEF AccountNext

\* A request that names the account made for it names a whole one, and nobody
\* else's (approve and reject of SignupRequestViewSet, against every other call that
\* saves a user).
THEOREM AccountsWhole == AccountSpec => []ApprovedAccountsWhole
<1>1. AccountInit => AccountInv
  BY AccountInitially
<1>2. AccountInv /\ [AccountNext]_accountVars => AccountInv'
  BY AccountStepwise
<1>3. AccountInv => ApprovedAccountsWhole
  BY DEF AccountInv
<1> QED BY <1>1, <1>2, <1>3, PTL DEF AccountSpec

-----------------------------------------------------------------------------
(* ChangeRequests: governed settings *)

ChangeRow(r) == r = [target |-> r.target, changes |-> r.changes, status |-> r.status,
                     by |-> r.by, reviewer |-> r.reviewer]
ReviewRow(r) == r = [stage |-> r.stage, of |-> r.of, by |-> r.by, copy |-> r.copy]

ReviewShape ==
    /\ DOMAIN value = Targets
    /\ \A t \in Targets : value[t] = [f \in Governed[KindOf[t]] |-> value[t][f]]
    /\ \E S : change \in Seq(S)
    /\ \A k \in DOMAIN change : ChangeRow(change[k]) /\ change[k].target \in Targets
    /\ applied \in Seq(Nat) /\ \A i \in DOMAIN applied : applied[i] \in DOMAIN change
    /\ DOMAIN review = Reviewers /\ \A w \in Reviewers : ReviewRow(review[w])

\* A review under way is of a request; past its apply step, of one that was applied.
Reviewing ==
    \A w \in Reviewers :
        /\ review[w].stage # "idle" => review[w].of \in DOMAIN change
        /\ review[w].stage = "approved" => \E i \in DOMAIN applied : applied[i] = review[w].of

ReviewInv == ReviewShape /\ Reviewing /\ ApprovedChangesStand

LEMMA ReviewInitially == ReviewInit => ReviewInv
<1> SUFFICES ASSUME ReviewInit PROVE ReviewInv
  OBVIOUS
<1>1. /\ change = <<>> /\ applied = <<>>
      /\ change \in Seq({}) /\ applied \in Seq(Nat) /\ DOMAIN change = {} /\ DOMAIN applied = {}
  BY DEF ReviewInit
<1>2. DOMAIN value = Targets /\ \A t \in Targets : value[t] = Seeded(t)
  BY DEF ReviewInit
<1>3. \A t \in Targets : Seeded(t) = [f \in Governed[KindOf[t]] |-> Seeded(t)[f]]
  BY DEF Seeded
<1>4. DOMAIN review = Reviewers /\ \A w \in Reviewers : review[w] = NoReview
  BY DEF ReviewInit
<1>5. ReviewShape
  BY <1>1, <1>2, <1>3, <1>4 DEF ReviewShape, ReviewRow, NoReview
<1>6. Reviewing
  BY <1>4 DEF Reviewing, NoReview
<1>7. ApprovedChangesStand
  BY <1>1, <1>2 DEF ApprovedChangesStand
<1> QED BY <1>5, <1>6, <1>7 DEF ReviewInv

LEMMA ReviewFields ==
    ASSUME NEW r, ReviewRow(r), NEW x, NEW y
    PROVE  [r EXCEPT !.stage = x, !.copy = y] = [stage |-> x, of |-> r.of, by |-> r.by, copy |-> y]
<1>1. [r EXCEPT !.stage = x] = [stage |-> x, of |-> r.of, by |-> r.by, copy |-> r.copy]
  BY DEF ReviewRow
<1> DEFINE c == [r EXCEPT !.stage = x]
<1>2. [r EXCEPT !.stage = x, !.copy = y] = [c EXCEPT !.copy = y]
  OBVIOUS
<1> HIDE DEF c
<1>3. c = [stage |-> x, of |-> r.of, by |-> r.by, copy |-> r.copy]
  BY <1>1 DEF c
<1> QED BY <1>2, <1>3

LEMMA ChangeFields ==
    ASSUME NEW r, ChangeRow(r), NEW x, NEW y
    PROVE  [r EXCEPT !.status = x, !.reviewer = y]
              = [target |-> r.target, changes |-> r.changes, status |-> x, by |-> r.by, reviewer |-> y]
<1>1. [r EXCEPT !.status = x] = [target |-> r.target, changes |-> r.changes, status |-> x,
                                 by |-> r.by, reviewer |-> r.reviewer]
  BY DEF ChangeRow
<1> DEFINE c == [r EXCEPT !.status = x]
<1>2. [r EXCEPT !.status = x, !.reviewer = y] = [c EXCEPT !.reviewer = y]
  OBVIOUS
<1> HIDE DEF c
<1>3. c = [target |-> r.target, changes |-> r.changes, status |-> x, by |-> r.by, reviewer |-> r.reviewer]
  BY <1>1 DEF c
<1> QED BY <1>2, <1>3

\* While nothing is applied, requests may come and be decided.
LEMMA ChangesKept ==
    ASSUME ReviewInv, UNCHANGED <<value, applied>>, DOMAIN change \subseteq DOMAIN change',
           \A k \in DOMAIN change : /\ change'[k].target = change[k].target
                                    /\ change'[k].changes = change[k].changes,
           \A k \in DOMAIN change' : change'[k].status = "approved" =>
                                        \E i \in DOMAIN applied : applied[i] = k
    PROVE  ApprovedChangesStand'
<1>1. \A i \in DOMAIN applied : applied[i] \in DOMAIN change
  BY DEF ReviewInv, ReviewShape
<1>2. ASSUME NEW t \in Targets, NEW f, NEW i \in DOMAIN applied
      PROVE  Sets(i, t, f)' <=> Sets(i, t, f)
  BY <1>1, <1>2 DEF Sets
<1>3. ASSUME NEW t \in Targets, NEW f \in DOMAIN value[t]
      PROVE  \/ /\ \A i \in DOMAIN applied' : ~Sets(i, t, f)'
                /\ value'[t][f] = Seeded(t)[f]
             \/ \E i \in DOMAIN applied' :
                   /\ Sets(i, t, f)'
                   /\ \A j \in DOMAIN applied' : j > i => ~Sets(j, t, f)'
                   /\ value'[t][f] = change'[applied'[i]].changes[f]
  <2>1. CASE (\A i \in DOMAIN applied : ~Sets(i, t, f)) /\ value[t][f] = Seeded(t)[f]
    BY <2>1, <1>2
  <2>2. CASE \E i \in DOMAIN applied : /\ Sets(i, t, f)
                                       /\ \A j \in DOMAIN applied : j > i => ~Sets(j, t, f)
                                       /\ value[t][f] = change[applied[i]].changes[f]
    BY <2>2, <1>1, <1>2
  <2> QED BY <2>1, <2>2 DEF ReviewInv, ApprovedChangesStand
<1> QED BY <1>3 DEF ApprovedChangesStand, Seeded

LEMMA ProposeStep ==
    ASSUME ReviewInv, NEW u \in Users, NEW p \in Proposals, Propose(u, p)
    PROVE  ReviewInv'
<1> DEFINE r == [target |-> p.target, changes |-> p.changes, status |-> "pending", by |-> u, reviewer |-> NoUser]
<1>1. change' = Append(change, r) /\ UNCHANGED <<value, review, applied>>
  BY DEF Propose
<1>2. ChangeRow(r) /\ r.target \in Targets /\ r.status = "pending"
  BY ProposalsName DEF ChangeRow
<1> HIDE DEF r
<1>3. PICK S : change \in Seq(S)
  BY DEF ReviewInv, ReviewShape
<1>4. change \in Seq(S \cup {r}) /\ change' \in Seq(S \cup {r})
  BY <1>1, <1>3
<1>5. PICK n : /\ DOMAIN change' = DOMAIN change \cup {n} /\ n \notin DOMAIN change /\ change'[n] = r
               /\ \A k \in DOMAIN change : change'[k] = change[k]
  BY <1>1, <1>4
<1>6. ReviewShape'
  BY <1>1, <1>2, <1>4, <1>5 DEF ReviewInv, ReviewShape
<1>7. Reviewing'
  BY <1>1, <1>5 DEF ReviewInv, Reviewing
<1>8. ApprovedChangesStand'
  <2>1. \A k \in DOMAIN change' : change'[k].status = "approved" =>
                                     \E i \in DOMAIN applied : applied[i] = k
    BY <1>2, <1>5 DEF ReviewInv, ApprovedChangesStand
  <2> QED BY <2>1, <1>1, <1>5, ChangesKept
<1> QED BY <1>6, <1>7, <1>8 DEF ReviewInv

\* Steps of one review that only move it on.
LEMMA ReviewMoved ==
    ASSUME ReviewInv, NEW w \in Reviewers, NEW r, review' = [review EXCEPT ![w] = r],
           ReviewRow(r), UNCHANGED <<value, change, applied>>,
           r.stage # "idle" => r.of \in DOMAIN change,
           r.stage = "approved" => \E i \in DOMAIN applied : applied[i] = r.of
    PROVE  ReviewInv'
<1>1. /\ DOMAIN review' = Reviewers /\ review'[w] = r
      /\ \A v \in Reviewers \ {w} : review'[v] = review[v]
  BY DEF ReviewInv, ReviewShape
<1>2. ReviewShape'
  BY <1>1 DEF ReviewInv, ReviewShape
<1>3. Reviewing'
  BY <1>1 DEF ReviewInv, Reviewing
<1>4. ApprovedChangesStand'
  BY ChangesKept DEF ReviewInv, ApprovedChangesStand
<1> QED BY <1>2, <1>3, <1>4 DEF ReviewInv

LEMMA ReadStep ==
    ASSUME ReviewInv, NEW w \in Reviewers, NEW u \in Users, NEW k \in DOMAIN change,
           NEW stage \in {"approve", "rejected"}, ReadChange(w, u, k, stage)
    PROVE  ReviewInv'
<1> DEFINE r == [stage |-> stage, of |-> k, by |-> u, copy |-> <<>>]
<1>1. review' = [review EXCEPT ![w] = r] /\ UNCHANGED <<value, change, applied>>
  BY DEF ReadChange
<1>2. ReviewRow(r) /\ r.of \in DOMAIN change /\ r.stage # "approved"
  BY DEF ReviewRow
<1> HIDE DEF r
<1> QED BY <1>1, <1>2, ReviewMoved

LEMMA ReadTargetStep ==
    ASSUME ReviewInv, NEW w \in Reviewers, ReadTarget(w)
    PROVE  ReviewInv'
<1> DEFINE c == value[change[review[w].of].target]
           r == [stage |-> "apply", of |-> review[w].of, by |-> review[w].by, copy |-> c]
<1>1. ReviewRow(review[w]) /\ review[w].stage = "approve" /\ UNCHANGED <<value, change, applied>>
  BY DEF ReadTarget, ReviewInv, ReviewShape
<1>2. [review[w] EXCEPT !.stage = "apply", !.copy = c] = r
  BY <1>1, ReviewFields
<1>3. review' = [review EXCEPT ![w] = [review[w] EXCEPT !.stage = "apply", !.copy = c]]
  BY DEF ReadTarget, ReviewInv, ReviewShape
<1>4. ReviewRow(r) /\ r.of \in DOMAIN change /\ r.stage # "approved"
  BY <1>1 DEF ReviewRow, ReviewInv, Reviewing
<1> HIDE DEF r
<1> QED BY <1>1, <1>2, <1>3, <1>4, ReviewMoved

LEMMA SaveReviewStep ==
    ASSUME ReviewInv, NEW w \in Reviewers, SaveReview(w)
    PROVE  ReviewInv'
<1> DEFINE k == review[w].of
           c == change[k]
           r == [target |-> c.target, changes |-> c.changes, status |-> review[w].stage,
                 by |-> c.by, reviewer |-> review[w].by]
<1>1. /\ review[w].stage \in {"approved", "rejected"} /\ k \in DOMAIN change
      /\ ChangeRow(c) /\ c.target \in Targets /\ UNCHANGED <<value, applied>>
  BY DEF SaveReview, ReviewInv, ReviewShape, Reviewing
<1>2. [c EXCEPT !.status = review[w].stage, !.reviewer = review[w].by] = r
  BY <1>1, ChangeFields
<1>3. PICK S : change \in Seq(S)
  BY DEF ReviewInv, ReviewShape
<1>4. change' = [change EXCEPT ![k] = r]
  <2>1. change' = [change EXCEPT ![k] = [c EXCEPT !.status = review[w].stage, !.reviewer = review[w].by]]
    BY <1>1, <1>3 DEF SaveReview
  <2> QED BY <2>1, <1>2
<1>5. ChangeRow(r) /\ r.target = c.target /\ r.changes = c.changes /\ r.status = review[w].stage
  BY DEF ChangeRow
<1> HIDE DEF r
<1>6. change \in Seq(S \cup {r}) /\ change' \in Seq(S \cup {r})
  BY <1>1, <1>3, <1>4
<1>7. /\ DOMAIN change' = DOMAIN change /\ change'[k] = r
      /\ \A j \in DOMAIN change \ {k} : change'[j] = change[j]
  BY <1>1, <1>3, <1>4
<1>8. review' = [review EXCEPT ![w] = NoReview]
  BY DEF SaveReview
<1>9. /\ DOMAIN review' = Reviewers /\ review'[w] = NoReview
      /\ \A v \in Reviewers \ {w} : review'[v] = review[v]
  BY <1>8 DEF ReviewInv, ReviewShape
<1>10. ReviewShape'
  <2>1. \A v \in Reviewers : ReviewRow(review'[v])
    BY <1>9 DEF ReviewInv, ReviewShape, ReviewRow, NoReview
  <2>2. \A j \in DOMAIN change' : ChangeRow(change'[j]) /\ change'[j].target \in Targets
    BY <1>1, <1>5, <1>7 DEF ReviewInv, ReviewShape
  <2> QED BY <2>1, <2>2, <1>1, <1>6, <1>7, <1>9 DEF ReviewInv, ReviewShape
<1>11. Reviewing'
  BY <1>1, <1>7, <1>9 DEF ReviewInv, Reviewing, NoReview
<1>12. ApprovedChangesStand'
  <2>1. \A j \in DOMAIN change' : change'[j].status = "approved" =>
                                     \E i \in DOMAIN applied : applied[i] = j
    BY <1>1, <1>5, <1>7 DEF ReviewInv, ApprovedChangesStand, Reviewing
  <2> QED BY <2>1, <1>1, <1>5, <1>7, ChangesKept
<1> QED BY <1>10, <1>11, <1>12 DEF ReviewInv

\* The fields named by the change applied have its values, the others theirs.
LEMMA ApplyStep ==
    ASSUME ReviewInv, NEW w \in Reviewers, ApplyChange(w)
    PROVE  ReviewInv'
<1> DEFINE k == review[w].of
           s == change[k].target
           d == change[k].changes
           v == [f \in DOMAIN value[s] |-> IF f \in DOMAIN d THEN d[f] ELSE value[s][f]]
           r == [stage |-> "approved", of |-> k, by |-> review[w].by, copy |-> <<>>]
<1>1. /\ review[w].stage = "apply" /\ k \in DOMAIN change /\ k \in Nat /\ s \in Targets
      /\ ReviewRow(review[w]) /\ UNCHANGED change
  BY DEF ApplyChange, ReviewInv, ReviewShape, Reviewing
<1>2. value' = [value EXCEPT ![s] = v]
  BY DEF ApplyChange, SaveFields, ReviewInv, ReviewShape
<1>3. PICK n \in Nat :
      /\ applied' \in Seq(Nat) /\ DOMAIN applied' = DOMAIN applied \cup {n} /\ applied'[n] = k
      /\ \A i \in DOMAIN applied : applied'[i] = applied[i] /\ i < n /\ i \in Nat
  <2>1. applied \in Seq(Nat) /\ applied' = Append(applied, k)
    BY DEF ApplyChange, ReviewInv, ReviewShape
  <2>2. /\ applied' \in Seq(Nat) /\ DOMAIN applied' = 1..(Len(applied) + 1) /\ DOMAIN applied = 1..Len(applied)
        /\ applied'[Len(applied) + 1] = k /\ \A i \in DOMAIN applied : applied'[i] = applied[i]
        /\ Len(applied) \in Nat
    BY <2>1, <1>1
  <2> QED BY <2>2
<1>4. review' = [review EXCEPT ![w] = r]
  <2>1. review' = [review EXCEPT ![w] = [review[w] EXCEPT !.stage = "approved", !.copy = <<>>]]
    BY DEF ApplyChange, ReviewInv, ReviewShape
  <2>2. [review[w] EXCEPT !.stage = "approved", !.copy = <<>>] = r
    BY <1>1, ReviewFields
  <2> QED BY <2>1, <2>2
<1>5. ReviewRow(r) /\ r.of = k /\ r.stage = "approved"
  BY DEF ReviewRow
<1> HIDE DEF r
<1>6. /\ DOMAIN review' = Reviewers /\ review'[w] = r
      /\ \A x \in Reviewers \ {w} : review'[x] = review[x]
  BY <1>4 DEF ReviewInv, ReviewShape
<1>7. /\ DOMAIN value' = Targets /\ value'[s] = v
      /\ \A t \in Targets \ {s} : value'[t] = value[t]
      /\ \A t \in Targets : DOMAIN value'[t] = DOMAIN value[t]
  BY <1>1, <1>2 DEF ReviewInv, ReviewShape
<1>8. ReviewShape'
  <2>1. \A t \in Targets : value'[t] = [f \in Governed[KindOf[t]] |-> value'[t][f]]
    BY <1>1, <1>7 DEF ReviewInv, ReviewShape
  <2> QED BY <2>1, <1>1, <1>3, <1>5, <1>6, <1>7 DEF ReviewInv, ReviewShape
<1>9. Reviewing'
  BY <1>1, <1>3, <1>5, <1>6 DEF ReviewInv, Reviewing
<1>10. ApprovedChangesStand'
  <2>1. \A j \in DOMAIN change' : change'[j].status = "approved" =>
                                     \E i \in DOMAIN applied' : applied'[i] = j
    BY <1>1, <1>3 DEF ReviewInv, ApprovedChangesStand
  <2>2. \A t \in Targets : \A f : \A i \in DOMAIN applied : Sets(i, t, f)' <=> Sets(i, t, f)
    BY <1>1, <1>3 DEF Sets
  <2>3. \A t \in Targets : \A f : Sets(n, t, f)' <=> s = t /\ f \in DOMAIN d
    BY <1>1, <1>3 DEF Sets
  <2>4. ASSUME NEW t \in Targets, NEW f \in DOMAIN value'[t]
        PROVE  \/ /\ \A i \in DOMAIN applied' : ~Sets(i, t, f)'
                  /\ value'[t][f] = Seeded(t)[f]
               \/ \E i \in DOMAIN applied' :
                     /\ Sets(i, t, f)'
                     /\ \A j \in DOMAIN applied' : j > i => ~Sets(j, t, f)'
                     /\ value'[t][f] = change'[applied'[i]].changes[f]
    <3>1. f \in DOMAIN value[t]
      BY <2>4, <1>7
    <3>2. CASE s = t /\ f \in DOMAIN d
      <4>1. value'[t][f] = d[f]
        BY <3>1, <3>2, <1>7
      <4>2. Sets(n, t, f)' /\ n \in DOMAIN applied' /\ \A j \in DOMAIN applied' : ~(j > n)
        BY <3>2, <2>3, <1>3
      <4> QED BY <4>1, <4>2, <1>1, <1>3
    <3>3. CASE ~(s = t /\ f \in DOMAIN d)
      <4>1. value'[t][f] = value[t][f]
        BY <3>1, <3>3, <1>7
      <4>2. ~Sets(n, t, f)'
        BY <3>3, <2>3
      <4>3. CASE (\A i \in DOMAIN applied : ~Sets(i, t, f)) /\ value[t][f] = Seeded(t)[f]
        BY <4>1, <4>2, <4>3, <2>2, <1>3
      <4>4. CASE \E i \in DOMAIN applied : /\ Sets(i, t, f)
                                           /\ \A j \in DOMAIN applied : j > i => ~Sets(j, t, f)
                                           /\ value[t][f] = change[applied[i]].changes[f]
        BY <4>1, <4>2, <4>4, <2>2, <1>1, <1>3
      <4> QED BY <4>3, <4>4, <3>1 DEF ReviewInv, ApprovedChangesStand
    <3> QED BY <3>2, <3>3
  <2> QED BY <2>1, <2>4 DEF ApprovedChangesStand, Seeded
<1> QED BY <1>8, <1>9, <1>10 DEF ReviewInv

LEMMA ReviewStepwise == ASSUME ReviewInv, [ReviewNext]_changeVars PROVE ReviewInv'
<1>1. CASE \E u \in Users, p \in Proposals : Propose(u, p)
  BY <1>1, ProposeStep
<1>2. CASE \E w \in Reviewers, u \in Users, k \in DOMAIN change :
              ReadToApprove(w, u, k) \/ ReadToReject(w, u, k)
  BY <1>2, ReadStep DEF ReadToApprove, ReadToReject
<1>3. CASE \E w \in Reviewers : ReadTarget(w) \/ ApplyChange(w) \/ SaveReview(w)
  BY <1>3, ReadTargetStep, ApplyStep, SaveReviewStep
<1>4. CASE \E w \in Reviewers : ReviewDies(w)
  <2>1. ReviewRow(NoReview) /\ NoReview.stage = "idle"
    BY DEF ReviewRow, NoReview
  <2> QED BY <1>4, <2>1, ReviewMoved DEF ReviewDies
<1>5. CASE UNCHANGED changeVars
  <2>1. UNCHANGED <<value, change, review, applied>>
    BY <1>5 DEF changeVars
  <2>2. ApprovedChangesStand'
    BY <2>1, ChangesKept DEF ReviewInv, ApprovedChangesStand
  <2> QED BY <2>1, <2>2 DEF ReviewInv, ReviewShape, Reviewing
<1> QED BY <1>1, <1>2, <1>3, <1>4, <1>5 DEF ReviewNext

\* What a review marked approved was carried out and no other undoes it, for any
\* users, targets, proposals and overlapping reviews (approve() and the registered
\* handlers of core/governance.py).
THEOREM ApprovalsStand == ReviewSpec => []ApprovedChangesStand
<1>1. ReviewInit => ReviewInv
  BY ReviewInitially
<1>2. ReviewInv /\ [ReviewNext]_changeVars => ReviewInv'
  BY ReviewStepwise
<1>3. ReviewInv => ApprovedChangesStand
  BY DEF ReviewInv
<1> QED BY <1>1, <1>2, <1>3, PTL DEF ReviewSpec

-----------------------------------------------------------------------------
(* Tenancy: a database per tenant *)

Shape ==
    /\ \E S : tenant \in Seq(S)
    /\ DOMAIN database = Databases /\ DOMAIN provision = Workers /\ DOMAIN serving = Workers
    /\ registered \in [Workers -> [Slugs -> Databases \cup {NoDatabase}]]
    /\ typed \subseteq Databases
    /\ \A k \in DOMAIN tenant :
          /\ tenant[k] = [slug |-> tenant[k].slug, db |-> tenant[k].db, active |-> tenant[k].active, live |-> tenant[k].live]
          /\ tenant[k].slug \in Slugs /\ tenant[k].db \in Databases
    /\ \A w \in Workers :
          /\ provision[w] = [stage |-> provision[w].stage, slug |-> provision[w].slug, db |-> provision[w].db]
          /\ provision[w].stage # "idle" => provision[w].slug \in Slugs /\ provision[w].db \in Databases \cup {NoDatabase}
          /\ provision[w].stage \in {"create", "save", "activate"} => provision[w].db \in Databases

\* Everything a row has and had is on record.
Recorded ==
    /\ \A x \in known : x[1] \in Slugs /\ x[2] \in DOMAIN tenant /\ x[3] \in Databases
    /\ \A k \in DOMAIN tenant : <<tenant[k].slug, k, tenant[k].db>> \in known

\* A database nobody typed in belongs to one row, which had no other unless one was
\* typed in for it, or to the one call that created it.
Owned ==
    /\ \A x \in known : x[3] \notin typed =>
          /\ database[x[3]] # "absent"
          /\ \A y \in known : y[3] = x[3] => y[2] = x[2]
    /\ \A x \in known : x[3] = tenant[x[2]].db \/ tenant[x[2]].db \in typed
    /\ \A w \in Workers : provision[w].stage = "save" =>
          /\ database[provision[w].db] # "absent"
          /\ provision[w].db \notin typed => \A x \in known : x[3] # provision[w].db
          /\ \A v \in Workers \ {w} : provision[v].stage = "save" => provision[v].db # provision[w].db

\* Some row had the slug and the database together.
Belongs(K, s, d) == \E x \in K : x[1] = s /\ x[3] = d

\* What calls, aliases and requests remember is what a row once had.
MapsRemembered ==
    /\ \A w \in Workers : provision[w].stage = "activate" => Belongs(known, provision[w].slug, provision[w].db)
    /\ \A w \in Workers, s \in Slugs : registered[w][s] # NoDatabase => Belongs(known, s, registered[w][s])
    /\ \A w \in Workers : serving[w] # NotServing =>
          /\ serving[w].alias \in Slugs
          /\ <<serving[w].alias, serving[w].row, serving[w].db>> \in known
    /\ \A x \in servedBy : \E z \in known : z[2] = x[1] /\ Belongs(known, z[1], x[2])

RoutingInv == Shape /\ Recorded /\ Owned /\ MapsRemembered

LEMMA NoCallIdle == NoProvision = [stage |-> "idle", slug |-> NoProvision.slug, db |-> NoProvision.db]
BY DEF NoProvision

LEMMA Implied == ASSUME RoutingInv PROVE TenantsApart
<1> SUFFICES ASSUME NEW k \in DOMAIN tenant, Ordinary(k)
             PROVE  /\ database[tenant[k].db] # "absent"
                    /\ \A m \in DOMAIN tenant : tenant[m].db = tenant[k].db => m = k
                    /\ \A x \in servedBy : x[1] = k <=> x[2] = tenant[k].db
  BY DEF TenantsApart
<1> DEFINE own == <<tenant[k].slug, k, tenant[k].db>>
<1>1. own \in known /\ own[2] = k /\ own[3] = tenant[k].db /\ tenant[k].db \notin typed
  BY DEF RoutingInv, Recorded, Ordinary
<1> HIDE DEF own
<1>2. database[tenant[k].db] # "absent"
  BY <1>1 DEF RoutingInv, Owned
<1>3. ASSUME NEW m \in DOMAIN tenant, tenant[m].db = tenant[k].db PROVE m = k
  <2> DEFINE other == <<tenant[m].slug, m, tenant[m].db>>
  <2>1. other \in known /\ other[2] = m /\ other[3] = tenant[m].db
    BY DEF RoutingInv, Recorded
  <2> HIDE DEF other
  <2> QED BY <1>1, <1>3, <2>1 DEF RoutingInv, Owned
<1>4. ASSUME NEW x \in servedBy PROVE x[1] = k <=> x[2] = tenant[k].db
  <2>1. PICK z \in known : z[2] = x[1] /\ Belongs(known, z[1], x[2])
    BY DEF RoutingInv, MapsRemembered
  <2>2. PICK y \in known : y[1] = z[1] /\ y[3] = x[2]
    BY <2>1 DEF Belongs
  <2>3. ASSUME x[1] = k PROVE x[2] = tenant[k].db
    <3>1. y[2] = k
      BY <2>1, <2>2, <2>3 DEF Ordinary
    <3> QED BY <1>1, <2>2, <3>1 DEF RoutingInv, Owned
  <2>4. ASSUME x[2] = tenant[k].db PROVE x[1] = k
    <3>1. y[2] = k
      BY <1>1, <2>2, <2>4 DEF RoutingInv, Owned
    <3> QED BY <2>1, <2>2, <3>1 DEF Ordinary
  <2> QED BY <2>3, <2>4
<1> QED BY <1>2, <1>3, <1>4

LEMMA Initially == TenancyInit => RoutingInv
<1> SUFFICES ASSUME TenancyInit PROVE RoutingInv
  OBVIOUS
<1>1. tenant \in Seq({}) /\ DOMAIN tenant = {}
  BY DEF TenancyInit
<1>2. Shape
  BY <1>1 DEF TenancyInit, Shape, NoProvision
<1>3. Recorded /\ Owned
  BY <1>1 DEF TenancyInit, Recorded, Owned, NoProvision
<1>4. MapsRemembered
  BY DEF TenancyInit, MapsRemembered, NoProvision
<1> QED BY <1>2, <1>3, <1>4 DEF RoutingInv

\* What a row had is never forgotten.
LEMMA Lasting ==
    ASSUME NEW K, NEW L, K \subseteq L, NEW s, NEW d, Belongs(K, s, d)
    PROVE  Belongs(L, s, d)
BY DEF Belongs

LEMMA StillRecorded == ASSUME RoutingInv, UNCHANGED <<tenant, known>> PROVE Recorded'
BY DEF RoutingInv, Recorded

LEMMA StillRemembered ==
    ASSUME RoutingInv, known \subseteq known', UNCHANGED <<registered, serving, servedBy>>
    PROVE  /\ \A w \in Workers, s \in Slugs : registered'[w][s] # NoDatabase => Belongs(known', s, registered'[w][s])
           /\ \A w \in Workers : serving'[w] # NotServing =>
                 /\ serving'[w].alias \in Slugs
                 /\ <<serving'[w].alias, serving'[w].row, serving'[w].db>> \in known'
           /\ \A x \in servedBy' : \E z \in known' : z[2] = x[1] /\ Belongs(known', z[1], x[2])
BY Lasting DEF RoutingInv, MapsRemembered

-----------------------------------------------------------------------------
(* Provisioning. *)

\* The steps of a call that only move it on.
LEMMA ProvisionMovedOn ==
    ASSUME RoutingInv, NEW w \in Workers, NEW r,
           Proceed(w, r), r = [stage |-> r.stage, slug |-> r.slug, db |-> r.db],
           r.stage \in {"idle", "create"},
           r.stage = "create" => r.slug \in Slugs /\ r.db \in Databases,
           UNCHANGED <<tenant, database, registered, serving, servedBy, known, typed>>
    PROVE  RoutingInv'
<1>1. /\ DOMAIN provision' = Workers /\ provision'[w] = r
      /\ \A v \in Workers \ {w} : provision'[v] = provision[v]
  BY DEF Proceed, RoutingInv, Shape
<1>2. Shape'
  BY <1>1 DEF RoutingInv, Shape
<1>3. Owned'
  BY <1>1 DEF RoutingInv, Owned
<1>4. MapsRemembered'
  BY <1>1 DEF RoutingInv, MapsRemembered
<1> QED BY <1>2, <1>3, <1>4, StillRecorded DEF RoutingInv

LEMMA ValidateStep ==
    ASSUME RoutingInv, NEW w \in Workers, NEW s \in Slugs, NEW db \in Databases, Validate(w, s, db)
    PROVE  RoutingInv'
<1> DEFINE r == [stage |-> "create", slug |-> s, db |-> db]
<1>1. Proceed(w, r) /\ UNCHANGED <<tenant, database, registered, serving, servedBy, known, typed>>
  BY DEF Validate
<1>2. r = [stage |-> r.stage, slug |-> r.slug, db |-> r.db] /\ r.stage = "create" /\ r.slug = s /\ r.db = db
  OBVIOUS
<1> HIDE DEF r
<1> QED BY <1>1, <1>2, ProvisionMovedOn

LEMMA TenantIdleStep ==
    ASSUME RoutingInv, NEW w \in Workers, Proceed(w, NoProvision),
           UNCHANGED <<tenant, database, registered, serving, servedBy, known, typed>>
    PROVE  RoutingInv'
<1>1. NoProvision = [stage |-> NoProvision.stage, slug |-> NoProvision.slug, db |-> NoProvision.db] /\ NoProvision.stage = "idle"
  BY DEF NoProvision
<1> QED BY <1>1, ProvisionMovedOn

\* Its database was not there, so that nobody has it.
LEMMA NewTenantStep ==
    ASSUME RoutingInv, NEW w \in Workers, CreateDatabase(w)
    PROVE  RoutingInv'
<1> DEFINE p == provision[w]
<1>1. CASE ~DatabaseFree(p.db)
  BY <1>1, TenantIdleStep DEF CreateDatabase
<1>2. CASE DatabaseFree(p.db)
  <2>1. /\ database' = [database EXCEPT ![p.db] = "empty"]
        /\ provision' = [provision EXCEPT ![w] = [p EXCEPT !.stage = "save"]]
        /\ UNCHANGED <<tenant, registered, serving, servedBy, known, typed>> /\ p.stage = "create"
    BY <1>2 DEF CreateDatabase, Proceed
  <2>2. p = [stage |-> p.stage, slug |-> p.slug, db |-> p.db] /\ p.db \in Databases /\ p.slug \in Slugs
    BY <2>1 DEF RoutingInv, Shape
  <2>3. /\ DOMAIN provision' = Workers /\ \A v \in Workers \ {w} : provision'[v] = provision[v]
        /\ provision'[w] = [stage |-> "save", slug |-> p.slug, db |-> p.db]
    BY <2>1, <2>2 DEF RoutingInv, Shape
  <2>4. /\ \A d \in Databases : database[d] # "absent" => database'[d] # "absent"
        /\ DOMAIN database' = Databases /\ database'[p.db] # "absent" /\ database[p.db] = "absent"
    BY <1>2, <2>1, <2>2 DEF RoutingInv, Shape, DatabaseFree
  <2>5. Shape'
    BY <2>1, <2>2, <2>3, <2>4 DEF RoutingInv, Shape
  <2>6. Owned'
    <3>1. \A x \in known : x[3] \in Databases /\ (x[3] \notin typed => x[3] # p.db /\ database'[x[3]] # "absent")
      BY <2>4 DEF RoutingInv, Owned, Recorded
    <3>2. \A v \in Workers \ {w} : provision[v].stage = "save" =>
             provision[v].db # p.db /\ provision[v].db \in Databases
      BY <2>4 DEF RoutingInv, Owned, Shape
    <3>3. p.db \notin typed => \A x \in known : x[3] # p.db
      BY <3>1
    <3> QED BY <2>1, <2>3, <2>4, <3>1, <3>2, <3>3 DEF RoutingInv, Owned
  <2>7. MapsRemembered'
    BY <2>1, <2>3 DEF RoutingInv, MapsRemembered
  <2> QED BY <2>1, <2>5, <2>6, <2>7, StillRecorded DEF RoutingInv
<1> QED BY <1>1, <1>2

\* A row more, with all there is to know of it.
LEMMA Inserted ==
    ASSUME RoutingInv, NEW s \in Slugs, NEW db \in Databases, NEW active, Insert(s, db, active)
    PROVE  \E n : /\ n \notin DOMAIN tenant /\ DOMAIN tenant' = DOMAIN tenant \cup {n}
                  /\ tenant'[n] = [slug |-> s, db |-> db, active |-> active, live |-> TRUE]
                  /\ \A k \in DOMAIN tenant : tenant'[k] = tenant[k]
                  /\ known' = known \cup {<<s, n, db>>}
                  /\ \E S : tenant' \in Seq(S)
<1> DEFINE row == [slug |-> s, db |-> db, active |-> active, live |-> TRUE]
           n == Len(tenant) + 1
<1>1. tenant' = Append(tenant, row) /\ known' = known \cup {<<s, n, db>>}
  BY DEF Insert
<1>2. PICK S : tenant \in Seq(S)
  BY DEF RoutingInv, Shape
<1> HIDE DEF row
<1>3. tenant \in Seq(S \cup {row})
  BY <1>2
<1>4. tenant' \in Seq(S \cup {row})
  BY <1>1, <1>3
<1>5. /\ n \notin DOMAIN tenant /\ DOMAIN tenant' = DOMAIN tenant \cup {n}
      /\ tenant'[n] = row /\ \A k \in DOMAIN tenant : tenant'[k] = tenant[k]
  BY <1>1, <1>3
<1> QED BY <1>1, <1>4, <1>5 DEF row

\* The rows, and what they ever had, are in order after a row more.
LEMMA RowsInserted ==
    ASSUME RoutingInv, NEW s \in Slugs, NEW db \in Databases, NEW active, NEW n, n \notin DOMAIN tenant,
           DOMAIN tenant' = DOMAIN tenant \cup {n},
           tenant'[n] = [slug |-> s, db |-> db, active |-> active, live |-> TRUE],
           \A k \in DOMAIN tenant : tenant'[k] = tenant[k],
           known' = known \cup {<<s, n, db>>}
    PROVE  /\ Recorded'
           /\ \A k \in DOMAIN tenant' :
                 /\ tenant'[k] = [slug |-> tenant'[k].slug, db |-> tenant'[k].db, active |-> tenant'[k].active, live |-> tenant'[k].live]
                 /\ tenant'[k].slug \in Slugs /\ tenant'[k].db \in Databases
<1> DEFINE row == [slug |-> s, db |-> db, active |-> active, live |-> TRUE]
           new == <<s, n, db>>
<1>1. row = [slug |-> row.slug, db |-> row.db, active |-> row.active, live |-> row.live] /\ row.slug = s /\ row.db = db
  OBVIOUS
<1>2. tenant'[n] = row
  OBVIOUS
<1> HIDE DEF row
<1>3. ASSUME NEW k \in DOMAIN tenant'
      PROVE  /\ tenant'[k] = [slug |-> tenant'[k].slug, db |-> tenant'[k].db, active |-> tenant'[k].active, live |-> tenant'[k].live]
             /\ tenant'[k].slug \in Slugs /\ tenant'[k].db \in Databases
  <2>1. CASE k = n
    BY <1>1, <1>2, <2>1
  <2>2. CASE k # n
    BY <2>2 DEF RoutingInv, Shape
  <2> QED BY <2>1, <2>2
<1>4. \A k \in DOMAIN tenant' : <<tenant'[k].slug, k, tenant'[k].db>> \in known'
  BY <1>1, <1>2 DEF RoutingInv, Recorded
<1>5. new[1] = s /\ new[2] = n /\ new[3] = db /\ known' = known \cup {new}
  OBVIOUS
<1> HIDE DEF new
<1>6. \A x \in known' : x[1] \in Slugs /\ x[2] \in DOMAIN tenant' /\ x[3] \in Databases
  BY <1>5 DEF RoutingInv, Recorded
<1> QED BY <1>3, <1>4, <1>6 DEF Recorded

\* The new row gets the database its call created.
LEMMA SaveStep ==
    ASSUME RoutingInv, NEW w \in Workers, SaveTenant(w)
    PROVE  RoutingInv'
<1> DEFINE p == provision[w]
<1>1. CASE ~SlugFree(p.slug)
  BY <1>1, TenantIdleStep DEF SaveTenant
<1>2. CASE SlugFree(p.slug)
  <2>1. /\ Insert(p.slug, p.db, TRUE)
        /\ provision' = [provision EXCEPT ![w] = [p EXCEPT !.stage = "activate"]]
        /\ UNCHANGED <<database, registered, serving, servedBy, typed>> /\ p.stage = "save"
    BY <1>2 DEF SaveTenant, Proceed
  <2>2. p = [stage |-> p.stage, slug |-> p.slug, db |-> p.db] /\ p.db \in Databases /\ p.slug \in Slugs
    BY <2>1 DEF RoutingInv, Shape
  <2>3. /\ DOMAIN provision' = Workers /\ \A v \in Workers \ {w} : provision'[v] = provision[v]
        /\ provision'[w] = [stage |-> "activate", slug |-> p.slug, db |-> p.db]
    BY <2>1, <2>2 DEF RoutingInv, Shape
  <2>0. PICK s \in Slugs, db \in Databases : s = p.slug /\ db = p.db
    BY <2>2
  <2>4. PICK n : /\ n \notin DOMAIN tenant /\ DOMAIN tenant' = DOMAIN tenant \cup {n}
                 /\ tenant'[n] = [slug |-> s, db |-> db, active |-> TRUE, live |-> TRUE]
                 /\ \A k \in DOMAIN tenant : tenant'[k] = tenant[k]
                 /\ known' = known \cup {<<s, n, db>>}
                 /\ \E S : tenant' \in Seq(S)
    <3>1. Insert(s, db, TRUE)
      BY <2>0, <2>1
    <3> HIDE DEF p
    <3> QED BY <3>1, Inserted
  <2>5. /\ Recorded'
        /\ \A k \in DOMAIN tenant' :
              /\ tenant'[k] = [slug |-> tenant'[k].slug, db |-> tenant'[k].db, active |-> tenant'[k].active, live |-> tenant'[k].live]
              /\ tenant'[k].slug \in Slugs /\ tenant'[k].db \in Databases
    <3> HIDE DEF p
    <3> QED BY <2>4, RowsInserted
  <2>6. Shape'
    BY <2>1, <2>2, <2>3, <2>4, <2>5 DEF RoutingInv, Shape
  <2> DEFINE new == <<s, n, db>>
  <2>7. new[1] = s /\ new[2] = n /\ new[3] = db /\ known' = known \cup {new} /\ tenant'[n].db = db
    BY <2>4
  <2> HIDE DEF new
  <2>8. Owned'
    <3>1. /\ database[db] # "absent" /\ (db \notin typed => \A x \in known : x[3] # db)
          /\ \A v \in Workers \ {w} : provision[v].stage = "save" => provision[v].db # db
      BY <2>0, <2>1 DEF RoutingInv, Owned
    <3>2. \A x \in known : x[2] \in DOMAIN tenant
      BY DEF RoutingInv, Recorded
    <3> HIDE DEF p
    <3>3. \A x \in known' : x[3] = tenant'[x[2]].db \/ tenant'[x[2]].db \in typed
      BY <2>4, <2>7, <3>2 DEF RoutingInv, Owned
    <3>4. \A x \in known' : x[3] \notin typed => database[x[3]] # "absent" /\ \A y \in known' : y[3] = x[3] => y[2] = x[2]
      BY <2>7, <3>1 DEF RoutingInv, Owned
    <3>5. \A v \in Workers : provision'[v].stage = "save" => v # w /\ provision'[v] = provision[v] /\ provision[v].db # db
      BY <2>3, <3>1
    <3>6. \A v \in Workers : provision'[v].stage = "save" /\ provision'[v].db \notin typed => \A x \in known' : x[3] # provision'[v].db
      BY <2>7, <3>5 DEF RoutingInv, Owned
    <3> QED BY <2>1, <3>3, <3>4, <3>5, <3>6 DEF RoutingInv, Owned
  <2>9. MapsRemembered'
    <3>1. Belongs(known', s, db)
      BY <2>7 DEF Belongs
    <3>2. known \subseteq known'
      BY <2>7
    <3>3. \A v \in Workers : provision'[v].stage = "activate" => Belongs(known', provision'[v].slug, provision'[v].db)
      BY <2>0, <2>3, <3>1, <3>2, Lasting DEF RoutingInv, MapsRemembered
    <3> QED BY <2>1, <3>2, <3>3, StillRemembered DEF MapsRemembered
  <2> QED BY <2>5, <2>6, <2>8, <2>9 DEF RoutingInv
<1> QED BY <1>1, <1>2

\* Whatever an alias leads to is a database a row with its slug had.
LEMMA Registered ==
    ASSUME RoutingInv, NEW w \in Workers, NEW s \in Slugs, NEW db \in Databases, Belongs(known, s, db),
           registered' = Register(w, s, db), UNCHANGED known
    PROVE  /\ registered' \in [Workers -> [Slugs -> Databases \cup {NoDatabase}]]
           /\ Belongs(known, s, registered'[w][s])
           /\ \A v \in Workers, t \in Slugs : registered'[v][t] # NoDatabase => Belongs(known, t, registered'[v][t])
<1>1. CASE registered[w][s] = NoDatabase
  <2>1. registered' = [registered EXCEPT ![w][s] = db]
    BY <1>1 DEF Register
  <2>2. /\ registered' \in [Workers -> [Slugs -> Databases \cup {NoDatabase}]]
        /\ registered'[w][s] = db
        /\ \A v \in Workers, t \in Slugs : <<v, t>> # <<w, s>> => registered'[v][t] = registered[v][t]
    BY <2>1 DEF RoutingInv, Shape
  <2> QED BY <2>2 DEF RoutingInv, MapsRemembered
<1>2. CASE registered[w][s] # NoDatabase
  <2>1. registered' = registered
    BY <1>2 DEF Register
  <2> QED BY <1>2, <2>1 DEF RoutingInv, Shape, MapsRemembered
<1> QED BY <1>1, <1>2

LEMMA ActivateStep ==
    ASSUME RoutingInv, NEW w \in Workers, ActivateNew(w)
    PROVE  RoutingInv'
<1> DEFINE p == provision[w]
<1>1. /\ registered' = Register(w, p.slug, p.db) /\ p.stage = "activate"
      /\ provision' = [provision EXCEPT ![w] = [p EXCEPT !.stage = "migrate", !.db = registered'[w][p.slug]]]
      /\ UNCHANGED <<tenant, database, serving, servedBy, known, typed>>
  BY DEF ActivateNew, Proceed
<1>2. /\ p = [stage |-> p.stage, slug |-> p.slug, db |-> p.db] /\ p.slug \in Slugs /\ p.db \in Databases
      /\ Belongs(known, p.slug, p.db)
  BY <1>1 DEF RoutingInv, Shape, MapsRemembered
<1>3. /\ registered' \in [Workers -> [Slugs -> Databases \cup {NoDatabase}]]
      /\ \A v \in Workers, t \in Slugs : registered'[v][t] # NoDatabase => Belongs(known, t, registered'[v][t])
  BY <1>1, <1>2, Registered
<1>4. /\ DOMAIN provision' = Workers /\ \A v \in Workers \ {w} : provision'[v] = provision[v]
      /\ provision'[w] = [stage |-> "migrate", slug |-> p.slug, db |-> registered'[w][p.slug]]
  BY <1>1, <1>2 DEF RoutingInv, Shape
<1>5. registered'[w][p.slug] \in Databases \cup {NoDatabase}
  BY <1>2, <1>3
<1>6. Shape'
  BY <1>1, <1>2, <1>3, <1>4, <1>5 DEF RoutingInv, Shape
<1>7. Owned'
  BY <1>1, <1>4 DEF RoutingInv, Owned
<1>8. MapsRemembered'
  BY <1>1, <1>2, <1>3, <1>4 DEF RoutingInv, MapsRemembered
<1> QED BY <1>1, <1>6, <1>7, <1>8, StillRecorded DEF RoutingInv

LEMMA PrepareStep ==
    ASSUME RoutingInv, NEW w \in Workers, Prepare(w)
    PROVE  RoutingInv'
<1> DEFINE p == provision[w]
<1>1. /\ database' = [database EXCEPT ![p.db] = IF p.stage = "migrate" THEN "migrated" ELSE "seeded"]
      /\ provision' = [provision EXCEPT ![w] = IF p.stage = "migrate" THEN [p EXCEPT !.stage = "seed"] ELSE NoProvision]
      /\ UNCHANGED <<tenant, registered, serving, servedBy, known, typed>> /\ p.stage \in {"migrate", "seed"}
  BY DEF Prepare, Proceed
<1>2. p = [stage |-> p.stage, slug |-> p.slug, db |-> p.db]
  BY DEF RoutingInv, Shape
<1>3. /\ DOMAIN database' = Databases
      /\ \A d \in Databases : database[d] # "absent" => database'[d] # "absent"
  BY <1>1 DEF RoutingInv, Shape
<1>4. /\ DOMAIN provision' = Workers /\ \A v \in Workers \ {w} : provision'[v] = provision[v]
      /\ provision'[w] = [stage |-> "seed", slug |-> p.slug, db |-> p.db] \/ provision'[w] = NoProvision
  BY <1>1, <1>2 DEF RoutingInv, Shape
<1>5. Shape'
  BY <1>1, <1>2, <1>3, <1>4, NoCallIdle DEF RoutingInv, Shape
<1>6. Owned'
  <2>1. /\ \A x \in known : x[3] \in Databases
        /\ \A v \in Workers : provision[v].stage = "save" => provision[v].db \in Databases
    BY DEF RoutingInv, Shape, Recorded
  <2>2. provision'[w].stage # "save"
    BY <1>4, NoCallIdle
  <2> QED BY <1>1, <1>3, <1>4, <2>1, <2>2 DEF RoutingInv, Owned
<1>7. MapsRemembered'
  <2>1. provision'[w].stage # "activate"
    BY <1>4, NoCallIdle
  <2> QED BY <1>1, <1>4, <2>1 DEF RoutingInv, MapsRemembered
<1> QED BY <1>1, <1>5, <1>6, <1>7, StillRecorded DEF RoutingInv

-----------------------------------------------------------------------------
(* Administration and requests. *)

\* A form may move a row to another database, which counts as typed in from then on.
LEMMA EditTenantStep ==
    ASSUME RoutingInv, NEW k \in DOMAIN tenant, NEW s \in Slugs, NEW db \in Databases, NEW active,
           EditTenant(k, s, db, active)
    PROVE  RoutingInv'
<1> DEFINE e == [slug |-> s, db |-> db, active |-> active, live |-> TRUE]
           new == <<s, k, db>>
<1>1. /\ UNCHANGED <<database, provision, registered, serving, servedBy>>
      /\ tenant' = [tenant EXCEPT ![k] = e] /\ known' = known \cup {new}
      /\ typed' = IF db = tenant[k].db THEN typed ELSE typed \cup {db}
  BY DEF EditTenant, AdminCall
<1>2. e.slug = s /\ e.db = db /\ e = [slug |-> e.slug, db |-> e.db, active |-> e.active, live |-> e.live]
  OBVIOUS
<1> HIDE DEF e
<1>3. /\ DOMAIN tenant' = DOMAIN tenant /\ tenant'[k] = e
      /\ \A m \in DOMAIN tenant \ {k} : tenant'[m] = tenant[m]
  BY <1>1
<1>4. \E S : tenant' \in Seq(S)
  <2>1. PICK S : tenant \in Seq(S)
    BY DEF RoutingInv, Shape
  <2>2. tenant' \in Seq(S \cup {e})
    BY <1>1, <2>1
  <2> QED BY <2>2
<1>5. new[1] = s /\ new[2] = k /\ new[3] = db
  OBVIOUS
<1>6. Shape'
  <2>1. ASSUME NEW m \in DOMAIN tenant
        PROVE  /\ tenant'[m] = [slug |-> tenant'[m].slug, db |-> tenant'[m].db, active |-> tenant'[m].active, live |-> tenant'[m].live]
               /\ tenant'[m].slug \in Slugs /\ tenant'[m].db \in Databases
    <3>1. CASE m = k
      BY <1>2, <1>3, <3>1
    <3>2. CASE m # k
      BY <1>3, <3>2 DEF RoutingInv, Shape
    <3> QED BY <3>1, <3>2
  <2>2. typed' \subseteq Databases
    BY <1>1 DEF RoutingInv, Shape
  <2> QED BY <1>1, <1>3, <1>4, <2>1, <2>2 DEF RoutingInv, Shape
<1>0. Recorded'
  <2>1. \A m \in DOMAIN tenant' : <<tenant'[m].slug, m, tenant'[m].db>> \in known'
    BY <1>1, <1>2, <1>3 DEF RoutingInv, Recorded
  <2> HIDE DEF new
  <2>2. \A x \in known' : x[1] \in Slugs /\ x[2] \in DOMAIN tenant' /\ x[3] \in Databases
    BY <1>1, <1>3, <1>5 DEF RoutingInv, Recorded
  <2> QED BY <2>1, <2>2 DEF Recorded
<1> HIDE DEF new
<1>7. known \subseteq known' /\ typed \subseteq typed'
  BY <1>1
\* Unless it was typed in now, the row had this database already.
<1>8. db \notin typed' => db = tenant[k].db /\ \E x \in known : x[2] = k /\ x[3] = db
  <2> DEFINE old == <<tenant[k].slug, k, tenant[k].db>>
  <2>1. old \in known /\ old[2] = k /\ old[3] = tenant[k].db
    BY DEF RoutingInv, Recorded
  <2> HIDE DEF old
  <2> QED BY <1>1, <2>1
<1>9. Owned'
  <2>1. ASSUME NEW x \in known', x[3] \notin typed'
        PROVE  \E z \in known : z[2] = x[2] /\ z[3] = x[3]
    BY <1>1, <1>5, <1>8, <2>1
  <2>2. \A x \in known' : x[3] \notin typed' =>
           database[x[3]] # "absent" /\ \A y \in known' : y[3] = x[3] => y[2] = x[2]
    BY <1>7, <2>1 DEF RoutingInv, Owned
  <2>3. \A x \in known' : x[3] = tenant'[x[2]].db \/ tenant'[x[2]].db \in typed'
    <3>1. SUFFICES ASSUME NEW x \in known' PROVE x[3] = tenant'[x[2]].db \/ tenant'[x[2]].db \in typed'
      OBVIOUS
    <3>2. CASE x = new
      BY <1>2, <1>3, <1>5, <3>2
    <3>3. CASE x \in known /\ x[2] # k
      <4>1. x[2] \in DOMAIN tenant
        BY <3>3 DEF RoutingInv, Recorded
      <4> QED BY <1>3, <1>7, <3>3, <4>1 DEF RoutingInv, Owned
    <3>4. CASE x \in known /\ x[2] = k
      <4>1. x[3] = tenant[k].db \/ tenant[k].db \in typed
        BY <3>4 DEF RoutingInv, Owned
      <4> QED BY <1>1, <1>2, <1>3, <3>4, <4>1
    <3> QED BY <1>1, <3>2, <3>3, <3>4
  <2>4. \A w \in Workers : provision[w].stage = "save" /\ provision[w].db \notin typed' => \A x \in known' : x[3] # provision[w].db
    BY <1>7, <2>1 DEF RoutingInv, Owned
  <2> QED BY <1>1, <2>2, <2>3, <2>4 DEF RoutingInv, Owned
<1>10. MapsRemembered'
  <2>1. \A v \in Workers : provision[v].stage = "activate" => Belongs(known', provision[v].slug, provision[v].db)
    BY <1>7, Lasting DEF RoutingInv, MapsRemembered
  <2> QED BY <1>1, <1>7, <2>1, StillRemembered DEF MapsRemembered
<1> QED BY <1>0, <1>6, <1>9, <1>10 DEF RoutingInv

LEMMA AddTenantStep ==
    ASSUME RoutingInv, NEW s \in Slugs, NEW db \in Databases, NEW active, AddTenant(s, db, active)
    PROVE  RoutingInv'
<1>1. /\ UNCHANGED <<database, provision, registered, serving, servedBy>>
      /\ Insert(s, db, active) /\ typed' = typed \cup {db}
  BY DEF AddTenant, AdminCall
<1>2. PICK n : /\ n \notin DOMAIN tenant /\ DOMAIN tenant' = DOMAIN tenant \cup {n}
               /\ tenant'[n] = [slug |-> s, db |-> db, active |-> active, live |-> TRUE]
               /\ \A k \in DOMAIN tenant : tenant'[k] = tenant[k]
               /\ known' = known \cup {<<s, n, db>>}
               /\ \E S : tenant' \in Seq(S)
  BY <1>1, Inserted
<1>3. Shape' /\ Recorded'
  <2>1. typed' \subseteq Databases
    BY <1>1 DEF RoutingInv, Shape
  <2>2. /\ Recorded'
        /\ \A k \in DOMAIN tenant' :
              /\ tenant'[k] = [slug |-> tenant'[k].slug, db |-> tenant'[k].db, active |-> tenant'[k].active, live |-> tenant'[k].live]
              /\ tenant'[k].slug \in Slugs /\ tenant'[k].db \in Databases
    BY <1>2, RowsInserted
  <2> QED BY <1>1, <1>2, <2>1, <2>2 DEF RoutingInv, Shape
<1> DEFINE new == <<s, n, db>>
<1>4. new[1] = s /\ new[2] = n /\ new[3] = db /\ known' = known \cup {new} /\ tenant'[n].db = db
  BY <1>2
<1> HIDE DEF new
<1>5. Owned'
  <2>1. \A x \in known : x[2] \in DOMAIN tenant
    BY DEF RoutingInv, Recorded
  <2>2. \A x \in known' : x[3] = tenant'[x[2]].db \/ tenant'[x[2]].db \in typed'
    BY <1>1, <1>2, <1>4, <2>1 DEF RoutingInv, Owned
  <2>3. \A x \in known' : x[3] \notin typed' => x \in known /\ x[3] \notin typed
    BY <1>1, <1>4
  <2>4. \A w \in Workers : provision[w].stage = "save" /\ provision[w].db \notin typed' => \A x \in known' : x[3] # provision[w].db
    BY <1>1, <1>4 DEF RoutingInv, Owned
  <2> QED BY <1>1, <2>2, <2>3, <2>4 DEF RoutingInv, Owned
<1>6. MapsRemembered'
  <2>1. \A v \in Workers : provision[v].stage = "activate" => Belongs(known', provision[v].slug, provision[v].db)
    BY <1>4, Lasting DEF RoutingInv, MapsRemembered
  <2> QED BY <1>1, <1>4, <2>1, StillRemembered DEF MapsRemembered
<1> QED BY <1>3, <1>5, <1>6 DEF RoutingInv

LEMMA DeleteTenantStep ==
    ASSUME RoutingInv, NEW k \in DOMAIN tenant, DeleteTenant(k)
    PROVE  RoutingInv'
<1> DEFINE e == [tenant[k] EXCEPT !.live = FALSE]
<1>1. /\ UNCHANGED <<database, provision, registered, serving, servedBy, known, typed>>
      /\ tenant' = [tenant EXCEPT ![k] = e]
  BY DEF DeleteTenant, AdminCall
<1>2. tenant[k] = [slug |-> tenant[k].slug, db |-> tenant[k].db, active |-> tenant[k].active, live |-> tenant[k].live]
  BY DEF RoutingInv, Shape
<1>3. e.slug = tenant[k].slug /\ e.db = tenant[k].db /\ e = [slug |-> e.slug, db |-> e.db, active |-> e.active, live |-> e.live]
  <2> DEFINE t == tenant[k]
  <2>1. t = [slug |-> t.slug, db |-> t.db, active |-> t.active, live |-> t.live] /\ e = [t EXCEPT !.live = FALSE]
    BY <1>2
  <2>2. t = tenant[k]
    OBVIOUS
  <2> HIDE DEF t, e
  <2>3. e = [slug |-> t.slug, db |-> t.db, active |-> t.active, live |-> FALSE]
    BY <2>1
  <2> QED BY <2>2, <2>3
<1> HIDE DEF e
<1>4. /\ DOMAIN tenant' = DOMAIN tenant /\ tenant'[k] = e
      /\ \A m \in DOMAIN tenant \ {k} : tenant'[m] = tenant[m]
  BY <1>1
<1>5. \E S : tenant' \in Seq(S)
  <2>1. PICK S : tenant \in Seq(S)
    BY DEF RoutingInv, Shape
  <2>2. tenant' \in Seq(S \cup {e})
    BY <1>1, <2>1
  <2> QED BY <2>2
<1>6. Shape'
  BY <1>1, <1>3, <1>4, <1>5 DEF RoutingInv, Shape
<1>7. \A m \in DOMAIN tenant : tenant'[m].db = tenant[m].db
  BY <1>3, <1>4
<1>8. Owned'
  <2>1. \A x \in known : x[2] \in DOMAIN tenant
    BY DEF RoutingInv, Recorded
  <2> QED BY <1>1, <1>7, <2>1 DEF RoutingInv, Owned
<1>10. Recorded'
  BY <1>1, <1>3, <1>4 DEF RoutingInv, Recorded
<1>9. MapsRemembered'
  BY <1>1 DEF RoutingInv, MapsRemembered
<1> QED BY <1>6, <1>8, <1>9, <1>10 DEF RoutingInv

LEMMA ResolveStep ==
    ASSUME RoutingInv, NEW w \in Workers, NEW k \in DOMAIN tenant, Resolve(w, k)
    PROVE  RoutingInv'
<1> DEFINE r == [row |-> k, alias |-> tenant[k].slug, db |-> tenant[k].db]
<1>1. /\ serving' = [serving EXCEPT ![w] = r]
      /\ UNCHANGED <<tenant, database, provision, registered, servedBy, known, typed>>
  BY DEF Resolve
<1>2. /\ DOMAIN serving' = Workers /\ serving'[w] = r /\ \A v \in Workers \ {w} : serving'[v] = serving[v]
  BY <1>1 DEF RoutingInv, Shape
<1>3. r.alias \in Slugs /\ <<r.alias, r.row, r.db>> \in known
  BY DEF RoutingInv, Shape, Recorded
<1> HIDE DEF r
<1>4. Shape' /\ Owned'
  BY <1>1, <1>2 DEF RoutingInv, Shape, Owned
<1>5. MapsRemembered'
  BY <1>1, <1>2, <1>3 DEF RoutingInv, MapsRemembered
<1> QED BY <1>1, <1>4, <1>5, StillRecorded DEF RoutingInv

LEMMA ServeStep ==
    ASSUME RoutingInv, NEW w \in Workers, Serve(w)
    PROVE  RoutingInv'
<1> DEFINE r == serving[w]
           z == <<r.alias, r.row, r.db>>
<1>1. /\ r # NotServing /\ registered' = Register(w, r.alias, r.db)
      /\ servedBy' = servedBy \cup {<<r.row, registered'[w][r.alias]>>}
      /\ serving' = [serving EXCEPT ![w] = NotServing]
      /\ UNCHANGED <<tenant, database, provision, known, typed>>
  BY DEF Serve
<1>2. r.alias \in Slugs /\ z \in known /\ z[1] = r.alias /\ z[2] = r.row /\ z[3] = r.db
  BY <1>1 DEF RoutingInv, MapsRemembered
<1>3. r.db \in Databases
  BY <1>2 DEF RoutingInv, Recorded
<1>4. Belongs(known, r.alias, r.db)
  <2> HIDE DEF z
  <2> QED BY <1>2 DEF Belongs
<1>5. /\ registered' \in [Workers -> [Slugs -> Databases \cup {NoDatabase}]]
      /\ Belongs(known, r.alias, registered'[w][r.alias])
      /\ \A v \in Workers, t \in Slugs : registered'[v][t] # NoDatabase => Belongs(known, t, registered'[v][t])
  BY <1>1, <1>2, <1>3, <1>4, Registered
<1>6. /\ DOMAIN serving' = Workers /\ serving'[w] = NotServing
      /\ \A v \in Workers \ {w} : serving'[v] = serving[v]
  BY <1>1 DEF RoutingInv, Shape
<1>7. Shape' /\ Owned'
  BY <1>1, <1>5, <1>6 DEF RoutingInv, Shape, Owned
<1>8. \A x \in servedBy' : \E y \in known : y[2] = x[1] /\ Belongs(known, y[1], x[2])
  <2>1. SUFFICES ASSUME NEW x \in servedBy' PROVE \E y \in known : y[2] = x[1] /\ Belongs(known, y[1], x[2])
    OBVIOUS
  <2>2. CASE x \in servedBy
    BY <2>2 DEF RoutingInv, MapsRemembered
  <2>3. CASE x = <<r.row, registered'[w][r.alias]>>
    <3>1. x[1] = r.row /\ x[2] = registered'[w][r.alias]
      BY <2>3
    <3> HIDE DEF z
    <3> QED BY <1>2, <1>5, <3>1
  <2> QED BY <1>1, <2>2, <2>3
<1>9. MapsRemembered'
  BY <1>1, <1>5, <1>6, <1>8 DEF RoutingInv, MapsRemembered
<1> QED BY <1>1, <1>7, <1>9, StillRecorded DEF RoutingInv

LEMMA RestartStep ==
    ASSUME RoutingInv, NEW w \in Workers, Restart(w)
    PROVE  RoutingInv'
<1>1. /\ provision' = [provision EXCEPT ![w] = NoProvision] /\ serving' = [serving EXCEPT ![w] = NotServing]
      /\ registered' = [registered EXCEPT ![w] = [s \in Slugs |-> NoDatabase]]
      /\ UNCHANGED <<tenant, database, servedBy, known, typed>>
  BY DEF Restart, Proceed
<1>2. /\ DOMAIN provision' = Workers /\ DOMAIN serving' = Workers
      /\ provision'[w] = NoProvision /\ serving'[w] = NotServing
      /\ registered' \in [Workers -> [Slugs -> Databases \cup {NoDatabase}]]
      /\ \A s \in Slugs : registered'[w][s] = NoDatabase
      /\ \A v \in Workers \ {w} : /\ provision'[v] = provision[v] /\ serving'[v] = serving[v]
                                  /\ registered'[v] = registered[v]
  BY <1>1 DEF RoutingInv, Shape
<1>3. Shape' /\ Owned'
  BY <1>1, <1>2, NoCallIdle DEF RoutingInv, Shape, Owned
<1>4. MapsRemembered'
  BY <1>1, <1>2, NoCallIdle DEF RoutingInv, MapsRemembered
<1> QED BY <1>1, <1>3, <1>4, StillRecorded DEF RoutingInv

LEMMA Stepwise == ASSUME RoutingInv, [TenancyNext]_tenancyVars PROVE RoutingInv'
<1>1. CASE UNCHANGED tenancyVars
  <2>1. UNCHANGED <<tenant, database, provision, registered, serving, servedBy, known, typed>>
    BY <1>1 DEF tenancyVars
  <2>2. Shape' /\ Owned'
    BY <2>1 DEF RoutingInv, Shape, Owned
  <2>3. MapsRemembered'
    BY <2>1 DEF RoutingInv, MapsRemembered
  <2> QED BY <2>1, <2>2, <2>3, StillRecorded DEF RoutingInv
<1>2. CASE \E w \in Workers :
              \/ \E s \in Slugs : \E db \in Databases : Validate(w, s, db)
              \/ CreateDatabase(w) \/ SaveTenant(w) \/ ActivateNew(w) \/ Prepare(w)
  BY <1>2, ValidateStep, NewTenantStep, SaveStep, ActivateStep, PrepareStep
<1>3. CASE \E w \in Workers : (\E k \in DOMAIN tenant : Resolve(w, k)) \/ Serve(w) \/ Restart(w)
  BY <1>3, ResolveStep, ServeStep, RestartStep
<1>4. CASE \E s \in Slugs, db \in Databases, active \in BOOLEAN :
              AddTenant(s, db, active) \/ \E k \in DOMAIN tenant : EditTenant(k, s, db, active)
  BY <1>4, AddTenantStep, EditTenantStep
<1>5. CASE \E k \in DOMAIN tenant : DeleteTenant(k)
  BY <1>5, DeleteTenantStep
<1> QED BY <1>1, <1>2, <1>3, <1>4, <1>5 DEF TenancyNext

\* Tenants are kept apart: a tenant whose database nobody typed in and whose slugs
\* were never another's has a database that was created, that no other row names and
\* that serves its requests only, whatever the admin site does to the other rows
\* (provision_tenant, TenantResolutionMiddleware, activate_tenant).
THEOREM Apart == TenancySpec => []TenantsApart
<1>1. TenancyInit => RoutingInv
  BY Initially
<1>2. RoutingInv /\ [TenancyNext]_tenancyVars => RoutingInv'
  BY Stepwise
<1>3. RoutingInv => TenantsApart
  BY Implied
<1> QED BY <1>1, <1>2, <1>3, PTL DEF TenancySpec

-----------------------------------------------------------------------------
(* Types of expenses, attendance and notices *)

DeskStages == {"free", "decide", "notify", "push", "patch", "check in", "check out", "selfie"}

ExpenseOf(e) == "agent" \in DOMAIN e /\ e.agent \in Agents
ShiftOf(s)   == {"agent", "out"} \subseteq DOMAIN s /\ s.agent \in Agents /\ s.out \in BOOLEAN

\* What a call that serves r holds in its hands.
DeskHolds(r) ==
    /\ r.stage \in DeskStages
    /\ r.stage = "patch" => ExpenseOf(r.copy)
    /\ r.stage = "push" => r.copy.devices \subseteq Tokens
    /\ r.stage = "check in" => r.copy \in Agents
    /\ r.stage = "selfie" => ShiftOf(r.copy)

DeskRows ==
    /\ \E S : expense \in Seq(S)
    /\ \E S : shift \in Seq(S)
    /\ \E S : notice \in Seq(S)
    /\ \A k \in DOMAIN expense : ExpenseOf(expense[k])
    /\ \A k \in DOMAIN shift : ShiftOf(shift[k])
    /\ \A k \in DOMAIN notice : notice[k].devices \subseteq Tokens

DeskHands ==
    /\ DOMAIN desk = Desks
    /\ \A d \in Desks : DeskHolds(desk[d])

DeskTyped == DeskInv /\ DeskRows /\ DeskHands /\ token \in [Tokens -> Agents \cup Supervisors \cup {NoOne}]
             /\ keyed \in BOOLEAN /\ deskCalls \in 0..MaxDeskCalls

LEMMA DeskTypedInit == MaxDeskCalls \in Nat /\ DeskInit => DeskTyped
<1> SUFFICES ASSUME MaxDeskCalls \in Nat, DeskInit PROVE DeskTyped
  OBVIOUS
<1>1. expense \in Seq({}) /\ shift \in Seq({}) /\ notice \in Seq({})
      /\ DOMAIN expense = {} /\ DOMAIN shift = {} /\ DOMAIN notice = {}
  BY DEF DeskInit
<1>2. DeskRows
  BY <1>1 DEF DeskRows
<1>3. DeskHolds(FreeDesk)
  BY DEF DeskHolds, FreeDesk, DeskStages
<1>4. DeskHands
  BY <1>3 DEF DeskInit, DeskHands
<1> QED BY <1>2, <1>4, DeskInitially DEF DeskInit, DeskTyped

LEMMA HandsPut ==
    ASSUME DeskHands, NEW d \in Desks, NEW r, Put(d, r), DeskHolds(r)
    PROVE  DeskHands'
<1>1. DOMAIN desk' = Desks /\ desk'[d] = r /\ \A c \in Desks \ {d} : desk'[c] = desk[c]
  BY DEF Put, DeskHands
<1>2. \A c \in Desks : DeskHolds(desk'[c])
  BY <1>1 DEF DeskHands
<1> QED BY <1>1, <1>2 DEF DeskHands

LEMMA FreeHolds == DeskHolds(FreeDesk)
BY DEF DeskHolds, FreeDesk, DeskStages

\* A row goes at the end of its table, or a row of the table is replaced.
LEMMA RowAppended ==
    ASSUME NEW s, NEW S, s \in Seq(S), NEW x
    PROVE  /\ \E U : Append(s, x) \in Seq(U)
           /\ \A k \in DOMAIN Append(s, x) : Append(s, x)[k] = x \/ (k \in DOMAIN s /\ Append(s, x)[k] = s[k])
<1>1. s \in Seq(S \cup {x})
  OBVIOUS
<1>2. Append(s, x) \in Seq(S \cup {x})
  BY <1>1
<1>3. \A k \in DOMAIN Append(s, x) : Append(s, x)[k] = x \/ (k \in DOMAIN s /\ Append(s, x)[k] = s[k])
  BY <1>1
<1> QED BY <1>2, <1>3

LEMMA RowsReplace ==
    ASSUME NEW s, NEW S, s \in Seq(S), NEW i, NEW x
    PROVE  /\ \E U : [s EXCEPT ![i] = x] \in Seq(U)
           /\ Len([s EXCEPT ![i] = x]) = Len(s)
           /\ DOMAIN [s EXCEPT ![i] = x] = DOMAIN s
           /\ \A k \in DOMAIN s : IF k = i THEN [s EXCEPT ![i] = x][k] = x ELSE [s EXCEPT ![i] = x][k] = s[k]
<1> DEFINE T == S \cup {x}
           e == [s EXCEPT ![i] = x]
<1>1. s \in Seq(T) /\ x \in T
  OBVIOUS
<1>2. e \in Seq(T) /\ Len(e) = Len(s)
  <2>1. CASE i \in DOMAIN s
    <3> HIDE DEF T
    <3> QED BY <1>1, <2>1
  <2>2. CASE i \notin DOMAIN s
    <3>1. e = s
      <4>1. s = [k \in DOMAIN s |-> s[k]]
        OBVIOUS
      <4>2. e = [k \in DOMAIN s |-> IF k = i THEN x ELSE s[k]]
        OBVIOUS
      <4>3. \A k \in DOMAIN s : k # i
        BY <2>2
      <4> HIDE DEF e
      <4> QED BY <4>1, <4>2, <4>3
    <3> QED BY <1>1, <3>1
  <2> QED BY <2>1, <2>2
<1>4. DOMAIN [s EXCEPT ![i] = x] = DOMAIN s
  OBVIOUS
<1>5. \A k \in DOMAIN s : IF k = i THEN [s EXCEPT ![i] = x][k] = x ELSE [s EXCEPT ![i] = x][k] = s[k]
  OBVIOUS
<1> QED BY <1>2, <1>4, <1>5

LEMMA DeskTypedStep == ASSUME MaxDeskCalls \in Nat, DeskTyped, [DeskNext]_deskVars PROVE DeskTyped'
<1> USE DEF DeskTyped
<1>1. DeskInv'
  BY DeskStepwise
<1> DEFINE Rest == /\ token' \in [Tokens -> Agents \cup Supervisors \cup {NoOne}]
                   /\ keyed' \in BOOLEAN /\ deskCalls' \in 0..MaxDeskCalls
<1>2. CASE UNCHANGED deskVars
  BY <1>1, <1>2 DEF deskVars, DeskRows, DeskHands
<1>3. ASSUME NEW a \in Agents, FileExpense(a) PROVE DeskTyped'
  <2> DEFINE e == [agent |-> a, photo |-> FALSE, status |-> Undecided.status,
                   by |-> Undecided.by, reason |-> Undecided.reason]
  <2>1. ExpenseOf(e)
    BY DEF ExpenseOf
  <2>2. expense' = Append(expense, e)
    BY <1>3 DEF FileExpense
  <2> HIDE DEF e
  <2>3. (\E S : expense' \in Seq(S)) /\ \A k \in DOMAIN expense' : ExpenseOf(expense'[k])
    <3>1. PICK S : expense \in Seq(S)
      BY DEF DeskRows
    <3> QED BY <2>1, <2>2, <3>1, RowAppended DEF DeskRows
  <2> QED BY <1>1, <1>3, <2>3 DEF FileExpense, DeskRows, DeskHands
<1>4. ASSUME NEW a \in Agents, PushCheckIn(a) PROVE DeskTyped'
  <2>1. ShiftOf(NewShift(a))
    BY DEF ShiftOf, NewShift
  <2>2. (\E S : shift' \in Seq(S)) /\ \A k \in DOMAIN shift' : ShiftOf(shift'[k])
    <3>1. PICK S : shift \in Seq(S)
      BY DEF DeskRows
    <3> QED BY <1>4, <2>1, <3>1, RowAppended DEF DeskRows, PushCheckIn
  <2> QED BY <1>1, <1>4, <2>2 DEF PushCheckIn, DeskRows, DeskHands
<1>5. ASSUME NEW x \in Tokens, NEW u \in Agents \cup Supervisors \cup {NoOne}, RegisterToken(x, u)
      PROVE  DeskTyped'
  BY <1>1, <1>5 DEF RegisterToken, DeskRows, DeskHands
<1>6. ASSUME NEW d \in Desks, Decide(d) PROVE DeskTyped'
  <2> DEFINE k == desk[d].row
             x == WithDecision(expense[k], desk[d].copy)
             r == [desk[d] EXCEPT !.stage = "notify"]
  <2>1. k \in DOMAIN expense /\ desk[d] = [stage |-> desk[d].stage, row |-> desk[d].row, copy |-> desk[d].copy]
    BY <1>6 DEF Decide, DeskInv, Served, Fits
  <2>2. ExpenseOf(x)
    <3>1. ExpenseOf(expense[k])
      BY <2>1 DEF DeskRows
    <3> QED BY <3>1 DEF ExpenseOf, WithDecision
  <2>3. DeskHolds(r)
    BY <2>1 DEF DeskHolds, DeskStages
  <2>4. expense' = [expense EXCEPT ![k] = x] /\ Put(d, r)
    BY <1>6 DEF Decide
  <2> HIDE DEF x, r, k
  <2>5. (\E S : expense' \in Seq(S)) /\ \A j \in DOMAIN expense' : ExpenseOf(expense'[j])
    <3>1. PICK S : expense \in Seq(S)
      BY DEF DeskRows
    <3> QED BY <2>2, <2>4, <3>1, RowsReplace DEF DeskRows
  <2>6. DeskHands'
    BY <2>3, <2>4, HandsPut
  <2> QED BY <1>1, <1>6, <2>5, <2>6 DEF Decide, DeskRows
<1>7. ASSUME NEW d \in Desks, ReadTokens(d) PROVE DeskTyped'
  <2> DEFINE to == {x \in Tokens : token[x] = expense[desk[d].row].agent}
             c == [decision |-> desk[d].copy, channel |-> IF keyed /\ to # {} THEN "fcm" ELSE "console", devices |-> to]
             r == [desk[d] EXCEPT !.stage = "push", !.copy = c]
  <2>1. desk[d] = [stage |-> desk[d].stage, row |-> desk[d].row, copy |-> desk[d].copy]
    BY DEF DeskInv, Served, Fits
  <2>2. c.devices \subseteq Tokens
    OBVIOUS
  <2>3. Put(d, r)
    BY <1>7 DEF ReadTokens
  <2> HIDE DEF c
  <2>4. DeskHolds(r)
    BY <2>1, <2>2 DEF DeskHolds, DeskStages
  <2>5. DeskHands'
    BY <2>3, <2>4, HandsPut
  <2> QED BY <1>1, <1>7, <2>5 DEF ReadTokens, DeskRows
<1>8. ASSUME NEW d \in Desks, LogNotice(d) PROVE DeskTyped'
  <2> DEFINE n == [row |-> desk[d].row, decision |-> desk[d].copy.decision,
                   channel |-> desk[d].copy.channel, devices |-> desk[d].copy.devices]
  <2>1. n.devices \subseteq Tokens
    BY <1>8 DEF LogNotice, DeskHands, DeskHolds
  <2>2. notice' = Append(notice, n) /\ Put(d, FreeDesk)
    BY <1>8 DEF LogNotice
  <2> HIDE DEF n
  <2>3. (\E S : notice' \in Seq(S)) /\ \A k \in DOMAIN notice' : notice'[k].devices \subseteq Tokens
    <3>1. PICK S : notice \in Seq(S)
      BY DEF DeskRows
    <3>2. \A k \in DOMAIN notice' : notice'[k] = n \/ (k \in DOMAIN notice /\ notice'[k] = notice[k])
      BY <2>2, <3>1, RowAppended
    <3>3. \E T : notice' \in Seq(T)
      BY <2>2, <3>1, RowAppended
    <3> QED BY <2>1, <3>2, <3>3 DEF DeskRows
  <2>4. DeskHands'
    BY <2>2, FreeHolds, HandsPut
  <2> QED BY <1>1, <1>8, <2>3, <2>4 DEF LogNotice, DeskRows
<1>9. ASSUME NEW d \in Desks, NoticeFails(d) PROVE DeskTyped'
  <2>1. DeskHands'
    BY <1>9, FreeHolds, HandsPut DEF NoticeFails
  <2> QED BY <1>1, <1>9, <2>1 DEF NoticeFails, DeskRows
<1>10. ASSUME NEW d \in Desks, SaveExpensePatch(d) PROVE DeskTyped'
  <2> DEFINE x == [desk[d].copy EXCEPT !.photo = TRUE]
  <2>1. ExpenseOf(x)
    BY <1>10 DEF SaveExpensePatch, DeskHands, DeskHolds, ExpenseOf
  <2>2. expense' = [expense EXCEPT ![desk[d].row] = x] /\ Put(d, FreeDesk)
    BY <1>10 DEF SaveExpensePatch
  <2> HIDE DEF x
  <2>3. (\E S : expense' \in Seq(S)) /\ \A j \in DOMAIN expense' : ExpenseOf(expense'[j])
    <3>1. PICK S : expense \in Seq(S)
      BY DEF DeskRows
    <3> QED BY <2>1, <2>2, <3>1, RowsReplace DEF DeskRows
  <2>4. DeskHands'
    BY <2>2, FreeHolds, HandsPut
  <2> QED BY <1>1, <1>10, <2>3, <2>4 DEF SaveExpensePatch, DeskRows
<1>11. ASSUME NEW d \in Desks, CheckInShift(d) PROVE DeskTyped'
  <2>1. ShiftOf(NewShift(desk[d].copy))
    BY <1>11 DEF CheckInShift, DeskHands, DeskHolds, ShiftOf, NewShift
  <2>2. (\E S : shift' \in Seq(S)) /\ \A k \in DOMAIN shift' : ShiftOf(shift'[k])
    <3>1. PICK S : shift \in Seq(S)
      BY DEF DeskRows
    <3> QED BY <1>11, <2>1, <3>1, RowAppended DEF DeskRows, CheckInShift
  <2>3. DeskHands'
    BY <1>11, FreeHolds, HandsPut DEF CheckInShift
  <2> QED BY <1>1, <1>11, <2>2, <2>3 DEF CheckInShift, DeskRows
<1>12. ASSUME NEW d \in Desks, SaveShift(d) PROVE DeskTyped'
  <2> DEFINE k == desk[d].row
             x == IF desk[d].stage = "check out" THEN [shift[k] EXCEPT !.out = TRUE]
                  ELSE [desk[d].copy EXCEPT !.selfie = TRUE]
  <2>1. shift' = [shift EXCEPT ![k] = x] /\ Put(d, FreeDesk)
    BY <1>12 DEF SaveShift
  <2>2. k \in DOMAIN shift => ShiftOf(x)
    <3>1. CASE desk[d].stage = "check out"
      BY <3>1 DEF DeskRows, ShiftOf
    <3>2. CASE desk[d].stage = "selfie"
      BY <3>2 DEF DeskHands, DeskHolds, ShiftOf
    <3> QED BY <1>12, <3>1, <3>2 DEF SaveShift
  <2> HIDE DEF x
  <2>3. (\E S : shift' \in Seq(S)) /\ \A j \in DOMAIN shift' : ShiftOf(shift'[j])
    <3>1. PICK S : shift \in Seq(S)
      BY DEF DeskRows
    <3> QED BY <2>1, <2>2, <3>1, RowsReplace DEF DeskRows
  <2>4. DeskHands'
    BY <2>1, FreeHolds, HandsPut
  <2> QED BY <1>1, <1>12, <2>3, <2>4 DEF SaveShift, DeskRows
<1>13. ASSUME NEW d \in Desks, NEW r, BeginCall(d, r), DeskHolds(r), UNCHANGED <<expense, shift, notice, token, keyed>>
       PROVE  DeskTyped'
  <2>1. DeskHands'
    BY <1>13, HandsPut DEF BeginCall
  <2> QED BY <1>1, <1>13, <2>1 DEF BeginCall, DeskRows
<1>14. ASSUME NEW d \in Desks, NEW a \in Agents, ReadOpen(d, a) PROVE DeskTyped'
  <2>1. DeskHolds([stage |-> "check in", row |-> 0, copy |-> a])
    BY DEF DeskHolds, DeskStages
  <2> QED BY <1>13, <1>14, <2>1 DEF ReadOpen
<1>15. ASSUME NEW d \in Desks, NEW k \in DOMAIN expense, ReadExpensePatch(d, k) PROVE DeskTyped'
  <2>1. DeskHolds([stage |-> "patch", row |-> k, copy |-> expense[k]])
    BY DEF DeskHolds, DeskStages, DeskRows
  <2> QED BY <1>13, <1>15, <2>1 DEF ReadExpensePatch
<1>16. ASSUME NEW d \in Desks, NEW k \in DOMAIN expense, NEW x, ReadExpense(d, k, x) PROVE DeskTyped'
  <2>1. DeskHolds([stage |-> "decide", row |-> k, copy |-> x])
    BY DEF DeskHolds, DeskStages
  <2> QED BY <1>13, <1>16, <2>1 DEF ReadExpense
<1>17. ASSUME NEW d \in Desks, NEW k \in DOMAIN shift, NEW x \in {"check out", "selfie"}, ReadShift(d, k, x)
       PROVE  DeskTyped'
  <2>1. DeskHolds([stage |-> x, row |-> k, copy |-> shift[k]])
    BY DEF DeskHolds, DeskStages, DeskRows
  <2> QED BY <1>13, <1>17, <2>1 DEF ReadShift
<1> QED
  BY <1>2, <1>3, <1>4, <1>5, <1>6, <1>7, <1>8, <1>9, <1>10, <1>11, <1>12, <1>14, <1>15, <1>16, <1>17 DEF DeskNext

\* Expenses, attendance, calls, notices and tokens stay what their tables can hold.
THEOREM DesksTyped == MaxDeskCalls \in Nat => (DeskSpec => []DeskTypeOK)
<1> SUFFICES ASSUME MaxDeskCalls \in Nat PROVE DeskSpec => []DeskTypeOK
  OBVIOUS
<1>1. DeskTyped => DeskTypeOK
  BY DEF DeskTyped, DeskTypeOK, DeskRows, DeskHands, DeskHolds, DeskStages, ExpenseOf, ShiftOf
<1> QED BY <1>1, DeskTypedInit, DeskTypedStep, PTL DEF DeskSpec

-----------------------------------------------------------------------------
(* Types of sign-ups and accounts *)

AccountRows ==
    /\ \A k \in DOMAIN signup : signup[k].status \in {"pending", "approved", "rejected"}
    /\ \E S : device \in Seq(S)
    /\ Len(device) = Len(user)
    /\ \A u \in DOMAIN user : user[u].roles \subseteq Roles /\ user[u].active \in BOOLEAN
    /\ \A l \in links : l.user \in DOMAIN user

\* What an administrator's call r has in its hands while the accounts are those of D.
InHands(r, D) ==
    /\ r.role \in Roles \cup {NoRole}
    /\ r.stage \in {"mail", "devices", "grant", "approved", "deactivate", "activate", "patch"} => r.u \in D
    /\ r.stage = "patch" => r.copy.active \in BOOLEAN

AccountHands == \A a \in Admins : InHands(admin[a], DOMAIN user)

AccountTyped ==
    AccountInv /\ AccountRows /\ AccountHands /\ adminCalls \in 0..MaxAdminCalls /\ changes \in 0..MaxChanges

AccountBounds == MaxAdminCalls \in Nat /\ MaxChanges \in Nat

LEMMA AccountTypedInit == AccountBounds /\ AccountInit => AccountTyped
<1> SUFFICES ASSUME AccountBounds, AccountInit PROVE AccountTyped
  OBVIOUS
<1>1. device \in Seq({}) /\ DOMAIN user = {} /\ DOMAIN signup = {} /\ Len(device) = Len(user)
  BY DEF AccountInit
<1>2. InHands(NoAdminCall, DOMAIN user)
  BY DEF InHands, NoAdminCall
<1>3. AccountRows
  BY <1>1 DEF AccountInit, AccountRows
<1> QED BY <1>2, <1>3, AccountInitially DEF AccountInit, AccountHands, AccountTyped, AccountBounds

\* A row of a user is replaced by another of the types.
LEMMA UserReplaced ==
    ASSUME AccountInv, AccountRows, NEW i, NEW x, i \in DOMAIN user => x.roles \subseteq Roles /\ x.active \in BOOLEAN,
           user' = [user EXCEPT ![i] = x]
    PROVE  /\ DOMAIN user' = DOMAIN user /\ Len(user') = Len(user)
           /\ \A u \in DOMAIN user' : user'[u].roles \subseteq Roles /\ user'[u].active \in BOOLEAN
<1>1. PICK S : user \in Seq(S)
  BY DEF AccountInv, AccountShape
<1> QED BY <1>1, RowsReplace DEF AccountRows

LEMMA HandsKept ==
    ASSUME AccountHands, AccountInv, NEW a \in Admins, NEW r, admin' = [admin EXCEPT ![a] = r],
           InHands(r, DOMAIN user'), DOMAIN user \subseteq DOMAIN user'
    PROVE  AccountHands'
<1>1. admin'[a] = r /\ \A b \in Admins \ {a} : admin'[b] = admin[b]
  BY DEF AccountInv, AccountShape
<1>2. \A b \in Admins \ {a} : InHands(admin'[b], DOMAIN user')
  BY <1>1 DEF AccountHands, InHands
<1> QED BY <1>1, <1>2 DEF AccountHands

LEMMA HandsSame ==
    ASSUME AccountHands, UNCHANGED admin, DOMAIN user \subseteq DOMAIN user'
    PROVE  AccountHands'
BY DEF AccountHands, InHands

\* A call that moves to a stage keeps the rest of what it holds.
LEMMA StageOnly ==
    ASSUME NEW r, CallRow(r), NEW x
    PROVE  LET n == [r EXCEPT !.stage = x] IN n.stage = x /\ n.role = r.role /\ n.u = r.u /\ n.copy = r.copy
BY DEF CallRow

LEMMA Ended == \A D : InHands(NoAdminCall, D)
BY DEF InHands, NoAdminCall

LEMMA AccountTypedStep == ASSUME AccountBounds, AccountTyped, [AccountNext]_accountVars PROVE AccountTyped'
<1> USE DEF AccountTyped
<1>1. AccountInv'
  BY AccountStepwise
<1>2. CASE UNCHANGED accountVars
  BY <1>1, <1>2, HandsSame DEF accountVars, AccountRows
<1>3. ASSUME NEW e \in Emails, Submit(e) PROVE AccountTyped'
  <2> DEFINE x == [email |-> e, status |-> "pending", user |-> 0, role |-> NoRole]
  <2>1. x.status = "pending"
    OBVIOUS
  <2>2. PICK S : signup \in Seq(S)
    BY DEF AccountInv, AccountShape
  <2>3. signup' = Append(signup, x) /\ UNCHANGED <<user, links, device, admin, adminCalls, changes>>
    BY <1>3 DEF Submit
  <2> HIDE DEF x
  <2>4. \A k \in DOMAIN signup' : signup'[k].status \in {"pending", "approved", "rejected"}
    BY <2>1, <2>2, <2>3, RowAppended DEF AccountRows
  <2> QED BY <1>1, <2>3, <2>4, HandsSame DEF AccountRows
<1>4. ASSUME NEW a \in Admins, NEW r, BeginAdmin(a, r), InHands(r, DOMAIN user),
             UNCHANGED <<signup, user, links, device, changes>>
      PROVE  AccountTyped'
  <2>1. AccountHands'
    BY <1>4, HandsKept DEF BeginAdmin
  <2> QED BY <1>1, <1>4, <2>1 DEF BeginAdmin, AccountRows, AccountBounds
<1>5. ASSUME NEW a \in Admins, NEW k \in DOMAIN signup, NEW st \in {"rejected", "create"}, NEW n,
             NEW o \in Roles \cup {NoRole}, ReadSignup(a, k, st, n, o)
      PROVE  AccountTyped'
  <2> DEFINE r == [NoAdminCall EXCEPT !.stage = st, !.k = k, !.name = n, !.role = o]
  <2>1. r.role = o /\ r.stage = st
    BY DEF NoAdminCall
  <2>2. BeginAdmin(a, r) /\ UNCHANGED <<signup, user, links, device, changes>>
    BY <1>5 DEF ReadSignup
  <2> HIDE DEF r
  <2>3. InHands(r, DOMAIN user)
    BY <2>1 DEF InHands
  <2> QED BY <1>4, <2>2, <2>3
<1>6. ASSUME NEW a \in Admins, NEW u \in DOMAIN user, NEW st \in {"deactivate", "activate", "patch"},
             ReadUser(a, u, st)
      PROVE  AccountTyped'
  <2> DEFINE r == [NoAdminCall EXCEPT !.stage = st, !.u = u, !.copy = user[u]]
  <2>1. r.role = NoRole /\ r.u = u /\ r.copy = user[u]
    BY DEF NoAdminCall
  <2>2. BeginAdmin(a, r) /\ UNCHANGED <<signup, user, links, device, changes>>
    BY <1>6 DEF ReadUser
  <2> HIDE DEF r
  <2>3. InHands(r, DOMAIN user)
    BY <2>1 DEF InHands, AccountRows
  <2> QED BY <1>4, <2>2, <2>3
<1>7. ASSUME NEW a \in Admins, CreateUser(a) PROVE AccountTyped'
  <2>1. CASE End(a) /\ UNCHANGED <<user, device>>
    <3>1. AccountHands'
      BY <2>1, HandsKept, Ended DEF End
    <3> QED BY <1>1, <1>7, <2>1, <3>1 DEF CreateUser, AccountRows
  <2>2. CASE ~(End(a) /\ UNCHANGED <<user, device>>)
    <3> DEFINE n == NewUser(admin[a].name, signup[admin[a].k].email)
               r == [[admin[a] EXCEPT !.u = Len(user')] EXCEPT !.stage = "grant"]
    <3>1. /\ user' = Append(user, n) /\ device' = Append(device, FALSE)
          /\ admin' = [admin EXCEPT ![a] = r]
          /\ UNCHANGED <<signup, links, adminCalls, changes>>
      BY <1>7, <2>2 DEF CreateUser, AccountInv, AccountShape
    <3>2. n.roles = {} /\ n.active = TRUE
      BY DEF NewUser
    <3>3. CallRow(admin[a])
      BY DEF AccountInv, AccountShape
    <3>4. r.u = Len(user') /\ r.stage = "grant" /\ r.role = admin[a].role
      BY <3>3 DEF CallRow
    <3> HIDE DEF n, r
    <3>5. /\ DOMAIN user \subseteq DOMAIN user' /\ Len(user') \in DOMAIN user' /\ Len(device') = Len(user')
          /\ \E S : device' \in Seq(S)
      <4>1. PICK S : user \in Seq(S)
        BY DEF AccountInv, AccountShape
      <4>2. PICK D : device \in Seq(D)
        BY DEF AccountRows
      <4>3. Len(user') = Len(user) + 1 /\ DOMAIN user' = 1..(Len(user) + 1)
        BY <3>1, <4>1
      <4>4. Len(device') = Len(device) + 1
        BY <3>1, <4>2
      <4>5. Len(user) \in Nat /\ DOMAIN user = 1..Len(user)
        BY <4>1
      <4>6. \E U : device' \in Seq(U)
        BY <3>1, <4>2, RowAppended
      <4> QED BY <4>3, <4>4, <4>5, <4>6 DEF AccountRows
    <3>6. \A u \in DOMAIN user' : user'[u].roles \subseteq Roles /\ user'[u].active \in BOOLEAN
      <4>1. PICK S : user \in Seq(S)
        BY DEF AccountInv, AccountShape
      <4>2. \A u \in DOMAIN user' : user'[u] = n \/ (u \in DOMAIN user /\ user'[u] = user[u])
        BY <3>1, <4>1, RowAppended
      <4>3. n.roles \subseteq Roles /\ n.active \in BOOLEAN
        BY <3>2
      <4> QED BY <4>2, <4>3 DEF AccountRows
    <3>7. InHands(r, DOMAIN user')
      BY <3>4, <3>5 DEF InHands, AccountHands
    <3>8. AccountHands'
      BY <3>1, <3>5, <3>7, HandsKept
    <3> QED BY <1>1, <3>1, <3>5, <3>6, <3>8 DEF AccountRows
  <2> QED BY <2>1, <2>2
<1>8. ASSUME NEW a \in Admins, GrantRole(a) PROVE AccountTyped'
  <2> DEFINE u == admin[a].u
             x == [user[u] EXCEPT !.roles = Granted(u, admin[a].role)]
             r == [admin[a] EXCEPT !.stage = "approved"]
  <2>1. CallRow(admin[a]) /\ InHands(admin[a], DOMAIN user) /\ admin[a].stage = "grant"
    BY <1>8 DEF AccountInv, AccountShape, AccountHands, GrantRole
  <2>2. u \in DOMAIN user
    BY <2>1 DEF InHands
  <2>3. x.roles \subseteq Roles /\ x.active \in BOOLEAN
    BY <2>1, <2>2 DEF AccountInv, AccountShape, UserRow, AccountRows, Granted, InHands
  <2>4. user' = [user EXCEPT ![u] = x] /\ admin' = [admin EXCEPT ![a] = r]
        /\ UNCHANGED <<signup, links, device, adminCalls, changes>>
    BY <1>8 DEF GrantRole, ToStage
  <2>5. r.role = admin[a].role /\ r.u = u /\ r.stage = "approved"
    BY <2>1, StageOnly
  <2> HIDE DEF x, r, u
  <2>6. /\ DOMAIN user' = DOMAIN user /\ Len(user') = Len(user)
        /\ \A w \in DOMAIN user' : user'[w].roles \subseteq Roles /\ user'[w].active \in BOOLEAN
    BY <2>3, <2>4, UserReplaced
  <2>7. InHands(r, DOMAIN user')
    BY <2>1, <2>2, <2>5, <2>6 DEF InHands
  <2>8. AccountHands'
    BY <2>4, <2>6, <2>7, HandsKept
  <2> QED BY <1>1, <2>4, <2>6, <2>8 DEF AccountRows
<1>9. ASSUME NEW a \in Admins, SaveSignup(a) PROVE AccountTyped'
  <2> DEFINE c == admin[a]
             x == [[[signup[c.k] EXCEPT !.status = c.stage]
                       EXCEPT !.user = IF c.stage = "approved" THEN c.u ELSE @]
                       EXCEPT !.role = IF c.stage = "approved" THEN c.role ELSE @]
             r == IF c.stage = "approved" THEN [admin[a] EXCEPT !.stage = "mail"] ELSE NoAdminCall
  <2>1. c.stage \in {"approved", "rejected"} /\ CallRow(c) /\ InHands(c, DOMAIN user) /\ c.k \in DOMAIN signup
    BY <1>9 DEF SaveSignup, AccountInv, AccountShape, AccountHands, Working, Unnamed
  <2>2. SignupRow(signup[c.k])
    BY <2>1 DEF AccountInv, AccountShape
  <2>3. x.status = c.stage
    BY <2>2 DEF SignupRow
  <2>4. PICK S : signup \in Seq(S)
    BY DEF AccountInv, AccountShape
  <2>5. signup' = [signup EXCEPT ![c.k] = x]
    <3> DEFINE old == signup[c.k]
               y == [old EXCEPT !.status = c.stage]
    <3>1. signup = [k \in DOMAIN signup |-> signup[k]]
      BY <2>4
    <3>2. CASE c.stage = "approved"
      <4>1. x = [[y EXCEPT !.user = c.u] EXCEPT !.role = c.role]
        BY <3>2
      <4>2. signup' = [signup EXCEPT ![c.k].status = c.stage, ![c.k].user = c.u, ![c.k].role = c.role]
        BY <1>9, <3>2 DEF SaveSignup
      <4> HIDE DEF x
      <4> QED BY <2>1, <3>1, <4>1, <4>2
    <3>3. CASE c.stage # "approved"
      <4>1. x = [[y EXCEPT !.user = @] EXCEPT !.role = @]
        BY <3>3
      <4>2. signup' = [signup EXCEPT ![c.k].status = c.stage, ![c.k].user = @, ![c.k].role = @]
        BY <1>9, <3>3 DEF SaveSignup
      <4> HIDE DEF x
      <4> QED BY <2>1, <3>1, <4>1, <4>2
    <3> QED BY <3>2, <3>3
  <2>6. admin' = [admin EXCEPT ![a] = r] /\ UNCHANGED <<user, links, device, adminCalls, changes>>
    BY <1>9 DEF SaveSignup, ToStage, End
  <2>7. InHands(r, DOMAIN user')
    <3>1. [admin[a] EXCEPT !.stage = "mail"].role = c.role /\ [admin[a] EXCEPT !.stage = "mail"].u = c.u
          /\ [admin[a] EXCEPT !.stage = "mail"].stage = "mail"
      BY <2>1, StageOnly
    <3> QED BY <2>1, <2>6, <3>1, Ended DEF InHands
  <2> HIDE DEF x, r
  <2>8. \A k \in DOMAIN signup' : signup'[k].status \in {"pending", "approved", "rejected"}
    BY <2>1, <2>3, <2>4, <2>5, RowsReplace DEF AccountRows
  <2>9. AccountHands'
    BY <2>6, <2>7, HandsKept
  <2> QED BY <1>1, <2>6, <2>8, <2>9 DEF AccountRows
<1>10. ASSUME NEW a \in Admins, MailLink(a) PROVE AccountTyped'
  <2>1. admin[a].u \in DOMAIN user
    BY <1>10 DEF MailLink, AccountHands, InHands
  <2>2. LinkOf(admin[a].u).user = admin[a].u
    BY DEF LinkOf
  <2>3. AccountHands'
    BY <1>10, HandsKept, Ended DEF MailLink, End
  <2> QED BY <1>1, <1>10, <2>1, <2>2, <2>3 DEF MailLink, AccountRows
<1>11. ASSUME NEW a \in Admins, SaveActive(a) PROVE AccountTyped'
  <2> DEFINE u == admin[a].u
             x == [user[u] EXCEPT !.active = (admin[a].stage = "activate")]
             r == IF admin[a].stage = "deactivate" THEN [admin[a] EXCEPT !.stage = "devices"] ELSE NoAdminCall
  <2>1. CallRow(admin[a]) /\ InHands(admin[a], DOMAIN user) /\ admin[a].stage \in {"deactivate", "activate"}
    BY <1>11 DEF AccountInv, AccountShape, AccountHands, SaveActive
  <2>2. u \in DOMAIN user
    BY <2>1 DEF InHands
  <2>3. x.roles \subseteq Roles /\ x.active \in BOOLEAN
    BY <2>1, <2>2 DEF AccountInv, AccountShape, UserRow, AccountRows
  <2>4. user' = [user EXCEPT ![u] = x] /\ admin' = [admin EXCEPT ![a] = r]
        /\ UNCHANGED <<signup, links, device, adminCalls, changes>>
    BY <1>11 DEF SaveActive, ToStage, End
  <2>5. InHands(r, DOMAIN user)
    <3>1. [admin[a] EXCEPT !.stage = "devices"].role = admin[a].role /\ [admin[a] EXCEPT !.stage = "devices"].u = u
          /\ [admin[a] EXCEPT !.stage = "devices"].stage = "devices"
      BY <2>1, StageOnly
    <3> QED BY <2>1, <2>2, <3>1, Ended DEF InHands
  <2> HIDE DEF x, r, u
  <2>6. /\ DOMAIN user' = DOMAIN user /\ Len(user') = Len(user)
        /\ \A w \in DOMAIN user' : user'[w].roles \subseteq Roles /\ user'[w].active \in BOOLEAN
    BY <2>3, <2>4, UserReplaced
  <2>7. AccountHands'
    BY <2>4, <2>5, <2>6, HandsKept
  <2> QED BY <1>1, <2>4, <2>6, <2>7 DEF AccountRows
<1>12. ASSUME NEW i, NEW x, device' = [device EXCEPT ![i] = x]
       PROVE  Len(device') = Len(device) /\ \E S : device' \in Seq(S)
  <2>1. PICK D : device \in Seq(D)
    BY DEF AccountRows
  <2> QED BY <1>12, <2>1, RowsReplace
<1>13. ASSUME NEW a \in Admins, SwitchOffDevices(a) PROVE AccountTyped'
  <2>1. AccountHands'
    BY <1>13, HandsKept, Ended DEF SwitchOffDevices, End
  <2>2. Len(device') = Len(device) /\ \E S : device' \in Seq(S)
    BY <1>12, <1>13 DEF SwitchOffDevices
  <2> QED BY <1>1, <1>13, <2>1, <2>2 DEF SwitchOffDevices, AccountRows
<1>14. ASSUME NEW a \in Admins, SaveUser(a) PROVE AccountTyped'
  <2> DEFINE c == admin[a]
             x == [c.copy EXCEPT !.roles = user[c.u].roles]
  <2>1. UserRow(c.copy) /\ c.u \in DOMAIN user /\ c.copy.active \in BOOLEAN
    BY <1>14 DEF SaveUser, AccountInv, Working, AccountHands, InHands
  <2>2. x.roles \subseteq Roles /\ x.active \in BOOLEAN
    BY <2>1 DEF UserRow, AccountRows
  <2>3. user' = [user EXCEPT ![c.u] = x] /\ admin' = [admin EXCEPT ![a] = NoAdminCall]
        /\ UNCHANGED <<signup, links, device, adminCalls, changes>>
    BY <1>14 DEF SaveUser, End
  <2> HIDE DEF x
  <2>4. /\ DOMAIN user' = DOMAIN user /\ Len(user') = Len(user)
        /\ \A w \in DOMAIN user' : user'[w].roles \subseteq Roles /\ user'[w].active \in BOOLEAN
    BY <2>2, <2>3, UserReplaced
  <2>5. AccountHands'
    BY <2>3, <2>4, Ended, HandsKept
  <2> QED BY <1>1, <2>3, <2>4, <2>5 DEF AccountRows
<1>15. ASSUME NEW a \in Admins, AdminDies(a) PROVE AccountTyped'
  <2>1. AccountHands'
    BY <1>15, HandsKept, Ended DEF AdminDies, End
  <2> QED BY <1>1, <1>15, <2>1 DEF AdminDies, AccountRows
<1>16. ASSUME NEW u \in DOMAIN user, RequestReset(u) PROVE AccountTyped'
  <2>1. LinkOf(u).user = u
    BY DEF LinkOf
  <2> QED BY <1>1, <1>16, <2>1, HandsSame DEF RequestReset, AccountRows
<1>17. ASSUME NEW u \in DOMAIN user, Login(u) PROVE AccountTyped'
  <2> DEFINE x == [user[u] EXCEPT !.login = user[u].password]
  <2>1. x.roles \subseteq Roles /\ x.active \in BOOLEAN
    BY DEF AccountInv, AccountShape, UserRow, AccountRows
  <2>2. user' = [user EXCEPT ![u] = x] /\ UNCHANGED <<signup, links, admin, adminCalls, changes>>
    BY <1>17 DEF Login
  <2> HIDE DEF x
  <2>3. /\ DOMAIN user' = DOMAIN user /\ Len(user') = Len(user)
        /\ \A w \in DOMAIN user' : user'[w].roles \subseteq Roles /\ user'[w].active \in BOOLEAN
    BY <2>1, <2>2, UserReplaced
  <2>4. Len(device') = Len(device) /\ \E S : device' \in Seq(S)
    BY <1>12, <1>17 DEF Login
  <2> QED BY <1>1, <2>2, <2>3, <2>4, HandsSame DEF AccountRows
<1>18. ASSUME NEW l \in links, SetPassword(l) PROVE AccountTyped'
  <2> DEFINE u == l.user
             x == [user[u] EXCEPT !.password = changes']
  <2>1. u \in DOMAIN user
    BY DEF AccountRows
  <2>2. x.roles \subseteq Roles /\ x.active \in BOOLEAN
    BY <2>1 DEF AccountInv, AccountShape, UserRow, AccountRows
  <2>3. user' = [user EXCEPT ![u] = x] /\ UNCHANGED <<signup, links, device, admin, adminCalls>>
        /\ changes' \in 0..MaxChanges
    BY <1>18 DEF SetPassword, AccountBounds
  <2> HIDE DEF x, u
  <2>4. /\ DOMAIN user' = DOMAIN user /\ Len(user') = Len(user)
        /\ \A w \in DOMAIN user' : user'[w].roles \subseteq Roles /\ user'[w].active \in BOOLEAN
    BY <2>2, <2>3, UserReplaced
  <2> QED BY <1>1, <2>3, <2>4, HandsSame DEF AccountRows
<1> QED
  BY <1>2, <1>3, <1>5, <1>6, <1>7, <1>8, <1>9, <1>10, <1>11, <1>13, <1>14, <1>15, <1>16, <1>17, <1>18
     DEF AccountNext, AdminStep

\* Requests, accounts, devices and links stay what their tables can hold.
THEOREM AccountsTyped == AccountBounds => (AccountSpec => []AccountTypeOK)
<1> SUFFICES ASSUME AccountBounds PROVE AccountSpec => []AccountTypeOK
  OBVIOUS
<1>1. AccountTyped => AccountTypeOK
  BY DEF AccountTyped, AccountTypeOK, AccountRows
<1> QED BY <1>1, AccountTypedInit, AccountTypedStep, PTL DEF AccountSpec

-----------------------------------------------------------------------------
(* Types of change requests *)

ChangeOf(c) ==
    /\ c.status \in {"pending", "approved", "rejected"}
    /\ c.by \in Users /\ c.reviewer \in Users \cup {NoUser}

\* Where a review may be while the requests are those of D.
ReviewAt(r, D) ==
    /\ r.stage \in {"idle", "approve", "apply", "approved", "rejected"}
    /\ r.of \in D \cup {NoRequest} /\ (r.stage # "idle" => r.by \in Users)

ReviewTyped ==
    /\ ReviewInv
    /\ \A k \in DOMAIN change : ChangeOf(change[k])
    /\ \A w \in Reviewers : ReviewAt(review[w], DOMAIN change)
    /\ reviews \in 0..MaxReviews

LEMMA ReviewTypedInit == MaxReviews \in Nat /\ ReviewInit => ReviewTyped
<1> SUFFICES ASSUME MaxReviews \in Nat, ReviewInit PROVE ReviewTyped
  OBVIOUS
<1>1. ReviewAt(NoReview, DOMAIN change)
  BY DEF ReviewAt, NoReview
<1> QED BY <1>1, ReviewInitially DEF ReviewInit, ReviewTyped

\* Calls stay where they are, or one goes to r.
LEMMA ReviewsMove ==
    ASSUME ReviewTyped, NEW w \in Reviewers, NEW r, review' = [review EXCEPT ![w] = r], ReviewAt(r, DOMAIN change'),
           DOMAIN change \subseteq DOMAIN change'
    PROVE  \A v \in Reviewers : ReviewAt(review'[v], DOMAIN change')
<1>1. review'[w] = r /\ \A v \in Reviewers \ {w} : review'[v] = review[v]
  BY DEF ReviewTyped, ReviewInv, ReviewShape
<1> QED BY <1>1 DEF ReviewTyped, ReviewAt

LEMMA ReviewTypedStep == ASSUME MaxReviews \in Nat, ReviewTyped, [ReviewNext]_changeVars PROVE ReviewTyped'
<1>1. ReviewInv'
  BY ReviewStepwise DEF ReviewTyped
<1>2. CASE UNCHANGED changeVars
  BY <1>1, <1>2 DEF changeVars, ReviewTyped
<1>3. ASSUME NEW u \in Users, NEW p \in Proposals, Propose(u, p) PROVE ReviewTyped'
  <2> DEFINE c == [target |-> p.target, changes |-> p.changes, status |-> "pending", by |-> u, reviewer |-> NoUser]
  <2>1. ChangeOf(c)
    BY DEF ChangeOf
  <2>2. change' = Append(change, c) /\ UNCHANGED <<review, reviews>>
    BY <1>3 DEF Propose
  <2> HIDE DEF c
  <2>3. PICK S : change \in Seq(S)
    BY DEF ReviewTyped, ReviewInv, ReviewShape
  <2>4. \A k \in DOMAIN change' : ChangeOf(change'[k])
    BY <2>1, <2>2, <2>3, RowAppended DEF ReviewTyped
  <2>5. DOMAIN change \subseteq DOMAIN change'
    BY <2>2, <2>3
  <2> QED BY <1>1, <2>2, <2>4, <2>5 DEF ReviewTyped, ReviewAt
<1>4. ASSUME NEW w \in Reviewers, NEW u \in Users, NEW k \in DOMAIN change, NEW st \in {"approve", "rejected"},
             ReadChange(w, u, k, st)
      PROVE  ReviewTyped'
  <2> DEFINE r == [stage |-> st, of |-> k, by |-> u, copy |-> <<>>]
  <2>1. ReviewAt(r, DOMAIN change)
    BY DEF ReviewAt
  <2> HIDE DEF r
  <2>2. \A v \in Reviewers : ReviewAt(review'[v], DOMAIN change')
    BY <1>4, <2>1, ReviewsMove DEF ReadChange, r
  <2> QED BY <1>1, <1>4, <2>2 DEF ReadChange, ReviewTyped
<1>5. ASSUME NEW w \in Reviewers, ReadTarget(w) \/ ApplyChange(w) \/ SaveReview(w) \/ ReviewDies(w),
             NEW r, review' = [review EXCEPT ![w] = r], r.stage \in {"idle", "apply", "approved"},
             r.of \in {review[w].of, NoRequest}, r.stage # "idle" => r.by = review[w].by /\ review[w].stage # "idle",
             DOMAIN change' = DOMAIN change
      PROVE  \A v \in Reviewers : ReviewAt(review'[v], DOMAIN change')
  <2>1. ReviewAt(r, DOMAIN change')
    BY <1>5 DEF ReviewTyped, ReviewAt
  <2> QED BY <1>5, <2>1, ReviewsMove
<1>6. ASSUME NEW w \in Reviewers PROVE ReviewRow(review[w])
  BY DEF ReviewTyped, ReviewInv, ReviewShape
<1>7. ASSUME NEW w \in Reviewers, ReadTarget(w) PROVE ReviewTyped'
  <2> DEFINE x == value[change[review[w].of].target]
             r == [review[w] EXCEPT !.stage = "apply", !.copy = x]
  <2>1. review' = [review EXCEPT ![w] = r]
    BY <1>7 DEF ReadTarget, ReviewTyped, ReviewInv, ReviewShape
  <2>2. r = [stage |-> "apply", of |-> review[w].of, by |-> review[w].by, copy |-> x]
    <3> HIDE DEF x
    <3> QED BY <1>6, ReviewFields
  <2>3. r.stage = "apply" /\ r.of = review[w].of /\ r.by = review[w].by
    BY <2>2
  <2> HIDE DEF r
  <2>4. \A v \in Reviewers : ReviewAt(review'[v], DOMAIN change')
    BY <1>5, <1>7, <2>1, <2>3 DEF ReadTarget
  <2> QED BY <1>1, <1>7, <2>4 DEF ReadTarget, ReviewTyped
<1>8. ASSUME NEW w \in Reviewers, ApplyChange(w) PROVE ReviewTyped'
  <2> DEFINE r == [review[w] EXCEPT !.stage = "approved", !.copy = <<>>]
  <2>1. review' = [review EXCEPT ![w] = r]
    BY <1>8 DEF ApplyChange, ReviewTyped, ReviewInv, ReviewShape
  <2>2. r = [stage |-> "approved", of |-> review[w].of, by |-> review[w].by, copy |-> <<>>]
    BY <1>6, ReviewFields
  <2>3. r.stage = "approved" /\ r.of = review[w].of /\ r.by = review[w].by
    BY <2>2
  <2> HIDE DEF r
  <2>4. \A v \in Reviewers : ReviewAt(review'[v], DOMAIN change')
    BY <1>5, <1>8, <2>1, <2>3 DEF ApplyChange
  <2> QED BY <1>1, <1>8, <2>4 DEF ApplyChange, ReviewTyped
<1>9. NoReview.stage = "idle" /\ NoReview.of = NoRequest
  BY DEF NoReview
<1>10. ASSUME NEW w \in Reviewers, ReviewDies(w) PROVE ReviewTyped'
  <2>1. \A v \in Reviewers : ReviewAt(review'[v], DOMAIN change')
    BY <1>5, <1>9, <1>10 DEF ReviewDies
  <2> QED BY <1>1, <1>10, <2>1 DEF ReviewDies, ReviewTyped
<1>11. ASSUME NEW w \in Reviewers, SaveReview(w) PROVE ReviewTyped'
  <2> DEFINE c == review[w]
             k == c.of
             st == c.stage
             u == c.by
             x == [change[k] EXCEPT !.status = st, !.reviewer = u]
  <2>1. st \in {"approved", "rejected"} /\ k \in DOMAIN change /\ u \in Users
    BY <1>11 DEF SaveReview, ReviewTyped, ReviewInv, Reviewing, ReviewAt
  <2>2. PICK S : change \in Seq(S)
    BY DEF ReviewTyped, ReviewInv, ReviewShape
  <2>3. change' = [change EXCEPT ![k] = x]
    <3>1. change = [m \in DOMAIN change |-> change[m]]
      BY <2>2
    <3> QED BY <1>11, <2>1, <3>1 DEF SaveReview
  <2>4. ChangeRow(change[k]) /\ change[k].by \in Users
    BY <2>1 DEF ReviewTyped, ReviewInv, ReviewShape, ChangeOf
  <2>5. x = [target |-> change[k].target, changes |-> change[k].changes, status |-> st, by |-> change[k].by,
             reviewer |-> u]
    <3> HIDE DEF st, u, k
    <3> QED BY <2>4, ChangeFields
  <2>6. ChangeOf(x)
    BY <2>1, <2>4, <2>5 DEF ChangeOf
  <2> HIDE DEF x, k, u, st
  <2>7. DOMAIN change' = DOMAIN change /\ \A m \in DOMAIN change' : ChangeOf(change'[m])
    BY <2>2, <2>3, <2>6, RowsReplace DEF ReviewTyped
  <2>8. \A v \in Reviewers : ReviewAt(review'[v], DOMAIN change')
    BY <1>5, <1>9, <1>11, <2>7 DEF SaveReview
  <2> QED BY <1>1, <1>11, <2>7, <2>8 DEF SaveReview, ReviewTyped
<1> QED
  BY <1>2, <1>3, <1>4, <1>7, <1>8, <1>10, <1>11 DEF ReviewNext, ReadToApprove, ReadToReject

\* Governed rows, requests and reviews stay what their tables can hold.
THEOREM ReviewsTyped == MaxReviews \in Nat => (ReviewSpec => []ReviewTypeOK)
<1> SUFFICES ASSUME MaxReviews \in Nat PROVE ReviewSpec => []ReviewTypeOK
  OBVIOUS
<1>1. ReviewTyped => ReviewTypeOK
  <2> SUFFICES ASSUME ReviewTyped PROVE ReviewTypeOK
    OBVIOUS
  <2>1. \A t \in Targets : DOMAIN value[t] = Governed[KindOf[t]]
    BY DEF ReviewTyped, ReviewInv, ReviewShape
  <2> QED BY <2>1 DEF ReviewTyped, ReviewInv, ReviewShape, ReviewAt, ChangeOf, ReviewTypeOK
<1> QED BY <1>1, ReviewTypedInit, ReviewTypedStep, PTL DEF ReviewSpec

-----------------------------------------------------------------------------
(* Types of tenants *)

DatabaseStates == {"absent", "empty", "migrated", "seeded"}

TenantTyped ==
    /\ RoutingInv
    /\ database \in [Databases -> DatabaseStates]
    /\ \A w \in Workers : provision[w].stage \in {"idle", "create", "save", "activate", "migrate", "seed"}
    /\ tenantEdits \in 0..MaxTenantEdits /\ restarts \in 0..MaxRestarts

TenantBounds == MaxTenantEdits \in Nat /\ MaxRestarts \in Nat

LEMMA StageAndDatabase ==
    ASSUME NEW p, p = [stage |-> p.stage, slug |-> p.slug, db |-> p.db], NEW x, NEW y
    PROVE  [p EXCEPT !.stage = x, !.db = y].stage = x
<1> DEFINE q == [p EXCEPT !.stage = x]
<1>1. q = [stage |-> x, slug |-> p.slug, db |-> p.db]
  OBVIOUS
<1> HIDE DEF q
<1>2. [q EXCEPT !.db = y].stage = x
  BY <1>1
<1> QED BY <1>2 DEF q

LEMMA TenantTypedStep == ASSUME TenantBounds, TenantTyped, [TenancyNext]_tenancyVars PROVE TenantTyped'
<1> USE DEF TenantTyped
<1>1. RoutingInv'
  BY Stepwise
<1> DEFINE Stages == {"idle", "create", "save", "activate", "migrate", "seed"}
<1>2. CASE UNCHANGED tenancyVars
  BY <1>1, <1>2 DEF tenancyVars
<1>3. ASSUME NEW w \in Workers, NEW r, Proceed(w, r), r.stage \in Stages
      PROVE  \A v \in Workers : provision'[v].stage \in Stages
  <2>1. provision'[w] = r /\ \A v \in Workers \ {w} : provision'[v] = provision[v]
    BY <1>3 DEF Proceed, RoutingInv, Shape
  <2> QED BY <1>3, <2>1
<1>4. NoProvision.stage = "idle"
  BY DEF NoProvision
<1>5. ASSUME NEW w \in Workers, NEW s \in Slugs, NEW db \in Databases, Validate(w, s, db) PROVE TenantTyped'
  <2> DEFINE r == [stage |-> "create", slug |-> s, db |-> db]
  <2>1. Proceed(w, r) /\ r.stage = "create"
    BY <1>5 DEF Validate
  <2> HIDE DEF r
  <2>2. \A v \in Workers : provision'[v].stage \in Stages
    BY <1>3, <2>1
  <2> QED BY <1>1, <1>5, <2>2 DEF Validate
<1>6. ASSUME NEW w \in Workers PROVE provision[w] = [stage |-> provision[w].stage, slug |-> provision[w].slug,
                                                    db |-> provision[w].db]
  BY DEF RoutingInv, Shape
<1>7. ASSUME NEW w \in Workers, CreateDatabase(w) PROVE TenantTyped'
  <2> DEFINE r == [provision[w] EXCEPT !.stage = "save"]
  <2>1. r.stage = "save"
    BY <1>6
  <2>2. (Proceed(w, r) \/ Proceed(w, NoProvision)) /\ UNCHANGED <<tenantEdits, restarts>>
    BY <1>7 DEF CreateDatabase
  <2> HIDE DEF r
  <2>3. \A v \in Workers : provision'[v].stage \in Stages
    BY <1>3, <1>4, <2>1, <2>2
  <2>4. database' \in [Databases -> DatabaseStates]
    BY <1>7 DEF CreateDatabase, DatabaseStates
  <2> QED BY <1>1, <2>2, <2>3, <2>4
<1>8. ASSUME NEW w \in Workers, SaveTenant(w) PROVE TenantTyped'
  <2> DEFINE r == [provision[w] EXCEPT !.stage = "activate"]
  <2>1. r.stage = "activate"
    BY <1>6
  <2>2. (Proceed(w, r) \/ Proceed(w, NoProvision)) /\ UNCHANGED <<database, tenantEdits, restarts>>
    BY <1>8 DEF SaveTenant
  <2> HIDE DEF r
  <2>3. \A v \in Workers : provision'[v].stage \in Stages
    BY <1>3, <1>4, <2>1, <2>2
  <2> QED BY <1>1, <2>2, <2>3
<1>9. ASSUME NEW w \in Workers, ActivateNew(w) PROVE TenantTyped'
  <2> DEFINE p == provision[w]
             d == registered'[w][p.slug]
             r == [p EXCEPT !.stage = "migrate", !.db = d]
  <2>1. r.stage = "migrate"
    <3>1. p = [stage |-> p.stage, slug |-> p.slug, db |-> p.db]
      BY <1>6
    <3> HIDE DEF p, d
    <3> QED BY <3>1, StageAndDatabase
  <2>2. Proceed(w, r) /\ UNCHANGED <<database, tenantEdits, restarts>>
    BY <1>9 DEF ActivateNew
  <2> HIDE DEF r
  <2>3. \A v \in Workers : provision'[v].stage \in Stages
    BY <1>3, <2>1, <2>2
  <2> QED BY <1>1, <2>2, <2>3
<1>10. ASSUME NEW w \in Workers, Prepare(w) PROVE TenantTyped'
  <2> DEFINE p == provision[w]
             r == IF p.stage = "migrate" THEN [p EXCEPT !.stage = "seed"] ELSE NoProvision
  <2>1. r.stage \in Stages
    BY <1>4, <1>6
  <2>2. Proceed(w, r) /\ UNCHANGED <<tenantEdits, restarts>>
    BY <1>10 DEF Prepare
  <2> HIDE DEF r
  <2>3. \A v \in Workers : provision'[v].stage \in Stages
    BY <1>3, <2>1, <2>2
  <2>4. database' \in [Databases -> DatabaseStates]
    BY <1>10 DEF Prepare, DatabaseStates
  <2> QED BY <1>1, <2>2, <2>3, <2>4
<1>11. ASSUME NEW w \in Workers, Restart(w) PROVE TenantTyped'
  <2>1. \A v \in Workers : provision'[v].stage \in Stages
    BY <1>3, <1>4, <1>11 DEF Restart
  <2> QED BY <1>1, <1>11, <2>1 DEF Restart, TenantBounds
<1>12. ASSUME NEW w \in Workers, NEW k, Resolve(w, k) \/ Serve(w) PROVE TenantTyped'
  BY <1>1, <1>12 DEF Resolve, Serve
<1>13. ASSUME AdminCall PROVE TenantTyped'
  BY <1>1, <1>13 DEF AdminCall, TenantBounds
<1>15. CASE \/ \E s \in Slugs, db \in Databases, active \in BOOLEAN :
                 AddTenant(s, db, active) \/ \E k \in DOMAIN tenant : EditTenant(k, s, db, active)
            \/ \E k \in DOMAIN tenant : DeleteTenant(k)
  BY <1>13, <1>15 DEF AddTenant, EditTenant, DeleteTenant
<1>14. CASE \E w \in Workers : Serve(w)
  BY <1>1, <1>14 DEF Serve
<1> QED
  BY <1>2, <1>5, <1>7, <1>8, <1>9, <1>10, <1>11, <1>12, <1>14, <1>15 DEF TenancyNext

\* Tenants, databases, aliases and calls stay what their tables can hold.
THEOREM TenantsTyped == TenantBounds => (TenancySpec => []TenancyTypeOK)
<1> SUFFICES ASSUME TenantBounds PROVE TenancySpec => []TenancyTypeOK
  OBVIOUS
<1>1. TenancyInit => TenantTyped
  <2> SUFFICES ASSUME TenancyInit PROVE TenantTyped
    OBVIOUS
  <2>1. database \in [Databases -> DatabaseStates] /\ tenantEdits \in 0..MaxTenantEdits /\ restarts \in 0..MaxRestarts
    BY DEF TenancyInit, DatabaseStates, TenantBounds
  <2>2. \A w \in Workers : provision[w].stage = "idle"
    BY DEF TenancyInit, NoProvision
  <2> QED BY <2>1, <2>2, Initially DEF TenantTyped
<1>2. TenantTyped => TenancyTypeOK
  <2> SUFFICES ASSUME TenantTyped PROVE TenancyTypeOK
    OBVIOUS
  <2>1. ASSUME NEW w \in Workers PROVE serving[w].row \in 0..Len(tenant)
    <3>1. CASE serving[w] = NotServing
      <4>1. PICK S : tenant \in Seq(S)
        BY DEF TenantTyped, RoutingInv, Shape
      <4>2. Len(tenant) \in Nat
        BY <4>1
      <4>3. serving[w].row = 0
        <5>1. NotServing.row = 0
          BY DEF NotServing
        <5> QED BY <3>1, <5>1
      <4> QED BY <4>2, <4>3
    <3>2. CASE serving[w] # NotServing
      <4> DEFINE x == <<serving[w].alias, serving[w].row, serving[w].db>>
      <4>1. x \in known
        BY <3>2 DEF TenantTyped, RoutingInv, MapsRemembered
      <4>2. serving[w].row \in DOMAIN tenant
        <5>1. x[2] = serving[w].row
          OBVIOUS
        <5> HIDE DEF x
        <5> QED BY <4>1, <5>1 DEF TenantTyped, RoutingInv, Recorded
      <4>3. PICK S : tenant \in Seq(S)
        BY DEF TenantTyped, RoutingInv, Shape
      <4> QED BY <4>2, <4>3
    <3> QED BY <3>1, <3>2
  <2>2. \A w \in Workers : registered[w] \in [Slugs -> Databases \cup {NoDatabase}]
    BY DEF TenantTyped, RoutingInv, Shape
  <2> QED BY <2>1, <2>2 DEF TenantTyped, RoutingInv, Shape, TenancyTypeOK, DatabaseStates
<1> QED BY <1>1, <1>2, TenantTypedStep, PTL DEF TenancySpec

-----------------------------------------------------------------------------
(* ConnectorTraffic: signed requests and webhooks *)

\* Requests and remembered nonces; a nonce is signed once.
RequestsOK ==
    /\ clock \in Int
    /\ served \in [Nonces -> Nat]
    /\ \A r \in signed : r.nonce \in Nonces /\ r.at \in Int
    /\ \A r, s \in signed : r.nonce = s.nonce => r = s
    /\ \A m \in seen : m.until \in Int

\* What was served is remembered until its signature is out of the window.
ServedRemembered ==
    \A n \in Nonces : flushed \/ served[n] = 0 \/
        /\ served[n] = 1
        /\ \E r \in signed, m \in seen :
              r.nonce = n /\ m.nonce = n /\ m.until > r.at + Window

\* Until the hooks of a document run nothing is posted or logged; a subscriber in
\* the queue stands there once, and has heard nothing yet.
Fresh(d, w) == posted[<<d, w>>] = 0 /\ <<d, w, "success">> \notin hookLog

DeliveryOK ==
    /\ posted \in [Documents \X Hooks -> {0, 1}]
    /\ after \in [Documents -> {"open", "enqueue", "dispatch", "calling", "over"}]
    /\ DOMAIN queue = Documents
    /\ \A d \in Documents :
          /\ \A x \in queue[d] : x[1] \in Hooks /\ Fresh(d, x[1])
          /\ \A x, y \in queue[d] : x[1] = y[1] => x = y
          /\ after[d] \in {"open", "enqueue", "dispatch"} => queue[d] = {} /\ \A w \in Hooks : Fresh(d, w)
    /\ \A d \in Documents, w \in Hooks : <<d, w, "success">> \in hookLog => posted[<<d, w>>] = 1

TrafficInv == RequestsOK /\ ServedRemembered /\ DeliveryOK

LEMMA TrafficImplied == ASSUME TrafficInv PROVE AtMostOnce
BY DEF TrafficInv, RequestsOK, ServedRemembered, DeliveryOK, Fresh, AtMostOnce

LEMMA TrafficInitially == TrafficInit => TrafficInv
<1> SUFFICES ASSUME TrafficInit PROVE TrafficInv
  OBVIOUS
<1>1. clock = 0 /\ signed = {} /\ seen = {} /\ flushed = FALSE /\ served = [n \in Nonces |-> 0]
  BY DEF TrafficInit
<1>2. RequestsOK
  BY <1>1 DEF RequestsOK
<1>3. ServedRemembered
  BY <1>1 DEF ServedRemembered
<1>4. \A d \in Documents, w \in Hooks : Fresh(d, w)
  BY DEF TrafficInit, Fresh
<1>5. posted \in [Documents \X Hooks -> {0, 1}]
  BY DEF TrafficInit
<1>6. DeliveryOK
  BY <1>4, <1>5 DEF TrafficInit, DeliveryOK
<1> QED BY <1>2, <1>3, <1>6 DEF TrafficInv

-----------------------------------------------------------------------------
(* Requests: the steps of the agent and of time.                           *)

LEMMA SignStep ==
    ASSUME RequestsOK, ServedRemembered, NEW n \in Nonces, SignRequest(n)
    PROVE  RequestsOK' /\ ServedRemembered'
<1>1. PICK ahead \in Skew : signed' = signed \cup {[nonce |-> n, at |-> clock + ahead]}
  BY DEF SignRequest
<1>2. clock + ahead \in Int
  BY TrafficAssumption DEF RequestsOK
<1>3. RequestsOK'
  BY <1>1, <1>2 DEF SignRequest, RequestsOK
<1>4. ServedRemembered'
  BY <1>1 DEF SignRequest, ServedRemembered
<1> QED BY <1>3, <1>4

\* The window and the memory overlap, so that a request served before is refused.
LEMMA AnswerStep ==
    ASSUME RequestsOK, ServedRemembered, NEW r \in signed, Authenticate(r)
    PROVE  RequestsOK' /\ ServedRemembered'
<1> DEFINE new == [nonce |-> r.nonce, until |-> clock + NonceTTL]
<1>1. r.at \in Int /\ r.nonce \in Nonces /\ clock \in Int /\ Window \in Int /\ NonceTTL \in Int
  BY TrafficAssumption DEF RequestsOK
<1>2. clock <= r.at + Window /\ r.at <= clock + Window
  BY <1>1 DEF Authenticate, InWindow
<1>3. flushed \/ served[r.nonce] = 0
  <2>1. SUFFICES ASSUME ~flushed, served[r.nonce] # 0 PROVE FALSE
    BY DEF RequestsOK
  <2>2. PICK s \in signed, m \in seen :
            s.nonce = r.nonce /\ m.nonce = r.nonce /\ m.until > s.at + Window
    BY <1>1, <2>1 DEF ServedRemembered
  <2>3. s = r
    BY <2>2 DEF RequestsOK
  <2>4. clock < m.until
    BY <1>1, <1>2, <2>2, <2>3 DEF RequestsOK
  <2> QED BY <2>2, <2>4 DEF Authenticate, Remembered
<1>4. new.until \in Int /\ new.until > r.at + Window
  BY <1>1, <1>2, TrafficAssumption
<1>5. RequestsOK'
  BY <1>1, <1>4 DEF Authenticate, RequestsOK
<1>6. ASSUME NEW n \in Nonces
      PROVE  flushed' \/ served'[n] = 0 \/
                /\ served'[n] = 1
                /\ \E s \in signed', m \in seen' :
                      s.nonce = n /\ m.nonce = n /\ m.until > s.at + Window
  <2>1. CASE n = r.nonce
    <3>1. new \in seen' /\ new.nonce = n
      BY <2>1 DEF Authenticate
    <3>2. flushed \/ served'[n] = 1
      BY <1>1, <1>3, <2>1 DEF Authenticate, RequestsOK
    <3> QED BY <1>4, <2>1, <3>1, <3>2 DEF Authenticate
  <2>2. CASE n # r.nonce
    BY <1>1, <2>2 DEF Authenticate, ServedRemembered, RequestsOK
  <2> QED BY <2>1, <2>2
<1> QED BY <1>5, <1>6 DEF ServedRemembered

LEMMA RequestStep ==
    ASSUME RequestsOK, ServedRemembered,
           ClockTick \/ LoseCache \/ (\E n \in Nonces : SignRequest(n)) \/ (\E r \in signed : Authenticate(r))
    PROVE  RequestsOK' /\ ServedRemembered'
<1>1. CASE ClockTick
  BY <1>1 DEF ClockTick, RequestsOK, ServedRemembered
<1>2. CASE LoseCache
  BY <1>2 DEF LoseCache, RequestsOK, ServedRemembered
<1>3. CASE \E n \in Nonces : SignRequest(n)
  BY <1>3, SignStep
<1>4. CASE \E r \in signed : Authenticate(r)
  BY <1>4, AnswerStep
<1> QED BY <1>1, <1>2, <1>3, <1>4

-----------------------------------------------------------------------------
(* Webhooks: the steps of a document's hooks.                              *)

LEMMA HooksStart ==
    ASSUME DeliveryOK, NEW d \in Documents, CommitDocument(d) \/ EnqueueTallyJob(d)
    PROVE  DeliveryOK'
BY DEF DeliveryOK, CommitDocument, EnqueueTallyJob, Fresh

LEMMA SubscribersRead ==
    ASSUME DeliveryOK, NEW d \in Documents, ReadSubscribers(d)
    PROVE  DeliveryOK'
<1>1. \A w \in Hooks : Fresh(d, w)
  BY DEF DeliveryOK, ReadSubscribers
<1>2. \A x \in queue'[d] : x[1] \in Hooks /\ x = <<x[1], hooks[x[1]].secret>>
  BY DEF DeliveryOK, ReadSubscribers
<1>3. /\ DOMAIN queue' = Documents /\ after' = [after EXCEPT ![d] = "calling"]
      /\ posted' = posted /\ hookLog' = hookLog /\ \A e \in Documents \ {d} : queue'[e] = queue[e]
  BY DEF DeliveryOK, ReadSubscribers
<1> QED BY <1>1, <1>2, <1>3 DEF DeliveryOK, Fresh

\* posted is counted up for a subscriber that was in the queue, or for none.
LEMMA Called ==
    ASSUME DeliveryOK, NEW d \in Documents, NEW x \in queue[d], CallHook(d, x)
    PROVE  DeliveryOK'
<1>1. x[1] \in Hooks /\ posted[<<d, x[1]>>] = 0 /\ <<d, x[1]>> \in Documents \X Hooks
  BY DEF DeliveryOK, Fresh
<1>2. PICK got, answered \in BOOLEAN :
          /\ answered => got
          /\ posted' = IF got THEN [posted EXCEPT ![<<d, x[1]>>] = @ + 1] ELSE posted
          /\ hookLog' = hookLog \cup {<<d, x[1], IF answered THEN "success" ELSE "failed">>}
  BY DEF CallHook
<1>3. posted' \in [Documents \X Hooks -> {0, 1}]
  BY <1>1, <1>2 DEF DeliveryOK
<1>4. \A e \in Documents, w \in Hooks : <<e, w>> # <<d, x[1]>> =>
          /\ posted'[<<e, w>>] = posted[<<e, w>>]
          /\ <<e, w, "success">> \in hookLog' <=> <<e, w, "success">> \in hookLog
  BY <1>2 DEF DeliveryOK
<1>5. <<d, x[1], "success">> \in hookLog' => posted'[<<d, x[1]>>] = 1
  BY <1>1, <1>2 DEF DeliveryOK, Fresh
<1>6. /\ DOMAIN queue' = Documents /\ queue'[d] = queue[d] \ {x} /\ after' = after /\ after[d] = "calling"
      /\ \A e \in Documents \ {d} : queue'[e] = queue[e]
  BY DEF CallHook, Untried, DeliveryOK
<1>7. \A y \in queue'[d] : y[1] # x[1]
  BY <1>6 DEF DeliveryOK
<1>8. ASSUME NEW e \in Documents
      PROVE  /\ \A y \in queue'[e] : y[1] \in Hooks /\ Fresh(e, y[1])'
             /\ \A y, z \in queue'[e] : y[1] = z[1] => y = z
             /\ after'[e] \in {"open", "enqueue", "dispatch"} => queue'[e] = {} /\ \A w \in Hooks : Fresh(e, w)'
  <2>1. CASE e = d
    BY <1>4, <1>6, <1>7, <2>1 DEF DeliveryOK, Fresh
  <2>2. CASE e # d
    BY <1>4, <1>6, <2>2 DEF DeliveryOK, Fresh
  <2> QED BY <2>1, <2>2
<1>9. \A e \in Documents, w \in Hooks : <<e, w, "success">> \in hookLog' => posted'[<<e, w>>] = 1
  BY <1>4, <1>5 DEF DeliveryOK
<1> QED BY <1>3, <1>6, <1>8, <1>9 DEF DeliveryOK

LEMMA BrokenOff ==
    ASSUME DeliveryOK, NEW d \in Documents, BreakOff(d)
    PROVE  DeliveryOK'
<1>1. /\ after' = [after EXCEPT ![d] = "over"] /\ queue' = [queue EXCEPT ![d] = {}] /\ hookLog' = hookLog
  BY DEF BreakOff
<1>2. CASE posted' = posted
  BY <1>1, <1>2 DEF DeliveryOK, Fresh
<1>3. CASE \E x \in queue[d] : posted' = [posted EXCEPT ![<<d, x[1]>>] = @ + 1]
  <2>1. PICK x \in queue[d] : posted' = [posted EXCEPT ![<<d, x[1]>>] = @ + 1]
    BY <1>3
  <2>2. x[1] \in Hooks /\ posted[<<d, x[1]>>] = 0 /\ <<d, x[1], "success">> \notin hookLog
    BY DEF DeliveryOK, Fresh
  <2>3. posted' \in [Documents \X Hooks -> {0, 1}]
    BY <2>1, <2>2 DEF DeliveryOK
  <2>4. \A e \in Documents, w \in Hooks : <<e, w>> # <<d, x[1]>> => posted'[<<e, w>>] = posted[<<e, w>>]
    BY <2>1 DEF DeliveryOK
  <2>5. ASSUME NEW e \in Documents
        PROVE  /\ \A y \in queue'[e] : y[1] \in Hooks /\ Fresh(e, y[1])'
               /\ \A y, z \in queue'[e] : y[1] = z[1] => y = z
               /\ after'[e] \in {"open", "enqueue", "dispatch"} => queue'[e] = {} /\ \A w \in Hooks : Fresh(e, w)'
    <3>1. CASE e = d
      BY <1>1, <3>1 DEF DeliveryOK
    <3>2. CASE e # d
      BY <1>1, <2>4, <3>2 DEF DeliveryOK, Fresh
    <3> QED BY <3>1, <3>2
  <2>6. \A e \in Documents, w \in Hooks : <<e, w, "success">> \in hookLog' => posted'[<<e, w>>] = 1
    BY <1>1, <2>2, <2>4 DEF DeliveryOK
  <2> QED BY <1>1, <2>3, <2>5, <2>6 DEF DeliveryOK
<1> QED BY <1>2, <1>3 DEF BreakOff

-----------------------------------------------------------------------------
LEMMA TrafficStepwise == ASSUME TrafficInv, [TrafficNext]_trafficVars PROVE TrafficInv'
<1>1. CASE ClockTick \/ LoseCache \/ (\E n \in Nonces : SignRequest(n)) \/ (\E r \in signed : Authenticate(r))
  <2>1. UNCHANGED webhookVars
    BY <1>1 DEF ClockTick, LoseCache, SignRequest, Authenticate
  <2>2. DeliveryOK'
    BY <2>1 DEF TrafficInv, DeliveryOK, Fresh, webhookVars
  <2> QED BY <1>1, <2>2, RequestStep DEF TrafficInv
<1>2. CASE \E w \in Hooks : ChangeHook(w)
  BY <1>2 DEF ChangeHook, authVars, TrafficInv, RequestsOK, ServedRemembered, DeliveryOK, Fresh
<1>3. CASE \E d \in Documents :
              \/ CommitDocument(d) \/ EnqueueTallyJob(d) \/ ReadSubscribers(d) \/ BreakOff(d)
              \/ \E x \in queue[d] : CallHook(d, x)
  <2>1. UNCHANGED authVars
    BY <1>3 DEF CommitDocument, EnqueueTallyJob, ReadSubscribers, BreakOff, CallHook
  <2>2. RequestsOK' /\ ServedRemembered'
    BY <2>1 DEF TrafficInv, RequestsOK, ServedRemembered, authVars
  <2>3. DeliveryOK'
    BY <1>3, HooksStart, SubscribersRead, Called, BrokenOff DEF TrafficInv
  <2> QED BY <2>2, <2>3 DEF TrafficInv
<1>4. CASE UNCHANGED trafficVars
  BY <1>4 DEF trafficVars, TrafficInv, RequestsOK, ServedRemembered, DeliveryOK, Fresh
<1> QED BY <1>1, <1>2, <1>3, <1>4 DEF TrafficNext

\* Nothing crosses the border twice: a signed request is served once unless the
\* cache of nonces was lost, a subscriber hears of a document at most once, after
\* its commit, and did hear when the log says so (ConnectorAuthentication and
\* dispatch_event).
THEOREM NothingTwice == TrafficSpec => []AtMostOnce
<1>1. TrafficInit => TrafficInv
  BY TrafficInitially
<1>2. TrafficInv /\ [TrafficNext]_trafficVars => TrafficInv'
  BY TrafficStepwise
<1>3. TrafficInv => AtMostOnce
  BY TrafficImplied
<1> QED BY <1>1, <1>2, <1>3, PTL DEF TrafficSpec

-----------------------------------------------------------------------------
(* Payments: webhooks of a payment gateway *)

IsSeq(s) == \E S : s \in Seq(S)

\* The rows are sequences of records, whatever the gateway's numbers are.
PayShape ==
    /\ IsSeq(payOrder) /\ IsSeq(receipt)
    /\ DOMAIN hook = PayHooks
    /\ \A o \in DOMAIN payOrder : payOrder[o] =
          [bill |-> payOrder[o].bill, type |-> payOrder[o].type, gid |-> payOrder[o].gid,
           amount |-> payOrder[o].amount, status |-> payOrder[o].status, receipt |-> payOrder[o].receipt]

\* The webhook that has a row's lock knows the row's status and is alone.
HooksHold ==
    /\ \A h \in PayHooks : hook[h].stage = "locked" =>
          hook[h].o \in DOMAIN payOrder /\ hook[h].seen = payOrder[hook[h].o].status
    /\ \A h, g \in PayHooks :
          hook[h].stage = "locked" /\ hook[g].stage = "locked" /\ hook[h].o = hook[g].o => h = g

\* Receipt r is the one that was posted for order o.
PostedOnce(o, r) ==
    /\ r \in DOMAIN receipt /\ receipt[r].of = o
    /\ receipt[r].bill = payOrder[o].bill /\ receipt[r].amount = payOrder[o].amount
    /\ payOrder[o].receipt \in {r, 0}
    /\ \A q \in DOMAIN receipt : receipt[q].of = o => q = r

\* Paid orders and receipts stand for one another, where nobody lends a hand.
Settled ==
    /\ retouched \subseteq DOMAIN payOrder
    /\ \A r \in DOMAIN receipt : receipt[r].of \in DOMAIN payOrder
    /\ \A o \in DOMAIN payOrder \ retouched :
          /\ payOrder[o].status = "paid" => \E r \in DOMAIN receipt : PostedOnce(o, r)
          /\ payOrder[o].status # "paid" => \A r \in DOMAIN receipt : receipt[r].of # o

PayInv == PayShape /\ HooksHold /\ Settled

LEMMA Appended ==
    ASSUME NEW s, IsSeq(s), NEW e
    PROVE  /\ IsSeq(Append(s, e))
           /\ Len(s) \in Nat /\ DOMAIN s = 1..Len(s)
           /\ Len(Append(s, e)) = Len(s) + 1
           /\ DOMAIN Append(s, e) = DOMAIN s \cup {Len(s) + 1} /\ Len(s) + 1 \notin DOMAIN s
           /\ Append(s, e)[Len(s) + 1] = e
           /\ \A k \in DOMAIN s : Append(s, e)[k] = s[k]
<1>1. PICK S : s \in Seq(S)
  BY DEF IsSeq
<1>2. s \in Seq(S \cup {e})
  BY <1>1
<1>3. Append(s, e) \in Seq(S \cup {e})
  BY <1>2
<1> QED BY <1>2, <1>3 DEF IsSeq

LEMMA Rewritten ==
    ASSUME NEW s, IsSeq(s), NEW k \in DOMAIN s, NEW e
    PROVE  IsSeq([s EXCEPT ![k] = e])
<1>1. PICK S : s \in Seq(S)
  BY DEF IsSeq
<1>2. [s EXCEPT ![k] = e] \in Seq(S \cup {e})
  BY <1>1
<1> QED BY <1>2 DEF IsSeq

LEMMA PayImplied == ASSUME PayInv PROVE OrdersSettleOnce
<1> DEFINE receiptsOf(o) == {r \in DOMAIN receipt : receipt[r].of = o}
<1>1. ASSUME NEW o \in DOMAIN payOrder \ retouched, payOrder[o].status = "paid"
      PROVE  \E r \in receiptsOf(o) :
                /\ receiptsOf(o) = {r} /\ payOrder[o].receipt \in {r, 0}
                /\ receipt[r].bill = payOrder[o].bill /\ receipt[r].amount = payOrder[o].amount
  <2>1. PICK r \in DOMAIN receipt : PostedOnce(o, r)
    BY <1>1 DEF PayInv, Settled
  <2>2. receiptsOf(o) = {r}
    BY <2>1 DEF PostedOnce
  <2> QED BY <2>1, <2>2 DEF PostedOnce
<1>2. ASSUME NEW o \in DOMAIN payOrder \ retouched, payOrder[o].status # "paid"
      PROVE  receiptsOf(o) = {}
  BY <1>2 DEF PayInv, Settled
<1> QED BY <1>1, <1>2 DEF PayInv, Settled, OrdersSettleOnce

LEMMA PayInitially == PayInit => PayInv
<1> SUFFICES ASSUME PayInit PROVE PayInv
  OBVIOUS
<1>1. <<>> \in Seq({}) /\ DOMAIN <<>> = {}
  OBVIOUS
<1>2. PayShape
  BY <1>1 DEF PayInit, PayShape, IsSeq, NoHook
<1> QED BY <1>1, <1>2 DEF PayInit, PayInv, HooksHold, Settled, NoHook

-----------------------------------------------------------------------------
\* An order more changes nothing for the others, and has no receipt yet.
LEMMA OrderStep ==
    ASSUME PayInv, NEW b \in Bills, NEW amount \in Amounts, CreateOrder(b, amount)
    PROVE  PayInv'
<1> DEFINE gid == CHOOSE g \in 1..MaxOrders \ ({c.gid : c \in checkout} \cup {payOrder[o].gid : o \in DOMAIN payOrder}) : TRUE
           row == [bill |-> b, type |-> FirstActive.type, gid |-> gid, amount |-> amount,
                   status |-> "created", receipt |-> 0]
<1>1. /\ receipt' = receipt /\ hook' = hook /\ retouched' = retouched
      /\ payOrder' = payOrder \/ payOrder' = Append(payOrder, row)
  BY DEF CreateOrder
<1> HIDE DEF gid
<1> DEFINE orders == Append(payOrder, row)
<1>2. /\ IsSeq(orders) /\ DOMAIN orders = DOMAIN payOrder \cup {Len(payOrder) + 1}
      /\ orders[Len(payOrder) + 1] = row /\ \A o \in DOMAIN payOrder : orders[o] = payOrder[o]
  <2> HIDE DEF row
  <2> QED BY Appended DEF PayInv, PayShape
<1>3. /\ IsSeq(payOrder') /\ DOMAIN payOrder \subseteq DOMAIN payOrder' /\ \A o \in DOMAIN payOrder : payOrder'[o] = payOrder[o]
      /\ \A o \in DOMAIN payOrder' \ DOMAIN payOrder : payOrder'[o] = row
  <2>1. CASE payOrder' = payOrder
    BY <2>1 DEF PayInv, PayShape
  <2>2. CASE payOrder' = orders
    <3> HIDE DEF orders, row
    <3> QED BY <1>2, <2>2
  <2> QED BY <1>1, <2>1, <2>2
<1>4. PayShape'
  <2>1. \A o \in DOMAIN payOrder' : payOrder'[o] =
          [bill |-> payOrder'[o].bill, type |-> payOrder'[o].type, gid |-> payOrder'[o].gid,
           amount |-> payOrder'[o].amount, status |-> payOrder'[o].status, receipt |-> payOrder'[o].receipt]
    <3>1. row = [bill |-> row.bill, type |-> row.type, gid |-> row.gid,
                 amount |-> row.amount, status |-> row.status, receipt |-> row.receipt]
      OBVIOUS
    <3> QED BY <1>3, <3>1 DEF PayInv, PayShape
  <2> QED BY <1>1, <1>3, <2>1 DEF PayInv, PayShape
<1>5. HooksHold'
  BY <1>1, <1>3 DEF PayInv, HooksHold
<1>6. Settled'
  <2>1. \A o \in DOMAIN payOrder, r \in DOMAIN receipt : PostedOnce(o, r) => PostedOnce(o, r)'
    BY <1>1, <1>3 DEF PostedOnce
  <2>2. row.status = "created"
    OBVIOUS
  <2> HIDE DEF row
  <2> QED BY <1>1, <1>3, <2>1, <2>2 DEF PayInv, Settled
<1> QED BY <1>4, <1>5, <1>6 DEF PayInv

LEMMA ReceiveStep ==
    ASSUME PayInv, NEW c \in checkout, NEW h \in PayHooks, ReceiveHook(h, c)
    PROVE  PayInv'
<1>1. UNCHANGED <<payOrder, receipt, retouched>>
  BY DEF ReceiveHook
<1>2. /\ DOMAIN hook' = PayHooks /\ \A g \in PayHooks \ {h} : hook'[g] = hook[g]
      /\ hook'[h].stage = "select"
  BY DEF ReceiveHook, PayInv, PayShape, NoHook
<1>3. PayShape' /\ HooksHold'
  BY <1>1, <1>2 DEF PayInv, PayShape, HooksHold
<1> QED BY <1>1, <1>3 DEF PayInv, Settled, PostedOnce

\* The row was free, so that no other holder is there.
LEMMA LockBillStep ==
    ASSUME PayInv, NEW h \in PayHooks, NEW o \in DOMAIN payOrder, LockOrder(h, o)
    PROVE  PayInv'
<1>1. UNCHANGED <<payOrder, receipt, retouched>>
  BY DEF LockOrder
<1>2. /\ DOMAIN hook' = PayHooks /\ \A g \in PayHooks \ {h} : hook'[g] = hook[g]
      /\ hook'[h].stage = "locked" /\ hook'[h].o = o /\ hook'[h].seen = payOrder[o].status
  BY DEF LockOrder, PayInv, PayShape
<1>3. \A g \in PayHooks \ {h} : hook[g].stage = "locked" => hook[g].o # o
  BY DEF LockOrder, RowFree
<1>4. PayShape' /\ HooksHold'
  BY <1>1, <1>2, <1>3 DEF PayInv, PayShape, HooksHold
<1> QED BY <1>1, <1>4 DEF PayInv, Settled, PostedOnce

\* The holder of the lock posts a receipt for an order that has none.
LEMMA RecordStep ==
    ASSUME PayInv, NEW h \in PayHooks, RecordPayment(h)
    PROVE  PayInv'
<1> DEFINE o == hook[h].o
           new == [bill |-> payOrder[o].bill, amount |-> payOrder[o].amount, of |-> o]
<1>1. /\ retouched' = retouched /\ hook[h].stage = "locked"
      /\ DOMAIN hook' = PayHooks /\ hook'[h] = NoHook /\ \A g \in PayHooks \ {h} : hook'[g] = hook[g]
  BY DEF RecordPayment, PayInv, PayShape
<1>2. o \in DOMAIN payOrder /\ hook[h].seen = payOrder[o].status
  BY <1>1 DEF PayInv, HooksHold
<1>3. \A g \in PayHooks \ {h} : hook[g].stage = "locked" => hook[g].o # o
  BY <1>1 DEF PayInv, HooksHold
<1>4. CASE UNCHANGED <<payOrder, receipt>>
  BY <1>1, <1>4 DEF PayInv, PayShape, HooksHold, Settled, PostedOnce, NoHook
<1>5. CASE /\ hook[h].seen # "paid"
           /\ receipt' = Append(receipt, new)
           /\ payOrder' = [payOrder EXCEPT ![o].status = "paid", ![o].receipt = Len(receipt')]
  <2>1. PICK n : /\ IsSeq(receipt') /\ n \notin DOMAIN receipt /\ n = Len(receipt')
                 /\ DOMAIN receipt' = DOMAIN receipt \cup {n}
                 /\ receipt'[n] = new
                 /\ \A r \in DOMAIN receipt : receipt'[r] = receipt[r]
    BY <1>5, Appended DEF PayInv, PayShape
  <2>2. /\ DOMAIN payOrder' = DOMAIN payOrder /\ \A p \in DOMAIN payOrder \ {o} : payOrder'[p] = payOrder[p]
        /\ payOrder'[o] = [bill |-> payOrder[o].bill, type |-> payOrder[o].type, gid |-> payOrder[o].gid,
                        amount |-> payOrder[o].amount, status |-> "paid", receipt |-> n]
    <3>1. payOrder' = [payOrder EXCEPT ![o] = [payOrder[o] EXCEPT !.status = "paid", !.receipt = n]]
      BY <1>5, <2>1
    <3>2. payOrder[o] = [bill |-> payOrder[o].bill, type |-> payOrder[o].type, gid |-> payOrder[o].gid,
                      amount |-> payOrder[o].amount, status |-> payOrder[o].status, receipt |-> payOrder[o].receipt]
      BY <1>2 DEF PayInv, PayShape
    <3> QED BY <1>2, <3>1, <3>2
  <2>3. IsSeq(payOrder')
    <3>1. payOrder' = [payOrder EXCEPT ![o] = [payOrder[o] EXCEPT !.status = "paid", !.receipt = Len(receipt')]]
      BY <1>5
    <3> QED BY <1>2, <3>1, Rewritten DEF PayInv, PayShape
  <2>4. PayShape'
    BY <1>1, <2>1, <2>2, <2>3 DEF PayInv, PayShape
  <2>5. HooksHold'
    BY <1>1, <1>3, <2>2 DEF PayInv, HooksHold, NoHook
  <2>6. /\ receipt'[n].of = o /\ receipt'[n].bill = payOrder'[o].bill /\ receipt'[n].amount = payOrder'[o].amount
        /\ payOrder'[o].status = "paid" /\ payOrder'[o].receipt = n
    BY <2>1, <2>2
  <2> HIDE DEF o
  <2>7. ASSUME NEW p \in DOMAIN payOrder' \ retouched'
        PROVE  /\ payOrder'[p].status = "paid" => \E r \in DOMAIN receipt' : PostedOnce(p, r)'
               /\ payOrder'[p].status # "paid" => \A r \in DOMAIN receipt' : receipt'[r].of # p
    <3>1. CASE p = o
      <4>1. \A r \in DOMAIN receipt : receipt[r].of # o
        BY <1>1, <1>2, <1>5, <2>2, <2>7, <3>1 DEF PayInv, Settled
      <4>2. \A q \in DOMAIN receipt' : receipt'[q].of = p => q = n
        BY <2>1, <3>1, <4>1
      <4>3. PostedOnce(p, n)'
        BY <2>1, <2>6, <3>1, <4>2 DEF PostedOnce
      <4> QED BY <2>1, <2>6, <3>1, <4>3
    <3>2. CASE p # o
      <4>1. p \in DOMAIN payOrder \ retouched /\ payOrder'[p] = payOrder[p]
        BY <1>1, <2>2, <3>2
      <4>2. \A r \in DOMAIN receipt : PostedOnce(p, r) => PostedOnce(p, r)'
        BY <2>1, <2>6, <3>2, <4>1 DEF PostedOnce
      <4> QED BY <2>1, <2>6, <3>2, <4>1, <4>2 DEF PayInv, Settled
    <3> QED BY <3>1, <3>2
  <2>8. \A r \in DOMAIN receipt' : receipt'[r].of \in DOMAIN payOrder'
    BY <1>2, <2>1, <2>2, <2>6 DEF PayInv, Settled
  <2>9. Settled'
    BY <1>1, <2>2, <2>7, <2>8 DEF PayInv, Settled
  <2> QED BY <2>4, <2>5, <2>9 DEF PayInv
<1> QED BY <1>4, <1>5 DEF RecordPayment

LEMMA AbortStep ==
    ASSUME PayInv, NEW h \in PayHooks, AbortHook(h)
    PROVE  PayInv'
BY DEF AbortHook, PayInv, PayShape, HooksHold, Settled, PostedOnce, NoHook

\* A form that is saved takes the order out of what is claimed; no webhook had the row.
LEMMA OrderEdited ==
    ASSUME PayInv, NEW o \in DOMAIN payOrder, NEW row, EditOrder(o, row),
           row = [bill |-> row.bill, type |-> row.type, gid |-> row.gid,
                  amount |-> row.amount, status |-> row.status, receipt |-> row.receipt]
    PROVE  PayInv'
<1>1. UNCHANGED <<receipt, hook>> /\ retouched' = retouched \cup {o}
  BY DEF EditOrder
<1>2. /\ DOMAIN payOrder' = DOMAIN payOrder /\ payOrder'[o] = row
      /\ \A p \in DOMAIN payOrder \ {o} : payOrder'[p] = payOrder[p]
  BY DEF EditOrder
<1>3. IsSeq(payOrder')
  BY Rewritten DEF EditOrder, PayInv, PayShape
<1>4. \A h \in PayHooks : hook[h].stage = "locked" => hook[h].o # o
  BY DEF EditOrder, RowFree
<1>5. PayShape' /\ HooksHold'
  BY <1>1, <1>2, <1>3, <1>4 DEF PayInv, PayShape, HooksHold
<1>6. Settled'
  BY <1>1, <1>2 DEF PayInv, Settled, PostedOnce
<1> QED BY <1>5, <1>6 DEF PayInv

\* A deleted receipt stays posted; its order names none.
LEMMA DropStep ==
    ASSUME PayInv, NEW o \in DOMAIN payOrder, DropReceipt(o)
    PROVE  PayInv'
<1>1. UNCHANGED <<receipt, hook, retouched>>
  BY DEF DropReceipt
<1>2. payOrder[o] = [bill |-> payOrder[o].bill, type |-> payOrder[o].type, gid |-> payOrder[o].gid,
                     amount |-> payOrder[o].amount, status |-> payOrder[o].status, receipt |-> payOrder[o].receipt]
  BY DEF PayInv, PayShape
<1>3. payOrder' = [payOrder EXCEPT ![o] = [payOrder[o] EXCEPT !.receipt = 0]]
  BY DEF DropReceipt
<1>4. /\ DOMAIN payOrder' = DOMAIN payOrder
      /\ \A p \in DOMAIN payOrder \ {o} : payOrder'[p] = payOrder[p]
      /\ payOrder'[o] = [bill |-> payOrder[o].bill, type |-> payOrder[o].type, gid |-> payOrder[o].gid,
                         amount |-> payOrder[o].amount, status |-> payOrder[o].status, receipt |-> 0]
  BY <1>2, <1>3
<1>5. IsSeq(payOrder')
  BY <1>3, Rewritten DEF PayInv, PayShape
<1>6. \A h \in PayHooks : hook[h].stage = "locked" => hook[h].o # o
  BY DEF DropReceipt, RowFree
<1>7. PayShape' /\ HooksHold'
  BY <1>1, <1>4, <1>5, <1>6 DEF PayInv, PayShape, HooksHold
<1>8. \A p \in DOMAIN payOrder : payOrder'[p].status = payOrder[p].status
  BY <1>4
<1>9. \A p \in DOMAIN payOrder, r \in DOMAIN receipt : PostedOnce(p, r) => PostedOnce(p, r)'
  BY <1>1, <1>4 DEF PostedOnce
<1>10. Settled'
  BY <1>1, <1>4, <1>8, <1>9 DEF PayInv, Settled
<1> QED BY <1>7, <1>10 DEF PayInv

LEMMA PayStepwise == ASSUME PayInv, [PayNext]_paymentVars PROVE PayInv'
<1>1. CASE Switch \/ UNCHANGED paymentVars
  BY <1>1 DEF Switch, paymentVars, PayInv, PayShape, HooksHold, Settled, PostedOnce
<1>2. CASE \E b \in Bills, amount \in Amounts : CreateOrder(b, amount)
  BY <1>2, OrderStep
<1>3. CASE \E h \in PayHooks : \/ \E c \in checkout : ReceiveHook(h, c)
                               \/ \E o \in DOMAIN payOrder : LockOrder(h, o)
                               \/ RecordPayment(h) \/ AbortHook(h)
  BY <1>3, ReceiveStep, LockBillStep, RecordStep, AbortStep
<1>4. CASE \E o \in DOMAIN payOrder : DropReceipt(o)
  BY <1>4, DropStep
<1>5. ASSUME NEW o \in DOMAIN payOrder, NEW b, NEW gid, NEW amount, NEW s, NEW r,
             EditOrder(o, [bill |-> b, type |-> payOrder[o].type, gid |-> gid, amount |-> amount,
                           status |-> s, receipt |-> r])
      PROVE  PayInv'
  <2> DEFINE row == [bill |-> b, type |-> payOrder[o].type, gid |-> gid, amount |-> amount,
                     status |-> s, receipt |-> r]
  <2>1. row = [bill |-> row.bill, type |-> row.type, gid |-> row.gid,
               amount |-> row.amount, status |-> row.status, receipt |-> row.receipt]
    OBVIOUS
  <2>2. EditOrder(o, row)
    BY <1>5
  <2> HIDE DEF row
  <2> QED BY <2>1, <2>2, OrderEdited
<1> QED BY <1>1, <1>2, <1>3, <1>4, <1>5 DEF PayNext

\* Money is recorded once: an order nobody changed by hand is paid exactly when one
\* receipt was ever posted for it, of its amount and for its invoice, whatever
\* webhooks repeat, overlap and die (handle_webhook's locked re-read of the row).
THEOREM PaidOnce == PaySpec => []OrdersSettleOnce
<1>1. PayInit => PayInv
  BY PayInitially
<1>2. PayInv /\ [PayNext]_paymentVars => PayInv'
  BY PayStepwise
<1>3. PayInv => OrdersSettleOnce
  BY PayImplied
<1> QED BY <1>1, <1>2, <1>3, PTL DEF PaySpec

-----------------------------------------------------------------------------
(* PullCursor: what a phone asks for *)

SyncRow == [value : Int, stamp : Int, shared : BOOLEAN]
OnePull == [since : Int, timestamp : Int, todo : SUBSET SyncRows, answer : SUBSET (SyncRows \X Int)]

PullShape ==
    /\ appClock \in Nat /\ cursor \in Int /\ writes \in Nat /\ writes <= MaxWrites
    /\ rows \in [SyncRows -> SyncRow] /\ writing \in [SyncRows -> SyncRow]
    /\ pull \in [Pulls -> OnePull]
    /\ phone \in [SyncRows -> Int]
    /\ \A r \in SyncRows : rows[r].value \in 1..(writes + 1) /\ rows[r].stamp >= 1
    /\ \A r \in SyncRows : writing[r] # NoWrite =>
          writing[r].value \in 1..(writes + 1) /\ writing[r].stamp >= 1

\* A pull reads every table once, after its timestamp.
ReadOnce ==
    \A k \in Pulls :
        /\ ~Stamped(k) /\ pull[k].since # -1 => pull[k].todo = SyncRows
        /\ \A r \in SyncRows, v, w \in Int :
              <<r, v>> \in pull[k].answer =>
                 /\ r \notin pull[k].todo /\ v \in 1..(MaxWrites + 1)
                 /\ <<r, w>> \in pull[k].answer => v = w

Current(r) == rows[r].shared /\ r \notin behind

\* What a pull asks for nothing of is on the phone.
KnownBefore ==
    \A k \in Pulls, r \in SyncRows :
        Current(r) /\ rows[r].stamp <= pull[k].since => phone[r] = rows[r].value

\* What a pull has read, and has not changed after its timestamp, is in its answer
\* or was not asked for.
Answered ==
    \A k \in Pulls, r \in SyncRows :
        Stamped(k) /\ r \notin pull[k].todo /\ Current(r) /\ rows[r].stamp <= pull[k].timestamp =>
            \/ <<r, rows[r].value>> \in pull[k].answer
            \/ rows[r].stamp <= pull[k].since /\ \A v \in Int : <<r, v>> \notin pull[k].answer

PullInv == PullShape /\ ReadOnce /\ KnownBefore /\ Answered /\ NothingElseMissed

LEMMA PullInitially == PullInit => PullInv
<1> SUFFICES ASSUME PullInit PROVE PullInv
  OBVIOUS
<1>1. NoPull \in OnePull /\ NoWrite \in SyncRow
  BY DEF NoPull, OnePull, NoWrite, SyncRow
<1>2. PullShape
  BY <1>1, PullAssumption DEF PullInit, PullShape, SyncRow
<1>3. \A k \in Pulls : pull[k].since = -1 /\ pull[k].timestamp = -1 /\ pull[k].answer = {}
  BY DEF PullInit, NoPull
<1>4. ReadOnce
  BY <1>3 DEF ReadOnce
<1>5. \A r \in SyncRows : rows[r].stamp = 1
  BY DEF PullInit
<1>6. KnownBefore
  BY <1>3, <1>5 DEF KnownBefore
<1>7. Answered
  BY <1>3 DEF Answered, Stamped
<1>8. NothingElseMissed
  BY <1>5 DEF NothingElseMissed, PullInit
<1> QED BY <1>2, <1>4, <1>6, <1>7, <1>8 DEF PullInv

LEMMA WriteStep ==
    ASSUME PullInv, NEW r \in SyncRows, Save(r) \/ SaveUnstamped(r) \/ Reassign(r)
    PROVE  PullInv'
<1>1. PICK w \in SyncRow : /\ Write(r, w) /\ w.value \in 1..(writes + 2) /\ w.stamp >= 1
                       /\ appClock' \in Nat
  <2>0. rows[r] \in SyncRow /\ rows[r].value \in 1..(writes + 1) /\ rows[r].stamp >= 1 /\ appClock \in Nat /\ writes \in Nat
    BY DEF PullInv, PullShape
  <2>1. CASE Save(r)
    <3>1. [value |-> rows[r].value + 1, stamp |-> appClock + 1, shared |-> TRUE] \in SyncRow
      BY <2>0 DEF SyncRow
    <3> QED BY <3>1, <2>0, <2>1 DEF Save
  <2>2. CASE SaveUnstamped(r)
    <3> DEFINE w == [rows[r] EXCEPT !.value = @ + 1]
    <3>1. w \in SyncRow /\ w.value = rows[r].value + 1 /\ w.stamp = rows[r].stamp
      BY <2>0 DEF SyncRow
    <3> HIDE DEF w
    <3>2. Write(r, w) /\ appClock' = appClock
      BY <2>2 DEF SaveUnstamped, w
    <3> QED BY <3>1, <3>2, <2>0
  <2>3. CASE Reassign(r)
    <3> DEFINE w == [rows[r] EXCEPT !.shared = ~@]
    <3>1. w \in SyncRow /\ w.value = rows[r].value /\ w.stamp = rows[r].stamp
      BY <2>0 DEF SyncRow
    <3> HIDE DEF w
    <3>2. Write(r, w) /\ appClock' = appClock
      BY <2>3 DEF Reassign, w
    <3> QED BY <3>1, <3>2, <2>0
  <2> QED BY <2>1, <2>2, <2>3
<1>2. /\ UNCHANGED <<rows, pull, cursor, phone, behind>> /\ writes' = writes + 1
      /\ writes < MaxWrites /\ writing' = [writing EXCEPT ![r] = w]
  BY <1>1 DEF Write
<1>3. PullShape'
  BY <1>1, <1>2, PullAssumption DEF PullInv, PullShape
<1>4. ReadOnce' /\ KnownBefore' /\ Answered' /\ NothingElseMissed'
  BY <1>2 DEF PullInv, ReadOnce, KnownBefore, Answered, NothingElseMissed, Stamped, Current
<1> QED BY <1>3, <1>4 DEF PullInv

\* A commit behind a timestamp handed out puts the row among those behind.
LEMMA CommitStep ==
    ASSUME PullInv, NEW r \in SyncRows, CommitWrite(r)
    PROVE  PullInv'
<1> DEFINE w == writing[r]
<1>1. /\ w \in SyncRow /\ w.value \in 1..(writes + 1) /\ w.stamp >= 1
      /\ rows' = [rows EXCEPT ![r] = w] /\ writing' = [writing EXCEPT ![r] = NoWrite]
      /\ UNCHANGED <<appClock, pull, cursor, phone, writes>>
      /\ NoWrite \in SyncRow
  BY DEF CommitWrite, PullInv, PullShape, NoWrite, SyncRow
<1>2. /\ DOMAIN rows' = SyncRows /\ rows'[r] = w
      /\ \A q \in SyncRows \ {r} : rows'[q] = rows[q]
  BY <1>1 DEF PullInv, PullShape
<1>3. \A q \in SyncRows \ {r} : q \in behind' <=> q \in behind
  BY DEF CommitWrite
<1>4. r \notin behind' => ~Announced(r, w.stamp)
  BY DEF CommitWrite
<1>5. PullShape'
  BY <1>1, <1>2 DEF PullInv, PullShape
<1>6. ReadOnce'
  BY <1>1 DEF PullInv, ReadOnce, Stamped
<1>7. /\ cursor \in Int /\ w.stamp \in Int
      /\ \A k \in Pulls : pull[k].since \in Int /\ pull[k].timestamp \in Int
  BY <1>1 DEF PullInv, PullShape, OnePull, SyncRow
<1>8. r \notin behind' => /\ cursor < w.stamp
                          /\ \A k \in Pulls : pull[k].since < w.stamp
                          /\ \A k \in Pulls : Stamped(k) /\ r \notin pull[k].todo => pull[k].timestamp < w.stamp
  BY <1>4, <1>7 DEF Announced
<1>9. KnownBefore'
  BY <1>1, <1>2, <1>3, <1>7, <1>8 DEF PullInv, KnownBefore, Current
<1>10. Answered'
  BY <1>1, <1>2, <1>3, <1>7, <1>8 DEF PullInv, Answered, Stamped, Current
<1>11. NothingElseMissed'
  BY <1>1, <1>2, <1>3, <1>7, <1>8 DEF PullInv, NothingElseMissed
<1> QED BY <1>5, <1>6, <1>9, <1>10, <1>11 DEF PullInv

\* A pull that begins asks from the cursor: what is older is on the phone.
LEMMA StartStep ==
    ASSUME PullInv, NEW k \in Pulls, StartPull(k)
    PROVE  PullInv'
<1> DEFINE p == [since |-> cursor, timestamp |-> -1, todo |-> SyncRows, answer |-> {}]
<1>1. /\ pull' = [pull EXCEPT ![k] = p] /\ UNCHANGED <<appClock, rows, writing, cursor, phone, behind, writes>>
      /\ p \in OnePull
  <2>1. [NoPull EXCEPT !.since = cursor, !.todo = SyncRows] = p
    <3> DEFINE c == [NoPull EXCEPT !.since = cursor]
    <3>1. [NoPull EXCEPT !.since = cursor, !.todo = SyncRows] = [c EXCEPT !.todo = SyncRows]
      OBVIOUS
    <3>2. c = [since |-> cursor, timestamp |-> -1, todo |-> {}, answer |-> {}]
      BY DEF NoPull
    <3> HIDE DEF c
    <3> QED BY <3>1, <3>2
  <2>2. p \in OnePull
    BY DEF PullInv, PullShape, OnePull
  <2> QED BY <2>1, <2>2 DEF StartPull
<1>2. /\ pull'[k] = p /\ \A j \in Pulls \ {k} : pull'[j] = pull[j]
      /\ p.since = cursor /\ p.timestamp = -1 /\ p.answer = {} /\ p.todo = SyncRows
  BY <1>1 DEF PullInv, PullShape
<1> HIDE DEF p
<1>3. PullShape'
  BY <1>1 DEF PullInv, PullShape
<1>4. ReadOnce'
  BY <1>1, <1>2 DEF PullInv, ReadOnce, Stamped
<1>5. \A r \in SyncRows : rows[r].stamp \in Int /\ cursor \in Int
  BY DEF PullInv, PullShape, SyncRow
<1>6. KnownBefore'
  BY <1>1, <1>2, <1>5 DEF PullInv, KnownBefore, NothingElseMissed, Current
<1>7. Answered' /\ NothingElseMissed'
  BY <1>1, <1>2 DEF PullInv, Answered, NothingElseMissed, Stamped, Current
<1> QED BY <1>3, <1>4, <1>6, <1>7 DEF PullInv

LEMMA TimestampStep ==
    ASSUME PullInv, NEW k \in Pulls, TakeTimestamp(k)
    PROVE  PullInv'
<1> DEFINE p == [pull[k] EXCEPT !.timestamp = appClock + 1]
<1>0. pull[k] \in OnePull /\ pull[k].todo = SyncRows /\ appClock \in Nat
  BY DEF TakeTimestamp, PullInv, PullShape, ReadOnce
<1>1. /\ pull' = [pull EXCEPT ![k] = p] /\ UNCHANGED <<rows, writing, cursor, phone, behind, writes>>
      /\ appClock' \in Nat
  BY <1>0 DEF TakeTimestamp, PullInv, PullShape
<1>2. /\ p \in OnePull /\ p.since = pull[k].since /\ p.answer = pull[k].answer
      /\ p.todo = SyncRows /\ p.timestamp = appClock + 1
  BY <1>0 DEF OnePull
<1> HIDE DEF p
<1>3. pull'[k] = p /\ \A j \in Pulls \ {k} : pull'[j] = pull[j]
  BY <1>1 DEF PullInv, PullShape
<1>4. PullShape'
  BY <1>1, <1>2 DEF PullInv, PullShape
<1>5. ReadOnce'
  BY <1>0, <1>1, <1>2, <1>3 DEF PullInv, ReadOnce, Stamped
<1>6. KnownBefore' /\ NothingElseMissed'
  BY <1>1, <1>2, <1>3 DEF PullInv, KnownBefore, NothingElseMissed, Current
<1>7. Answered'
  BY <1>1, <1>2, <1>3 DEF PullInv, Answered, Stamped, Current
<1> QED BY <1>4, <1>5, <1>6, <1>7 DEF PullInv

LEMMA PullFields ==
    ASSUME NEW p \in OnePull, NEW x, NEW y
    PROVE  [p EXCEPT !.todo = x, !.answer = y]
              = [since |-> p.since, timestamp |-> p.timestamp, todo |-> x, answer |-> y]
<1> DEFINE c == [p EXCEPT !.todo = x]
<1>1. [p EXCEPT !.todo = x, !.answer = y] = [c EXCEPT !.answer = y]
  OBVIOUS
<1>2. c = [since |-> p.since, timestamp |-> p.timestamp, todo |-> x, answer |-> p.answer]
  BY DEF OnePull
<1> HIDE DEF c
<1> QED BY <1>1, <1>2

LEMMA TableStep ==
    ASSUME PullInv, NEW k \in Pulls, NEW r \in SyncRows, ReadTable(k, r)
    PROVE  PullInv'
<1> DEFINE a == IF Selected(r, pull[k].since) THEN pull[k].answer \cup {<<r, rows[r].value>>} ELSE pull[k].answer
           p == [since |-> pull[k].since, timestamp |-> pull[k].timestamp, todo |-> pull[k].todo \ {r}, answer |-> a]
<1>1. pull[k] \in OnePull /\ Stamped(k) /\ r \in pull[k].todo /\ rows[r] \in SyncRow
      /\ rows[r].value \in 1..(MaxWrites + 1) /\ UNCHANGED <<appClock, rows, writing, cursor, phone, behind, writes>>
  BY PullAssumption DEF ReadTable, PullInv, PullShape
<1>2. [pull[k] EXCEPT !.todo = pull[k].todo \ {r}, !.answer = a] = p
  BY <1>1, PullFields
<1>3. pull' = [pull EXCEPT ![k] = p]
  <2>1. pull' = [pull EXCEPT ![k] = [pull[k] EXCEPT !.todo = pull[k].todo \ {r}, !.answer = a]]
    BY DEF ReadTable, PullInv, PullShape
  <2> QED BY <2>1, <1>2
<1>4. a \in SUBSET (SyncRows \X Int)
  BY <1>1 DEF OnePull, SyncRow
<1>5. p \in OnePull /\ p.since = pull[k].since /\ p.timestamp = pull[k].timestamp
      /\ p.todo = pull[k].todo \ {r} /\ p.answer = a
  BY <1>1, <1>4 DEF OnePull
<1>6. \A v \in Int : <<r, v>> \notin pull[k].answer
  BY <1>1 DEF PullInv, ReadOnce
<1>7. \A q \in SyncRows, v \in Int :
         <<q, v>> \in a <=> (<<q, v>> \in pull[k].answer
                             \/ (q = r /\ v = rows[r].value /\ Selected(r, pull[k].since)))
  <2> TAKE q \in SyncRows, v \in Int
  <2>1. <<q, v>> = <<r, rows[r].value>> <=> (q = r /\ v = rows[r].value)
    OBVIOUS
  <2>2. <<q, v>> \in a <=> (<<q, v>> \in pull[k].answer
                            \/ (Selected(r, pull[k].since) /\ <<q, v>> = <<r, rows[r].value>>))
    OBVIOUS
  <2> HIDE DEF a
  <2> QED BY <2>1, <2>2
<1> HIDE DEF a, p
<1>8. pull'[k] = p /\ \A j \in Pulls \ {k} : pull'[j] = pull[j]
  BY <1>3 DEF PullInv, PullShape
<1>9. PullShape'
  BY <1>1, <1>3, <1>5 DEF PullInv, PullShape
<1>10. ReadOnce'
  <2>1. ASSUME NEW q \in SyncRows, NEW v \in Int, NEW w \in Int, <<q, v>> \in p.answer
        PROVE  /\ q \notin p.todo /\ v \in 1..(MaxWrites + 1)
               /\ <<q, w>> \in p.answer => v = w
    BY <2>1, <1>1, <1>5, <1>6, <1>7 DEF PullInv, ReadOnce
  <2> QED BY <2>1, <1>1, <1>5, <1>8 DEF PullInv, ReadOnce, Stamped
<1>11. KnownBefore' /\ NothingElseMissed'
  BY <1>1, <1>5, <1>8 DEF PullInv, KnownBefore, NothingElseMissed, Current
<1>12. Answered'
  <2>1. ASSUME NEW q \in SyncRows, Stamped(k), q \notin p.todo, Current(q), rows[q].stamp <= p.timestamp
        PROVE  \/ <<q, rows[q].value>> \in p.answer
               \/ rows[q].stamp <= p.since /\ \A v \in Int : <<q, v>> \notin p.answer
    <3>0. rows[q].value \in Int /\ rows[q].stamp \in Int /\ p.since \in Int
      BY <1>1, <1>5 DEF PullInv, PullShape, SyncRow, OnePull
    <3>1. CASE q = r
      <4>1. CASE Selected(r, pull[k].since)
        BY <3>0, <3>1, <4>1, <1>5, <1>7
      <4>2. CASE ~Selected(r, pull[k].since)
        BY <2>1, <3>0, <3>1, <4>2, <1>5, <1>6, <1>7 DEF Selected, Current
      <4> QED BY <4>1, <4>2
    <3>2. CASE q # r
      <4>1. /\ Stamped(k) /\ q \notin pull[k].todo /\ rows[q].stamp <= pull[k].timestamp
            /\ \A v \in Int : <<q, v>> \in p.answer <=> <<q, v>> \in pull[k].answer
        BY <2>1, <3>2, <1>5, <1>7
      <4> QED BY <2>1, <4>1, <3>0, <1>5 DEF PullInv, Answered
    <3> QED BY <3>1, <3>2
  <2> QED BY <2>1, <1>1, <1>5, <1>8 DEF PullInv, Answered, Stamped, Current
<1> QED BY <1>9, <1>10, <1>11, <1>12 DEF PullInv

\* The answer brings what changed up to its timestamp; what a newer pull asked for
\* less of is behind.
LEMMA AppliedStep ==
    ASSUME PullInv, NEW k \in Pulls, Apply(k)
    PROVE  PullInv'
<1>1. /\ Stamped(k) /\ pull[k].todo = {} /\ pull[k] \in OnePull
      /\ phone' = Upserted(pull[k].answer) /\ cursor' = pull[k].timestamp
      /\ pull' = [pull EXCEPT ![k] = NoPull] /\ UNCHANGED <<appClock, rows, writing, writes>>
  BY DEF Apply, PullInv, PullShape
<1>2. /\ pull'[k] = NoPull /\ \A j \in Pulls \ {k} : pull'[j] = pull[j]
      /\ NoPull \in OnePull /\ NoPull.since = -1 /\ NoPull.timestamp = -1 /\ NoPull.answer = {}
  BY <1>1 DEF PullInv, PullShape, NoPull, OnePull
<1>3. \A r \in SyncRows, v \in Int : <<r, v>> \in pull[k].answer => phone'[r] = v
  <2> TAKE r \in SyncRows, v \in Int
  <2> HAVE <<r, v>> \in pull[k].answer
  <2> DEFINE c == CHOOSE w \in 1..MaxWrites + 1 : <<r, w>> \in pull[k].answer
  <2>1. v \in 1..MaxWrites + 1
    BY DEF PullInv, ReadOnce
  <2>2. phone'[r] = c /\ c \in 1..MaxWrites + 1 /\ <<r, c>> \in pull[k].answer
    BY <1>1, <2>1 DEF Upserted
  <2> HIDE DEF c
  <2> QED BY <2>2 DEF PullInv, ReadOnce
<1>4. \A r \in SyncRows : (\A v \in Int : <<r, v>> \notin pull[k].answer) => phone'[r] = phone[r]
  BY <1>1 DEF Upserted
<1>5. phone' \in [SyncRows -> Int]
  <2>1. \A r \in SyncRows : phone'[r] \in Int
    <3> TAKE r \in SyncRows
    <3>1. CASE \E v \in Int : <<r, v>> \in pull[k].answer
      BY <3>1, <1>3
    <3>2. CASE \A v \in Int : <<r, v>> \notin pull[k].answer
      BY <3>2, <1>4 DEF PullInv, PullShape
    <3> QED BY <3>1, <3>2
  <2>2. phone' = [r \in SyncRows |-> phone'[r]]
    BY <1>1 DEF Upserted
  <2> QED BY <2>1, <2>2
<1>6. \A r \in SyncRows : Current(r)' => Current(r) /\ ~Overtaken(k, r)
  BY <1>1 DEF Apply, Current
<1>7. ASSUME NEW r \in SyncRows, Current(r), rows[r].stamp <= pull[k].timestamp
      PROVE  phone'[r] = rows[r].value
  <2>1. rows[r].value \in Int /\ r \notin pull[k].todo
    BY <1>1 DEF PullInv, PullShape, SyncRow
  <2>2. CASE <<r, rows[r].value>> \in pull[k].answer
    BY <2>1, <2>2, <1>3
  <2>3. CASE rows[r].stamp <= pull[k].since /\ \A v \in Int : <<r, v>> \notin pull[k].answer
    BY <1>7, <2>3, <1>4 DEF PullInv, KnownBefore
  <2> QED BY <1>7, <2>1, <2>2, <2>3, <1>1 DEF PullInv, Answered
<1>8. \A r \in SyncRows : /\ rows[r].stamp \in Int /\ pull[k].timestamp \in Int /\ rows[r].stamp >= 1
                          /\ \A j \in Pulls : pull[j].since \in Int
  BY DEF PullInv, PullShape, SyncRow, OnePull
<1>9. PullShape'
  BY <1>1, <1>2, <1>5 DEF PullInv, PullShape, OnePull
<1>10. ReadOnce'
  BY <1>1, <1>2 DEF PullInv, ReadOnce, Stamped
<1>11. KnownBefore'
  <2>1. ASSUME NEW j \in Pulls \ {k}, NEW r \in SyncRows, Current(r)', rows[r].stamp <= pull[j].since
        PROVE  phone'[r] = rows[r].value
    BY <2>1, <1>6, <1>7, <1>8 DEF Overtaken
  <2> QED BY <2>1, <1>1, <1>2, <1>8 DEF KnownBefore
<1>12. Answered'
  BY <1>1, <1>2, <1>6 DEF PullInv, Answered, Stamped
<1>13. NothingElseMissed'
  BY <1>1, <1>6, <1>7, <1>8 DEF NothingElseMissed, Current
<1> QED BY <1>9, <1>10, <1>11, <1>12, <1>13 DEF PullInv

LEMMA FaultStep ==
    ASSUME PullInv, RestartApp \/ \E k \in Pulls : LoseAnswer(k)
    PROVE  PullInv'
<1>1. /\ pull' \in [Pulls -> OnePull] /\ \A j \in Pulls : pull'[j] \in {NoPull, pull[j]}
      /\ cursor' \in {0, cursor} /\ UNCHANGED <<appClock, rows, writing, phone, behind, writes>>
  <2>1. NoPull \in OnePull
    BY DEF NoPull, OnePull
  <2> QED BY <2>1 DEF RestartApp, LoseAnswer, PullInv, PullShape
<1>2. NoPull.since = -1 /\ NoPull.timestamp = -1 /\ NoPull.answer = {}
  BY DEF NoPull
<1>3. \A r \in SyncRows : rows[r].stamp \in Int /\ rows[r].stamp >= 1
  BY DEF PullInv, PullShape, SyncRow
<1>4. PullShape'
  BY <1>1 DEF PullInv, PullShape
<1>5. ReadOnce'
  BY <1>1, <1>2 DEF PullInv, ReadOnce, Stamped
<1>6. KnownBefore'
  BY <1>1, <1>2, <1>3 DEF PullInv, KnownBefore, Current
<1>7. Answered'
  BY <1>1, <1>2 DEF PullInv, Answered, Stamped, Current
<1>8. NothingElseMissed'
  BY <1>1, <1>3 DEF PullInv, NothingElseMissed
<1> QED BY <1>4, <1>5, <1>6, <1>7, <1>8 DEF PullInv

LEMMA PullStepwise == ASSUME PullInv, [PullNext]_pullVars PROVE PullInv'
<1>1. CASE \E r \in SyncRows : Save(r) \/ SaveUnstamped(r) \/ Reassign(r) \/ CommitWrite(r)
  BY <1>1, WriteStep, CommitStep
<1>2. CASE \E k \in Pulls : StartPull(k) \/ TakeTimestamp(k) \/ Apply(k)
  BY <1>2, StartStep, TimestampStep, AppliedStep
<1>3. CASE \E k \in Pulls : \E r \in SyncRows : ReadTable(k, r)
  BY <1>3, TableStep
<1>4. CASE RestartApp \/ \E k \in Pulls : LoseAnswer(k)
  BY <1>4, FaultStep
<1>5. CASE UNCHANGED pullVars
  BY <1>5 DEF pullVars, PullInv, PullShape, ReadOnce, KnownBefore, Answered, NothingElseMissed, Stamped, Current
<1> QED BY <1>1, <1>2, <1>3, <1>4, <1>5 DEF PullNext

\* A phone misses a change only if it was committed behind a timestamp handed out
\* before, for any rows, any overlap of pulls and writers, lost answers and
\* restarts (PullView.get and pull()).
THEOREM NothingMissedUnseen == PullSpec => []NothingElseMissed
<1>1. PullInit => PullInv
  BY PullInitially
<1>2. PullInv /\ [PullNext]_pullVars => PullInv'
  BY PullStepwise
<1>3. PullInv => NothingElseMissed
  BY DEF PullInv
<1> QED BY <1>1, <1>2, <1>3, PTL DEF PullSpec


-----------------------------------------------------------------------------
(* MasterImport: sheets imported at the same time *)

\* SyncRow i of sheet f went in and would again: the rows H exist, the values C are taken.
Holds(f, i, H, C) ==
    LET row == RowOf(f, i) IN
    /\ Needs(row) \subseteq H \cup Makes(row)
    /\ row.role # NoRoleCell => <<"role", row.role>> \in H
    /\ row.code # NoCode => C[row.code] = Target(row)

\* No sheet lists a key twice.
KeysOnce ==
    \A f \in DOMAIN Sheets : \A i, j \in 1..SheetLen(f) :
        Sheets[f].rows[i].key = Sheets[f].rows[j].key => i = j

LEMMA RowFields ==
    ASSUME NEW f \in DOMAIN Sheets, NEW i \in 1..SheetLen(f)
    PROVE  /\ RowOf(f, i).code \in Codes \cup {NoCode}
           /\ RowOf(f, i).entity = Registry[Sheets[f].entity]
           /\ RowOf(f, i).key = Sheets[f].rows[i].key
BY ImportAssumption DEF RowOf, SheetLen

LEMMA HoldsFailsNot ==
    ASSUME NEW f, NEW i, Holds(f, i, have, code)
    PROVE  ~Fails(RowOf(f, i))
BY DEF Holds, Fails, Saved, Unique

LEMMA RowHolds ==
    ASSUME NEW f \in DOMAIN Sheets, NEW k \in 1..SheetLen(f), ~Fails(RowOf(f, k)),
           have' = After(RowOf(f, k)), code' = Coded(RowOf(f, k))
    PROVE  Holds(f, k, have', code')
<1> DEFINE row == RowOf(f, k)
<1>1. row.code \in Codes \cup {NoCode}
  BY RowFields
<1> HIDE DEF row
<1>2. Saved(row) /\ (row.role # NoRoleCell => <<"role", row.role>> \in have)
  BY DEF Fails, row
<1>3. have \subseteq have' /\ code' = Coded(row) /\ Needs(row) \subseteq have \cup Makes(row)
  BY <1>2 DEF After, row, Saved
<1>4. row.code # NoCode => code'[row.code] = Target(row)
  BY <1>1, <1>2, <1>3 DEF Coded
<1>5. /\ Needs(row) \subseteq have' \cup Makes(row)
      /\ row.role # NoRoleCell => <<"role", row.role>> \in have'
  BY <1>2, <1>3
<1> QED BY <1>4, <1>5 DEF Holds, row

\* A row of the same sheet breaks no row that holds.
LEMMA RowKeeps ==
    ASSUME KeysOnce, NEW f \in DOMAIN Sheets, NEW k \in 1..SheetLen(f), NEW i \in 1..SheetLen(f),
           Holds(f, i, have, code), have' = After(RowOf(f, k)), code' = Coded(RowOf(f, k))
    PROVE  Holds(f, i, have', code')
<1>1. CASE i = k
  BY <1>1, HoldsFailsNot, RowHolds
<1>2. CASE i # k
  <2> DEFINE a == RowOf(f, i)
             row == RowOf(f, k)
  <2>1. Target(a) # Target(row)
    <3>1. a.key # row.key
      BY <1>2, RowFields DEF KeysOnce
    <3> QED BY <3>1 DEF Target
  <2>2. a.code \in Codes \cup {NoCode}
    BY RowFields
  <2>3. /\ Needs(a) \subseteq have \cup Makes(a)
        /\ a.role # NoRoleCell => <<"role", a.role>> \in have
        /\ a.code # NoCode => code[a.code] = Target(a)
    BY DEF Holds
  <2> HIDE DEF a, row
  <2>4. have \subseteq have' /\ code' = Coded(row)
    BY DEF After, row
  <2>5. Target(a) # <<>>
    BY DEF Target
  <2>6. a.code # NoCode => code'[a.code] = Target(a)
    <3>1. CASE ~Saved(row)
      BY <2>3, <2>4, <3>1 DEF Coded
    <3>2. CASE Saved(row) /\ a.code # NoCode
      <4>1. row.code = NoCode \/ code[row.code] \in {<<>>, Target(row)}
        BY <3>2 DEF Saved, Unique
      <4>2. a.code # row.code
        BY <2>1, <2>3, <2>5, <3>2, <4>1
      <4>3. code'[a.code] = IF code[a.code] = Target(row) THEN <<>> ELSE code[a.code]
        BY <2>2, <2>4, <3>2, <4>2 DEF Coded
      <4> QED BY <2>1, <2>3, <3>2, <4>3
    <3> QED BY <3>1, <3>2
  <2>7. /\ Needs(a) \subseteq have' \cup Makes(a)
        /\ a.role # NoRoleCell => <<"role", a.role>> \in have'
    BY <2>3, <2>4
  <2> QED BY <2>6, <2>7 DEF Holds, a
<1> QED BY <1>1, <1>2

LEMMA HoldsMore ==
    ASSUME NEW f, NEW i, NEW H, NEW G, NEW C, Holds(f, i, H, C), H \subseteq G
    PROVE  Holds(f, i, G, C)
BY DEF Holds

-----------------------------------------------------------------------------

Running == [sheet : DOMAIN Sheets, next : Nat, made : Nat, errors : SUBSET Nat,
            alone : BOOLEAN, repeats : BOOLEAN]
ImportJobs == [sheet : DOMAIN Sheets, made : Nat, changed : Int, errors : SUBSET Nat,
               repeats : BOOLEAN]

LastErrors(J) == J[Len(J)].errors

\* What an import has done: alone, it left behind what it did not report; a repetition
\* reports nothing the job before did not.
Underway(r, H, C) ==
    /\ r.next \in 1..(SheetLen(r.sheet) + 1) /\ r.errors \subseteq 1..(r.next - 1)
    /\ r.alone => \A i \in 1..(r.next - 1) : i \notin r.errors => Holds(r.sheet, i, H, C)

Repeating(r, s, J) ==
    r.repeats => s = r.sheet /\ r.errors \subseteq LastErrors(J)

\* The last job is of the sheet f, and the rows it did not report hold.
SheetStands(f, J, H, C) ==
    /\ f \in DOMAIN Sheets /\ J # <<>> /\ J[Len(J)].sheet = f
    /\ \A i \in 1..SheetLen(f) : i \notin LastErrors(J) => Holds(f, i, H, C)

ImportInv ==
    /\ import \in [Importers -> {NoImport} \cup Running]
    /\ jobs \in Seq(ImportJobs)
    /\ \A m \in Importers : import[m] # NoImport => Underway(import[m], have, code)
    /\ \A m \in Importers : Repeating(import[m], still, jobs)
    /\ still # NoSheet => SheetStands(still, jobs, have, code)
    /\ ErrorsOnlyShrink

\* An import another one got in the way of.
Quiet(r) == [r EXCEPT !.alone = FALSE, !.repeats = FALSE]

LEMMA QuietImport ==
    /\ Quiet(NoImport) = NoImport /\ NoImport.sheet = NoSheet
    /\ \A r \in Running : /\ Quiet(r) \in Running /\ Quiet(r) # NoImport /\ r # NoImport
                          /\ ~Quiet(r).alone /\ ~Quiet(r).repeats
                          /\ Quiet(r).sheet = r.sheet /\ Quiet(r).next = r.next
                          /\ Quiet(r).errors = r.errors
<1>1. Quiet(NoImport) = NoImport /\ NoImport.sheet = NoSheet
  <2> DEFINE r == NoImport
  <2>1. r = [sheet |-> NoSheet, next |-> 0, made |-> 0, errors |-> {}, alone |-> FALSE, repeats |-> FALSE]
    BY DEF NoImport
  <2>2. r.sheet = NoSheet /\ r.alone = FALSE /\ r.repeats = FALSE
    BY DEF NoImport
  <2> QED BY <2>2 DEF Quiet, NoImport
<1>2. ASSUME NEW r \in Running
      PROVE  /\ Quiet(r) \in Running /\ Quiet(r) # NoImport /\ r # NoImport
             /\ ~Quiet(r).alone /\ ~Quiet(r).repeats
             /\ Quiet(r).sheet = r.sheet /\ Quiet(r).next = r.next
             /\ Quiet(r).errors = r.errors
  <2>1. /\ Quiet(r) \in Running /\ ~Quiet(r).alone /\ ~Quiet(r).repeats
        /\ Quiet(r).sheet = r.sheet /\ Quiet(r).next = r.next /\ Quiet(r).errors = r.errors
    BY DEF Quiet, Running
  <2>2. r.sheet # NoSheet
    BY ImportAssumption DEF Running
  <2> QED BY <1>1, <2>1, <2>2
<1> QED BY <1>1, <1>2

LEMMA QuietOK ==
    ASSUME NEW r \in {NoImport} \cup Running, NEW H, NEW C, NEW G, NEW D, NEW s, NEW J,
           r # NoImport => Underway(r, H, C)
    PROVE  /\ Quiet(r) \in {NoImport} \cup Running
           /\ Quiet(r) # NoImport => Underway(Quiet(r), G, D)
           /\ Repeating(Quiet(r), s, J)
<1>1. CASE r = NoImport
  <2>1. ~NoImport.repeats
    BY DEF NoImport
  <2> QED BY <1>1, <2>1, QuietImport DEF Repeating
<1>2. CASE r \in Running
  <2>1. /\ Quiet(r) \in Running /\ r # NoImport
        /\ ~Quiet(r).alone /\ ~Quiet(r).repeats
        /\ Quiet(r).sheet = r.sheet /\ Quiet(r).next = r.next /\ Quiet(r).errors = r.errors
    BY <1>2, QuietImport
  <2> HIDE DEF Quiet
  <2> QED BY <2>1 DEF Underway, Repeating
<1> QED BY <1>1, <1>2

\* The import that does a row of its sheet.
Advanced(r, made, E) == [r EXCEPT !.next = @ + 1, !.made = made, !.errors = E]

-----------------------------------------------------------------------------

LEMMA ImportInvInit == ImportInit => ImportInv
<1> SUFFICES ASSUME ImportInit PROVE ImportInv
  OBVIOUS
<1>1. ~NoImport.repeats
  BY DEF NoImport
<1> QED BY <1>1 DEF ImportInit, ImportInv, Repeating, ErrorsOnlyShrink

\* Steps of the office, and none at all.
LEMMA OfficeStep ==
    ASSUME ImportInv, have \subseteq have', UNCHANGED <<code, import, jobs, still>>
    PROVE  ImportInv'
<1>1. \A m \in Importers : import[m] # NoImport => Underway(import[m], have', code)
  BY HoldsMore DEF ImportInv, Underway
<1>2. still # NoSheet => SheetStands(still, jobs, have', code)
  BY HoldsMore DEF ImportInv, SheetStands
<1> QED BY <1>1, <1>2 DEF ImportInv, ErrorsOnlyShrink

LEMMA Uploading ==
    ASSUME ImportInv, NEW m \in Importers, NEW f \in DOMAIN Sheets, Upload(m, f)
    PROVE  ImportInv'
<1>1. PICK alone \in BOOLEAN, repeats \in BOOLEAN :
        /\ repeats => still = f
        /\ import' = [import EXCEPT ![m] = [sheet |-> f, next |-> 1, made |-> 0, errors |-> {},
                                            alone |-> alone, repeats |-> repeats]]
  BY DEF Upload
<1> DEFINE q == [sheet |-> f, next |-> 1, made |-> 0, errors |-> {}, alone |-> alone, repeats |-> repeats]
<1>2. SheetLen(f) \in Nat
  BY ImportAssumption DEF SheetLen
<1>3. q \in Running /\ Underway(q, have, code) /\ Repeating(q, still, jobs)
  BY <1>1, <1>2 DEF Running, Underway, Repeating
<1> HIDE DEF q
<1>4. UNCHANGED <<have, code, jobs, still>>
  BY DEF Upload
<1>5. /\ import \in [Importers -> {NoImport} \cup Running]
      /\ import' = [import EXCEPT ![m] = q]
  BY <1>1 DEF ImportInv, q
<1>6. \A n \in Importers : import'[n] = IF n = m THEN q ELSE import[n]
  BY <1>5
<1>7. import' \in [Importers -> {NoImport} \cup Running]
  BY <1>3, <1>5
<1>8. \A n \in Importers : (import'[n] # NoImport => Underway(import'[n], have, code))
                           /\ Repeating(import'[n], still, jobs)
  BY <1>3, <1>6 DEF ImportInv
<1> QED BY <1>4, <1>7, <1>8 DEF ImportInv, ErrorsOnlyShrink

LEMMA Dying ==
    ASSUME ImportInv, NEW m \in Importers, ImporterDies(m)
    PROVE  ImportInv'
<1>1. UNCHANGED <<have, code, jobs, still>> /\ import' = [import EXCEPT ![m] = NoImport]
  BY DEF ImporterDies
<1>2. import \in [Importers -> {NoImport} \cup Running]
  BY DEF ImportInv
<1>3. \A n \in Importers : import'[n] = IF n = m THEN NoImport ELSE import[n]
  BY <1>1, <1>2
<1>4. import' \in [Importers -> {NoImport} \cup Running]
  BY <1>1, <1>2
<1>5. ~NoImport.repeats
  BY DEF NoImport
<1>6. \A n \in Importers : (import'[n] # NoImport => Underway(import'[n], have, code))
                           /\ Repeating(import'[n], still, jobs)
  BY <1>3, <1>5 DEF ImportInv, Repeating
<1> QED BY <1>1, <1>4, <1>6 DEF ImportInv, ErrorsOnlyShrink

\* The imports m got in the way of.
LEMMA OtherRows ==
    ASSUME ImportInv, NEW m \in Importers, NEW n \in Importers, n # m,
           import'[n] = Disturbed(m)[n]
    PROVE  /\ import'[n] \in {NoImport} \cup Running
           /\ import'[n] # NoImport => Underway(import'[n], have', code')
           /\ Repeating(import'[n], still', jobs')
<1>1. import'[n] = Quiet(import[n])
  BY DEF Disturbed, Quiet
<1>2. /\ import[n] \in {NoImport} \cup Running
      /\ import[n] # NoImport => Underway(import[n], have, code)
  BY DEF ImportInv
<1>3. /\ Quiet(import[n]) \in {NoImport} \cup Running
      /\ Quiet(import[n]) # NoImport => Underway(Quiet(import[n]), have', code')
      /\ Repeating(Quiet(import[n]), still', jobs')
  BY <1>2, QuietOK
<1> QED BY <1>1, <1>3, Zenon

LEMMA Importing ==
    ASSUME KeysOnce, ImportInv, NEW m \in Importers, ImportRow(m)
    PROVE  ImportInv'
<1>0. import \in [Importers -> {NoImport} \cup Running] /\ import[m] # NoImport
  BY DEF ImportInv, ImportRow
<1>1. PICK r \in Running : r = import[m]
  BY <1>0
<1>2. PICK f, k : f = r.sheet /\ k = r.next
  OBVIOUS
<1>3. Underway(r, have, code) /\ Repeating(r, still, jobs)
  BY <1>0, <1>1 DEF ImportInv
<1>4. f \in DOMAIN Sheets /\ SheetLen(f) \in Nat /\ k \in 1..SheetLen(f)
  <2>1. f \in DOMAIN Sheets /\ SheetLen(f) \in Nat
    BY <1>2, ImportAssumption DEF Running, SheetLen
  <2>2. ~(k > SheetLen(f)) /\ k \in 1..(SheetLen(f) + 1)
    BY <1>1, <1>2, <1>3 DEF ImportRow, Done, Underway
  <2> QED BY <2>1, <2>2
<1> DEFINE row == RowOf(f, k)
           made == IF ~Fails(row) /\ Target(row) \notin have THEN r.made + 1 ELSE r.made
           E == IF Fails(row) THEN r.errors \cup {k} ELSE r.errors
           q == Advanced(r, made, E)
<1>5. /\ have' = After(row) /\ code' = Coded(row) /\ jobs' = jobs
      /\ still' = IF still = f THEN still ELSE NoSheet
  BY <1>1, <1>2 DEF ImportRow
<1>6. \A n \in Importers : import'[n] = IF n = m THEN q ELSE Disturbed(m)[n]
  <2>1. import' = [Disturbed(m) EXCEPT
                 ![m].next = @ + 1,
                 ![m].made = IF ~Fails(row) /\ Target(row) \notin have THEN @ + 1 ELSE @,
                 ![m].errors = IF Fails(row) THEN @ \cup {k} ELSE @]
    BY <1>1, <1>2 DEF ImportRow
  <2>2. Disturbed(m)[m] = r /\ DOMAIN Disturbed(m) = Importers
    BY <1>1 DEF Disturbed
  <2>3. r = [r EXCEPT !.next = r.next] /\ {"next", "made", "errors"} \subseteq DOMAIN r
    BY DEF Running
  <2> HIDE DEF row
  <2> QED BY <2>1, <2>2, <2>3 DEF Advanced
<1>7. DOMAIN import' = Importers
  BY DEF ImportRow, Disturbed
<1>8. made \in Nat
  BY DEF Running
<1> HIDE DEF made
<1>9. q \in Running /\ Underway(q, have', code') /\ (q.repeats => still = f /\ q.errors \subseteq LastErrors(jobs))
  <2>0. f \in DOMAIN Sheets /\ SheetLen(f) \in Nat /\ k \in Nat /\ r.errors \subseteq 1..(k - 1)
    BY <1>2, <1>3, <1>4 DEF Running, Underway
  <2>1. /\ q \in Running /\ q.sheet = f /\ q.next = k + 1 /\ q.alone = r.alone /\ q.repeats = r.repeats
        /\ q.errors = E
    <3>1. E \in SUBSET Nat /\ k + 1 \in Nat
      BY <2>0 DEF Running
    <3>2. q = [r EXCEPT !.next = k + 1, !.made = made, !.errors = E]
      BY <1>2 DEF Advanced
    <3> HIDE DEF q, E
    <3> QED BY <1>2, <1>8, <3>1, <3>2 DEF Running
  <2> HIDE DEF q
  <2>2. E \subseteq 1..k /\ r.errors \subseteq E
    <3>1. E \subseteq r.errors \cup {k} /\ r.errors \subseteq E
      OBVIOUS
    <3> HIDE DEF E
    <3> QED BY <1>4, <2>0, <3>1
  <2>3. ASSUME r.alone, NEW i \in 1..k, i \notin E PROVE Holds(f, i, have', code')
    <3>1. CASE i = k
      <4>1. ~Fails(RowOf(f, k))
        BY <2>3, <3>1
      <4> QED BY <1>4, <1>5, <3>1, <4>1, RowHolds
    <3>2. CASE i # k
      <4>1. i \in 1..(k - 1) /\ i \in 1..SheetLen(f)
        BY <1>4, <2>0, <3>2, <2>3
      <4>2. Holds(f, i, have, code)
        BY <1>2, <1>3, <2>2, <2>3, <4>1 DEF Underway
      <4> QED BY <1>4, <1>5, <4>1, <4>2, RowKeeps
    <3> QED BY <3>1, <3>2
  <2>4. Underway(q, have', code')
    <3>1. q.next \in 1..(SheetLen(f) + 1) /\ q.next - 1 = k
      BY <1>4, <2>0, <2>1
    <3> HIDE DEF E, row
    <3> QED BY <2>1, <2>2, <2>3, <3>1 DEF Underway
  <2>5. ASSUME r.repeats PROVE still = f /\ E \subseteq LastErrors(jobs)
    <3>1. still = f /\ r.errors \subseteq LastErrors(jobs)
      BY <1>2, <1>3, <2>5 DEF Repeating
    <3>2. still # NoSheet
      BY <2>0, <3>1, ImportAssumption
    <3>3. k \notin LastErrors(jobs) => ~Fails(RowOf(f, k))
      BY <1>4, <3>1, <3>2, HoldsFailsNot DEF SheetStands, ImportInv
    <3> QED BY <3>1, <3>3
  <2> QED BY <2>1, <2>4, <2>5
<1>10. Repeating(q, still', jobs')
  <2>1. q.sheet = f
    BY <1>2 DEF Running, Advanced
  <2> HIDE DEF q
  <2> QED BY <1>5, <1>9, <2>1 DEF Repeating
<1> HIDE DEF q
<1>11. \A n \in Importers : /\ import'[n] \in {NoImport} \cup Running
                            /\ import'[n] # NoImport => Underway(import'[n], have', code')
                            /\ Repeating(import'[n], still', jobs')
  <2> SUFFICES ASSUME NEW n \in Importers
               PROVE  /\ import'[n] \in {NoImport} \cup Running
                      /\ import'[n] # NoImport => Underway(import'[n], have', code')
                      /\ Repeating(import'[n], still', jobs')
    OBVIOUS
  <2>1. CASE n = m
    <3>1. import'[n] = q
      BY <1>6, <2>1
    <3> QED BY <1>9, <1>10, <3>1
  <2>2. CASE n # m
    <3>1. import'[n] = Disturbed(m)[n]
      BY <1>6, <2>2
    <3> QED BY <2>2, <3>1, OtherRows
  <2> QED BY <2>1, <2>2
<1>12. still' # NoSheet => SheetStands(still', jobs', have', code')
  <2> SUFFICES ASSUME still' # NoSheet PROVE SheetStands(f, jobs, have', code')
    BY <1>5
  <2>1. SheetStands(f, jobs, have, code)
    BY <1>5 DEF ImportInv
  <2>2. \A i \in 1..SheetLen(f) : i \notin LastErrors(jobs) => Holds(f, i, have', code')
    <3> SUFFICES ASSUME NEW i \in 1..SheetLen(f), i \notin LastErrors(jobs)
                 PROVE  Holds(f, i, have', code')
      OBVIOUS
    <3>1. Holds(f, i, have, code)
      BY <2>1 DEF SheetStands
    <3> QED BY <1>4, <1>5, <3>1, RowKeeps
  <2> QED BY <2>1, <2>2 DEF SheetStands
<1>13. import' \in [Importers -> {NoImport} \cup Running]
  <2>1. import' = [n \in Importers |-> import'[n]]
    BY DEF ImportRow, Disturbed
  <2> QED BY <1>11, <2>1
<1> QED BY <1>5, <1>11, <1>12, <1>13 DEF ImportInv, ErrorsOnlyShrink

\* The k-th job reports no more than the one before, if it repeats its sheet.
LEMMA JobAdded ==
    ASSUME NEW J \in Seq(ImportJobs), NEW j \in ImportJobs, NEW K, K = Append(J, j),
           J # <<>> /\ j.repeats => j.errors \subseteq LastErrors(J),
           \A k \in 2..Len(J) : J[k].repeats => J[k].errors \subseteq J[k - 1].errors
    PROVE  /\ K \in Seq(ImportJobs) /\ K # <<>> /\ K[Len(K)] = j
           /\ \A k \in 2..Len(K) : K[k].repeats => K[k].errors \subseteq K[k - 1].errors
<1>1. Len(J) \in Nat /\ K \in Seq(ImportJobs) /\ Len(K) = Len(J) + 1 /\ K[Len(J) + 1] = j
      /\ \A i \in 1..Len(J) : K[i] = J[i]
  OBVIOUS
<1>2. K # <<>>
  BY <1>1
<1>3. ASSUME NEW k \in 2..Len(K), K[k].repeats PROVE K[k].errors \subseteq K[k - 1].errors
  <2>1. CASE k \in 2..Len(J)
    <3>1. K[k] = J[k] /\ K[k - 1] = J[k - 1]
      BY <1>1, <2>1
    <3> QED BY <1>3, <2>1, <3>1
  <2>2. CASE k = Len(J) + 1
    <3>1. K[k] = j /\ K[k - 1] = J[Len(J)] /\ Len(J) >= 1
      BY <1>1, <2>2
    <3>2. J # <<>>
      BY <3>1
    <3> QED BY <1>3, <3>1, <3>2 DEF LastErrors
  <2> QED BY <1>1, <2>1, <2>2
<1> QED BY <1>1, <1>2, <1>3

LEMMA Writing ==
    ASSUME ImportInv, NEW m \in Importers, WriteJob(m)
    PROVE  ImportInv'
<1>0. import \in [Importers -> {NoImport} \cup Running] /\ import[m] # NoImport /\ jobs \in Seq(ImportJobs)
  BY DEF ImportInv, WriteJob
<1>1. PICK r \in Running : r = import[m]
  BY <1>0
<1>2. PICK f : f = r.sheet /\ f \in DOMAIN Sheets
  BY DEF Running
<1>3. Underway(r, have, code) /\ Repeating(r, still, jobs)
  BY <1>0, <1>1 DEF ImportInv
<1>4. SheetLen(f) \in Nat /\ r.next = SheetLen(f) + 1
  <2>1. SheetLen(f) \in Nat
    BY <1>2, ImportAssumption DEF SheetLen
  <2>2. r.next > SheetLen(f) /\ r.next \in 1..(SheetLen(f) + 1)
    BY <1>1, <1>2, <1>3 DEF WriteJob, Done, Underway
  <2> QED BY <2>1, <2>2
<1> DEFINE j == [sheet |-> f, made |-> r.made, errors |-> r.errors, repeats |-> r.repeats,
                 changed |-> SheetLen(f) - r.made - Cardinality(r.errors)]
<1>5. /\ jobs' = Append(jobs, j) /\ UNCHANGED <<have, code>>
      /\ still' = IF r.alone THEN f ELSE NoSheet
      /\ import' = [Disturbed(m) EXCEPT ![m] = NoImport]
  BY <1>1, <1>2 DEF WriteJob
<1>6. j \in ImportJobs /\ j.sheet = f /\ j.errors = r.errors /\ j.repeats = r.repeats
  <2>1. IsFiniteSet(r.errors)
    <3>1. r.errors \subseteq 1..SheetLen(f)
      BY <1>3, <1>4 DEF Underway
    <3>2. IsFiniteSet(1..SheetLen(f))
      BY <1>4, FS_Interval
    <3> QED BY <3>1, <3>2, FS_Subset
  <2>2. Cardinality(r.errors) \in Nat
    BY <2>1, FS_CardinalityType
  <2> QED BY <1>2, <1>4, <2>2 DEF Running, ImportJobs
<1> HIDE DEF j
<1>7. /\ jobs' \in Seq(ImportJobs) /\ jobs' # <<>> /\ jobs'[Len(jobs')] = j
      /\ \A k \in 2..Len(jobs') : jobs'[k].repeats => jobs'[k].errors \subseteq jobs'[k - 1].errors
  <2>1. j.repeats => j.errors \subseteq LastErrors(jobs)
    BY <1>3, <1>6 DEF Repeating
  <2>2. \A k \in 2..Len(jobs) : jobs[k].repeats => jobs[k].errors \subseteq jobs[k - 1].errors
    BY DEF ImportInv, ErrorsOnlyShrink
  <2> QED BY <1>0, <1>5, <1>6, <2>1, <2>2, JobAdded
<1>8. still' # NoSheet => SheetStands(still', jobs', have', code')
  <2> SUFFICES ASSUME r.alone PROVE SheetStands(f, jobs', have, code)
    BY <1>5
  <2>1. LastErrors(jobs') = r.errors /\ jobs'[Len(jobs')].sheet = f
    BY <1>6, <1>7 DEF LastErrors
  <2>2. \A i \in 1..SheetLen(f) : i \notin r.errors => Holds(f, i, have, code)
    BY <1>2, <1>3, <1>4 DEF Underway
  <2> QED BY <1>2, <1>7, <2>1, <2>2 DEF SheetStands
<1>9. \A n \in Importers : import'[n] = IF n = m THEN NoImport ELSE Disturbed(m)[n]
  BY <1>5 DEF Disturbed
<1>10. \A n \in Importers : /\ import'[n] \in {NoImport} \cup Running
                            /\ import'[n] # NoImport => Underway(import'[n], have', code')
                            /\ Repeating(import'[n], still', jobs')
  <2> SUFFICES ASSUME NEW n \in Importers
               PROVE  /\ import'[n] \in {NoImport} \cup Running
                      /\ import'[n] # NoImport => Underway(import'[n], have', code')
                      /\ Repeating(import'[n], still', jobs')
    OBVIOUS
  <2>1. CASE n = m
    <3>1. import'[n] = NoImport /\ ~NoImport.repeats
      BY <1>9, <2>1 DEF NoImport
    <3> QED BY <3>1 DEF Repeating
  <2>2. CASE n # m
    <3>1. import'[n] = Disturbed(m)[n]
      BY <1>9, <2>2
    <3> QED BY <2>2, <3>1, OtherRows
  <2> QED BY <2>1, <2>2
<1>11. import' \in [Importers -> {NoImport} \cup Running]
  <2>1. import' = [n \in Importers |-> import'[n]]
    BY <1>5 DEF Disturbed
  <2> QED BY <1>10, <2>1
<1> QED BY <1>7, <1>8, <1>10, <1>11 DEF ImportInv, ErrorsOnlyShrink

LEMMA ImportInvHolds == KeysOnce => (ImportSpec => []ImportInv)
<1> SUFFICES ASSUME KeysOnce PROVE ImportSpec => []ImportInv
  OBVIOUS
<1>1. ImportInv /\ [ImportNext]_importVars => ImportInv'
  <2> SUFFICES ASSUME ImportInv, [ImportNext]_importVars PROVE ImportInv'
    OBVIOUS
  <2>1. CASE UNCHANGED importVars
    BY <2>1, OfficeStep DEF importVars
  <2>2. ASSUME NEW r \in ByHand, CreateByHand(r) PROVE ImportInv'
    BY <2>2, OfficeStep DEF CreateByHand
  <2>3. ASSUME NEW granted, SetPermitted(granted) PROVE ImportInv'
    BY <2>3, OfficeStep DEF SetPermitted
  <2> QED BY <2>1, <2>2, <2>3, Importing, Writing, Dying, Uploading DEF ImportNext
<1> QED BY <1>1, ImportInvInit, PTL DEF ImportSpec

\* A sheet that lists no key twice, uploaded again before a row of another import,
\* fails on no row that went in the first time (dataio/services.py import_rows and the
\* row importers), for any sheets and uploads that overlap, die or meet the office.
THEOREM RepeatedSheetsShrink == KeysOnce => (ImportSpec => []ErrorsOnlyShrink)
<1>1. ImportInv => ErrorsOnlyShrink
  BY DEF ImportInv
<1> QED BY <1>1, ImportInvHolds, PTL

-----------------------------------------------------------------------------
(* Types of requests and webhooks *)

TrafficBounds == MaxClock \in Nat /\ MaxHookChanges \in Nat

TrafficTyped ==
    /\ TrafficInv
    /\ clock \in 0..MaxClock /\ hookChanges \in 0..MaxHookChanges
    /\ \A m \in seen : m.nonce \in Nonces
    /\ hooks \in [Hooks -> [active : BOOLEAN, secret : 0..MaxHookChanges]]
    /\ \A d \in Documents : \A x \in queue[d] : x[2] \in 0..MaxHookChanges
    /\ hookLog \subseteq Documents \X Hooks \X {"success", "failed"}

LEMMA TrafficTypedStep ==
    ASSUME TrafficBounds, TrafficTyped, [TrafficNext]_trafficVars
    PROVE  TrafficTyped'
<1> USE DEF TrafficTyped
<1>1. TrafficInv'
  BY TrafficStepwise
<1>2. CASE UNCHANGED trafficVars
  BY <1>1, <1>2 DEF trafficVars
<1>3. CASE ClockTick \/ LoseCache \/ \E n \in Nonces : SignRequest(n)
  BY <1>1, <1>3 DEF ClockTick, LoseCache, SignRequest, webhookVars, TrafficBounds
<1>4. ASSUME NEW r \in signed, Authenticate(r) PROVE TrafficTyped'
  <2>1. r.nonce \in Nonces
    BY DEF TrafficInv, RequestsOK
  <2>2. \A m \in seen' : m \in seen \/ m = [nonce |-> r.nonce, until |-> clock + NonceTTL]
    BY <1>4 DEF Authenticate
  <2>3. \A m \in seen' : m.nonce \in Nonces
    BY <2>1, <2>2
  <2> QED BY <1>1, <1>4, <2>3 DEF Authenticate, webhookVars
<1>5. ASSUME NEW w \in Hooks, ChangeHook(w) PROVE TrafficTyped'
  <2>1. hookChanges' \in 0..MaxHookChanges
    BY <1>5 DEF ChangeHook, TrafficBounds
  <2>2. hooks' \in [Hooks -> [active : BOOLEAN, secret : 0..MaxHookChanges]]
    BY <1>5, <2>1 DEF ChangeHook
  <2> QED BY <1>1, <1>5, <2>1, <2>2 DEF ChangeHook, authVars
<1>6. ASSUME NEW d \in Documents, CommitDocument(d) \/ EnqueueTallyJob(d) PROVE TrafficTyped'
  BY <1>1, <1>6 DEF CommitDocument, EnqueueTallyJob, authVars
<1>7. DOMAIN queue = Documents
  BY DEF TrafficInv, DeliveryOK
<1>8. ASSUME NEW d \in Documents, ReadSubscribers(d) PROVE TrafficTyped'
  <2> DEFINE Q == {<<w, hooks[w].secret>> : w \in {v \in Hooks : hooks[v].active}}
  <2>1. \A x \in Q : x[2] \in 0..MaxHookChanges
    OBVIOUS
  <2>2. queue' = [queue EXCEPT ![d] = Q]
    BY <1>8 DEF ReadSubscribers
  <2> HIDE DEF Q
  <2>3. \A e \in Documents : \A x \in queue'[e] : x[2] \in 0..MaxHookChanges
    BY <1>7, <2>1, <2>2
  <2> QED BY <1>1, <1>8, <2>3 DEF ReadSubscribers, authVars
<1>9. ASSUME NEW d \in Documents, NEW x \in queue[d], CallHook(d, x) PROVE TrafficTyped'
  <2>1. x[1] \in Hooks
    BY DEF TrafficInv, DeliveryOK
  <2>2. hookLog' \subseteq Documents \X Hooks \X {"success", "failed"}
    <3>1. PICK z \in {"success", "failed"} : hookLog' = hookLog \cup {<<d, x[1], z>>}
      BY <1>9 DEF CallHook
    <3> QED BY <2>1, <3>1
  <2>3. \A e \in Documents : queue'[e] \subseteq queue[e]
    BY <1>7, <1>9 DEF CallHook, Untried
  <2> QED BY <1>1, <1>9, <2>2, <2>3 DEF CallHook, authVars
<1>10. ASSUME NEW d \in Documents, BreakOff(d) PROVE TrafficTyped'
  <2>1. \A e \in Documents : queue'[e] \subseteq queue[e]
    BY <1>7, <1>10 DEF BreakOff
  <2> QED BY <1>1, <1>10, <2>1 DEF BreakOff, authVars
<1> QED BY <1>2, <1>3, <1>4, <1>5, <1>6, <1>8, <1>9, <1>10 DEF TrafficNext

\* Clocks, nonces, hooks and log rows stay what their tables can hold.
THEOREM TrafficStaysTyped == TrafficBounds => (TrafficSpec => []TrafficTypeOK)
<1> SUFFICES ASSUME TrafficBounds PROVE TrafficSpec => []TrafficTypeOK
  OBVIOUS
<1>1. TrafficInit => TrafficTyped
  BY TrafficInitially DEF TrafficInit, TrafficTyped, TrafficBounds
<1>2. TrafficTyped => TrafficTypeOK
  BY DEF TrafficTyped, TrafficTypeOK, TrafficInv, RequestsOK, DeliveryOK
<1> QED BY <1>1, <1>2, TrafficTypedStep, PTL DEF TrafficSpec

-----------------------------------------------------------------------------
(* Types of payments *)

PayBounds == MaxHookCalls \in Nat /\ MaxPayEdits \in Nat

Connection == [type : {"mock", "razorpay"}, active : BOOLEAN, secret : Secrets \cup {NoSecret}]

OrderTyped(x, n) == x.bill \in Bills /\ x.status \in PayStatus /\ x.receipt \in 0..n

HookTyped(x) == x.stage \in {"idle", "select", "locked"} /\ (x.stage # "locked" => x.o = 0)

PayTyped ==
    /\ PayInv
    /\ connection \in Seq(Connection)
    /\ \A o \in DOMAIN payOrder : OrderTyped(payOrder[o], Len(receipt))
    /\ \A h \in PayHooks : HookTyped(hook[h])
    /\ hookCalls \in 0..MaxHookCalls /\ payEdits \in 0..MaxPayEdits

LEMMA ConnectionsGrow ==
    ASSUME NEW c \in Seq(Connection), NEW x \in Connection
    PROVE  <<x>> \o c \in Seq(Connection)
<1>1. <<x>> \in Seq(Connection)
  OBVIOUS
<1> QED BY <1>1

LEMMA SwitchTyped == ASSUME PayTyped, Switch PROVE connection' \in Seq(Connection)
<1>1. connection \in Seq(Connection)
  BY DEF PayTyped
<1>2. ASSUME NEW s \in Secrets PROVE <<[type |-> "razorpay", active |-> TRUE, secret |-> s]>> \o connection \in Seq(Connection)
  <2> DEFINE x == [type |-> "razorpay", active |-> TRUE, secret |-> s]
  <2>1. x \in Connection
    BY DEF Connection
  <2> HIDE DEF x
  <2>2. \A y \in Connection : \A c \in Seq(Connection) : <<y>> \o c \in Seq(Connection)
    BY ConnectionsGrow, Zenon
  <2>3. <<x>> \o connection \in Seq(Connection)
    BY <1>1, <2>1, <2>2
  <2> QED BY <2>3 DEF x
<1>3. ASSUME NEW k \in DOMAIN connection, NEW type \in {"mock", "razorpay"}, NEW active \in BOOLEAN
      PROVE  [connection EXCEPT ![k] = [type |-> type, active |-> active, secret |-> connection[k].secret]]
                \in Seq(Connection)
  <2> DEFINE x == [type |-> type, active |-> active, secret |-> connection[k].secret]
  <2>1. connection[k] \in Connection
    BY <1>1
  <2>2. x \in Connection
    BY <2>1 DEF Connection
  <2> HIDE DEF x
  <2>3. [connection EXCEPT ![k] = x] \in Seq(Connection)
    BY <1>1, <2>2
  <2> QED BY <2>3 DEF x
<1> QED BY <1>2, <1>3 DEF Switch

\* An order keeps its columns in range while receipts are added.
LEMMA OrdersTyped ==
    ASSUME PayTyped, NEW more \in Nat, Len(receipt') = Len(receipt) + more, DOMAIN payOrder' = DOMAIN payOrder,
           NEW o, OrderTyped(payOrder'[o], Len(receipt')),
           \A p \in DOMAIN payOrder \ {o} : payOrder'[p] = payOrder[p]
    PROVE  \A p \in DOMAIN payOrder' : OrderTyped(payOrder'[p], Len(receipt'))
<1>1. Len(receipt) \in Nat
  BY Appended DEF PayTyped, PayInv, PayShape
<1>2. \A p \in DOMAIN payOrder : OrderTyped(payOrder[p], Len(receipt'))
  BY <1>1 DEF PayTyped, OrderTyped
<1> QED BY <1>2

LEMMA HooksTyped ==
    ASSUME PayTyped, NEW h \in PayHooks, NEW r, hook' = [hook EXCEPT ![h] = r], HookTyped(r)
    PROVE  \A g \in PayHooks : HookTyped(hook'[g])
BY DEF PayTyped, PayInv, PayShape

LEMMA EditsCounted == ASSUME PayBounds, PayTyped, Administered PROVE payEdits' \in 0..MaxPayEdits
BY DEF PayBounds, PayTyped, Administered

LEMMA PayTypedStep == ASSUME PayBounds, PayTyped, [PayNext]_paymentVars PROVE PayTyped'
<1>1. PayInv'
  BY PayStepwise DEF PayTyped
<1>2. CASE UNCHANGED paymentVars
  BY <1>1, <1>2 DEF paymentVars, PayTyped
<1>3. CASE Switch
  <2>1. connection' \in Seq(Connection) /\ payEdits' \in 0..MaxPayEdits
    BY <1>3, SwitchTyped, EditsCounted DEF Switch
  <2> QED BY <1>1, <1>3, <2>1 DEF Switch, PayTyped
<1>4. ASSUME NEW b \in Bills, NEW amount \in Amounts, CreateOrder(b, amount) PROVE PayTyped'
  <2> DEFINE gid == CHOOSE g \in 1..MaxOrders \ ({c.gid : c \in checkout} \cup {payOrder[o].gid : o \in DOMAIN payOrder}) : TRUE
             row == [bill |-> b, type |-> FirstActive.type, gid |-> gid, amount |-> amount,
                     status |-> "created", receipt |-> 0]
  <2>1. OrderTyped(row, Len(receipt))
    <3>1. Len(receipt) \in Nat
      BY Appended DEF PayTyped, PayInv, PayShape
    <3> QED BY <3>1 DEF OrderTyped, PayStatus
  <2>2. payOrder' = payOrder \/ payOrder' = Append(payOrder, row)
    BY <1>4 DEF CreateOrder
  <2>3. connection' \in Seq(Connection)
    <3>1. Mock \in Connection
      BY DEF Mock, Connection
    <3> QED BY <1>4, <3>1, ConnectionsGrow DEF CreateOrder, WithActive, PayTyped
  <2>4. receipt' = receipt
    BY <1>4 DEF CreateOrder
  <2> HIDE DEF row
  <2>5. \A o \in DOMAIN payOrder' : OrderTyped(payOrder'[o], Len(receipt'))
    <3>1. IsSeq(payOrder)
      BY DEF PayTyped, PayInv, PayShape
    <3>2. \A o \in DOMAIN payOrder' : payOrder'[o] = row \/ (o \in DOMAIN payOrder /\ payOrder'[o] = payOrder[o])
      BY <2>2, <3>1, Appended
    <3> QED BY <2>1, <2>4, <3>2 DEF PayTyped
  <2> QED BY <1>1, <1>4, <2>3, <2>5 DEF CreateOrder, PayTyped
<1>5. HookTyped(NoHook)
  BY DEF NoHook, HookTyped
<1>6. ASSUME NEW c \in checkout, NEW h \in PayHooks, ReceiveHook(h, c) PROVE PayTyped'
  <2> DEFINE r == [NoHook EXCEPT !.stage = "select", !.gid = c.gid]
  <2>1. HookTyped(r)
    BY DEF NoHook, HookTyped
  <2> HIDE DEF r
  <2>2. \A g \in PayHooks : HookTyped(hook'[g])
    BY <1>6, <2>1, HooksTyped DEF ReceiveHook, r
  <2> QED BY <1>1, <1>6, <2>2 DEF ReceiveHook, PayBounds, PayTyped
<1>7. ASSUME NEW h \in PayHooks, NEW o \in DOMAIN payOrder, LockOrder(h, o) PROVE PayTyped'
  <2> DEFINE r == [stage |-> "locked", gid |-> hook[h].gid, o |-> o, seen |-> payOrder[o].status]
  <2>1. HookTyped(r)
    BY DEF HookTyped
  <2> HIDE DEF r
  <2>2. \A g \in PayHooks : HookTyped(hook'[g])
    BY <1>7, <2>1, HooksTyped DEF LockOrder, r
  <2> QED BY <1>1, <1>7, <2>2 DEF LockOrder, PayTyped
<1>8. ASSUME NEW h \in PayHooks, AbortHook(h) PROVE PayTyped'
  <2>1. \A g \in PayHooks : HookTyped(hook'[g])
    BY <1>5, <1>8, HooksTyped DEF AbortHook
  <2> QED BY <1>1, <1>8, <2>1 DEF AbortHook, PayTyped
<1>9. ASSUME NEW h \in PayHooks, RecordPayment(h) PROVE PayTyped'
  <2> DEFINE o == hook[h].o
             new == [bill |-> payOrder[o].bill, amount |-> payOrder[o].amount, of |-> o]
  <2>1. o \in DOMAIN payOrder
    BY <1>9 DEF RecordPayment, PayTyped, PayInv, HooksHold
  <2>2. \A g \in PayHooks : HookTyped(hook'[g])
    BY <1>5, <1>9, HooksTyped DEF RecordPayment
  <2>3. CASE UNCHANGED <<payOrder, receipt>>
    BY <1>1, <1>9, <2>2, <2>3 DEF RecordPayment, PayTyped
  <2>4. CASE /\ receipt' = Append(receipt, new)
             /\ payOrder' = [payOrder EXCEPT ![o].status = "paid", ![o].receipt = Len(receipt')]
    <3> DEFINE n == Len(receipt')
               x == [payOrder[o] EXCEPT !.status = "paid", !.receipt = n]
    <3>1. Len(receipt) \in Nat /\ n = Len(receipt) + 1
      <4> HIDE DEF new
      <4> QED BY <2>4, Appended DEF PayTyped, PayInv, PayShape
    <3>2. payOrder' = [payOrder EXCEPT ![o] = x]
      BY <2>4
    <3>3. payOrder[o] = [bill |-> payOrder[o].bill, type |-> payOrder[o].type, gid |-> payOrder[o].gid,
                         amount |-> payOrder[o].amount, status |-> payOrder[o].status, receipt |-> payOrder[o].receipt]
      BY <2>1 DEF PayTyped, PayInv, PayShape
    <3>4. OrderTyped(x, n)
      <4>1. x = [bill |-> payOrder[o].bill, type |-> payOrder[o].type, gid |-> payOrder[o].gid,
                 amount |-> payOrder[o].amount, status |-> "paid", receipt |-> n]
        <5> DEFINE q == [payOrder[o] EXCEPT !.status = "paid"]
        <5>1. q = [bill |-> payOrder[o].bill, type |-> payOrder[o].type, gid |-> payOrder[o].gid,
                   amount |-> payOrder[o].amount, status |-> "paid", receipt |-> payOrder[o].receipt]
          BY <3>3
        <5>2. x = [q EXCEPT !.receipt = n]
          OBVIOUS
        <5> HIDE DEF q, n, x
        <5> QED BY <5>1, <5>2
      <4>2. payOrder[o].bill \in Bills
        BY <2>1 DEF PayTyped, OrderTyped
      <4>3. n \in 0..n
        BY <3>1
      <4> HIDE DEF n, x
      <4> QED BY <4>1, <4>2, <4>3 DEF OrderTyped, PayStatus
    <3>5. /\ DOMAIN payOrder' = DOMAIN payOrder /\ payOrder'[o] = x
          /\ \A p \in DOMAIN payOrder \ {o} : payOrder'[p] = payOrder[p]
      <4> HIDE DEF x
      <4> QED BY <2>1, <3>2
    <3>6. \A p \in DOMAIN payOrder' : OrderTyped(payOrder'[p], Len(receipt'))
      <4> HIDE DEF x, o
      <4> QED BY <3>1, <3>4, <3>5, OrdersTyped
    <3> QED BY <1>1, <1>9, <2>2, <3>6 DEF RecordPayment, PayTyped
  <2> QED BY <1>9, <2>3, <2>4 DEF RecordPayment
<1>10. ASSUME NEW o \in DOMAIN payOrder, DropReceipt(o) PROVE PayTyped'
  <2> DEFINE x == [payOrder[o] EXCEPT !.receipt = 0]
  <2>1. payOrder' = [payOrder EXCEPT ![o] = x] /\ receipt' = receipt
    BY <1>10 DEF DropReceipt
  <2>2. payOrder[o] = [bill |-> payOrder[o].bill, type |-> payOrder[o].type, gid |-> payOrder[o].gid,
                       amount |-> payOrder[o].amount, status |-> payOrder[o].status, receipt |-> payOrder[o].receipt]
    BY DEF PayTyped, PayInv, PayShape
  <2>3. Len(receipt) \in Nat
    BY Appended DEF PayTyped, PayInv, PayShape
  <2>4. OrderTyped(x, Len(receipt))
    BY <2>2, <2>3 DEF PayTyped, OrderTyped
  <2> HIDE DEF x
  <2>5. \A p \in DOMAIN payOrder' : OrderTyped(payOrder'[p], Len(receipt'))
    BY <2>1, <2>4 DEF PayTyped
  <2>6. payEdits' \in 0..MaxPayEdits
    BY <1>10, EditsCounted DEF DropReceipt
  <2> QED BY <1>1, <1>10, <2>5, <2>6 DEF DropReceipt, PayTyped
<1>11. ASSUME NEW o \in DOMAIN payOrder, NEW b \in Bills, NEW gid, NEW amount, NEW s \in PayStatus, NEW r \in 0..Len(receipt),
              EditOrder(o, [bill |-> b, type |-> payOrder[o].type, gid |-> gid, amount |-> amount,
                            status |-> s, receipt |-> r])
       PROVE  PayTyped'
  <2> DEFINE row == [bill |-> b, type |-> payOrder[o].type, gid |-> gid, amount |-> amount,
                     status |-> s, receipt |-> r]
  <2>1. payOrder' = [payOrder EXCEPT ![o] = row] /\ receipt' = receipt
    BY <1>11 DEF EditOrder
  <2>2. OrderTyped(row, Len(receipt))
    BY DEF OrderTyped
  <2> HIDE DEF row
  <2>3. \A p \in DOMAIN payOrder' : OrderTyped(payOrder'[p], Len(receipt'))
    BY <2>1, <2>2 DEF PayTyped
  <2>4. payEdits' \in 0..MaxPayEdits
    BY <1>11, EditsCounted DEF EditOrder
  <2> QED BY <1>1, <1>11, <2>3, <2>4 DEF EditOrder, PayTyped
<1> QED BY <1>2, <1>3, <1>4, <1>6, <1>7, <1>8, <1>9, <1>10, <1>11 DEF PayNext

\* Connections, orders, receipts and webhooks stay what their tables can hold.
THEOREM PaymentsTyped == PayBounds => (PaySpec => []PayTypeOK)
<1> SUFFICES ASSUME PayBounds PROVE PaySpec => []PayTypeOK
  OBVIOUS
<1>1. PayInit => PayTyped
  <2> SUFFICES ASSUME PayInit PROVE PayTyped
    OBVIOUS
  <2>1. connection \in Seq(Connection) /\ DOMAIN payOrder = {}
    <3>1. <<>> \in Seq(Connection)
      OBVIOUS
    <3>2. DOMAIN <<>> = {}
      OBVIOUS
    <3>3. connection = <<>> /\ payOrder = <<>>
      BY DEF PayInit
    <3> QED BY <3>1, <3>2, <3>3
  <2> QED BY <2>1, PayInitially DEF PayInit, PayTyped, PayBounds, HookTyped, NoHook
<1>2. PayTyped => PayTypeOK
  <2> SUFFICES ASSUME PayTyped PROVE PayTypeOK
    OBVIOUS
  <2>1. Len(payOrder) \in Nat /\ DOMAIN payOrder = 1..Len(payOrder)
    BY Appended DEF PayTyped, PayInv, PayShape
  <2>2. \A k \in DOMAIN connection : connection[k].active \in BOOLEAN
    <3>1. \A k \in DOMAIN connection : connection[k] \in Connection
      BY DEF PayTyped
    <3> QED BY <3>1 DEF Connection
  <2>3. \A h \in PayHooks : hook[h].o \in 0..Len(payOrder)
    BY <2>1 DEF PayTyped, HookTyped, PayInv, HooksHold
  <2>4. retouched \subseteq DOMAIN payOrder
    BY DEF PayTyped, PayInv, Settled
  <2> QED BY <2>2, <2>3, <2>4 DEF PayTyped, OrderTyped, HookTyped, PayTypeOK
<1> QED BY <1>1, <1>2, PayTypedStep, PTL DEF PaySpec

-----------------------------------------------------------------------------
(* Types of pulls *)

\* Pulls that have begun and have no timestamp yet: each will take one more reading
\* of the clock.
Unstamped == {k \in Pulls : pull[k].since # -1 /\ ~Stamped(k)}

Readings ==
    /\ IsFiniteSet(Unstamped) /\ appClock >= 1
    /\ appClock + Cardinality(Unstamped) <= 1 + writes + pulled

PullTyped ==
    /\ PullInv /\ Readings
    /\ pulled \in 0..MaxPulls
    /\ cursor \in 0..appClock /\ behind \subseteq SyncRows
    /\ \A r \in SyncRows : /\ phone[r] \in 0..(MaxWrites + 1)
                           /\ rows[r].stamp <= appClock /\ writing[r].stamp <= appClock
    /\ \A k \in Pulls : /\ pull[k].since <= appClock
                        /\ pull[k].timestamp >= -1 /\ pull[k].timestamp <= appClock

LEMMA PullTypedInit == MaxPulls \in Nat /\ PullInit => PullTyped
<1> SUFFICES ASSUME MaxPulls \in Nat, PullInit PROVE PullTyped
  OBVIOUS
<1>1. NoPull.since = -1 /\ NoPull.timestamp = -1 /\ NoWrite.stamp = 0
  BY DEF NoPull, NoWrite
<1>2. Unstamped = {}
  BY <1>1 DEF PullInit, Unstamped
<1>3. Readings
  BY <1>2, FS_EmptySet DEF Readings, PullInit
<1>4. \A r \in SyncRows : rows[r].stamp = 1 /\ writing[r].stamp = 0 /\ phone[r] = 0
  BY <1>1 DEF PullInit
<1> QED BY <1>1, <1>3, <1>4, PullInitially, PullAssumption DEF PullInit, PullTyped

\* A writer takes one reading of the clock at most.
LEMMA WriteTyped ==
    ASSUME PullTyped, NEW r \in SyncRows, Save(r) \/ SaveUnstamped(r) \/ Reassign(r)
    PROVE  PullTyped'
<1>0. /\ rows[r] \in SyncRow /\ rows[r].stamp <= appClock /\ appClock \in Nat /\ writes \in Nat
      /\ pulled \in Nat /\ writing \in [SyncRows -> SyncRow] /\ cursor \in Int
      /\ \A q \in SyncRows : rows[q].stamp \in Int /\ writing[q].stamp \in Int
      /\ \A k \in Pulls : pull[k].since \in Int /\ pull[k].timestamp \in Int
  BY DEF PullTyped, PullInv, PullShape, SyncRow, OnePull
<1>1. PICK w : /\ Write(r, w) /\ w.stamp <= appClock' /\ appClock' \in {appClock, appClock + 1}
  <2>1. CASE Save(r)
    BY <1>0, <2>1 DEF Save
  <2>2. CASE SaveUnstamped(r)
    <3> DEFINE w == [rows[r] EXCEPT !.value = @ + 1]
    <3>1. w.stamp = rows[r].stamp
      BY <1>0 DEF SyncRow
    <3> HIDE DEF w
    <3>2. Write(r, w) /\ appClock' = appClock
      BY <2>2 DEF SaveUnstamped, w
    <3> QED BY <3>1, <3>2, <1>0
  <2>3. CASE Reassign(r)
    <3> DEFINE w == [rows[r] EXCEPT !.shared = ~@]
    <3>1. w.stamp = rows[r].stamp
      BY <1>0 DEF SyncRow
    <3> HIDE DEF w
    <3>2. Write(r, w) /\ appClock' = appClock
      BY <2>3 DEF Reassign, w
    <3> QED BY <3>1, <3>2, <1>0
  <2> QED BY <2>1, <2>2, <2>3
<1>2. /\ UNCHANGED <<rows, pull, cursor, phone, behind, pulled>> /\ writes' = writes + 1
      /\ writing' = [writing EXCEPT ![r] = w]
  BY <1>1 DEF Write
<1>3. Unstamped' = Unstamped
  BY <1>2 DEF Unstamped, Stamped
<1>4. Readings'
  <2>1. Cardinality(Unstamped) \in Nat
    BY FS_CardinalityType DEF PullTyped, Readings
  <2>2. appClock + Cardinality(Unstamped) <= 1 + writes + pulled /\ appClock >= 1 /\ IsFiniteSet(Unstamped)
    BY DEF PullTyped, Readings
  <2>3. appClock' >= 1 /\ appClock' + Cardinality(Unstamped) <= 1 + (writes + 1) + pulled
    BY <1>0, <1>1, <2>1, <2>2
  <2> QED BY <1>2, <1>3, <2>2, <2>3 DEF Readings
<1>5. PullInv'
  BY WriteStep DEF PullTyped
<1>6. appClock <= appClock' /\ appClock' \in Nat
  BY <1>0, <1>1
<1>7. \A q \in SyncRows : writing'[q] = w \/ writing'[q] = writing[q]
  BY <1>0, <1>2
<1>8. \A q \in SyncRows : rows'[q].stamp <= appClock' /\ writing'[q].stamp <= appClock'
  <2>1. \A q \in SyncRows : rows[q].stamp <= appClock' /\ writing[q].stamp <= appClock'
    BY <1>0, <1>6 DEF PullTyped
  <2> QED BY <1>1, <1>2, <1>7, <2>1
<1>9. \A k \in Pulls : pull'[k].since <= appClock' /\ pull'[k].timestamp >= -1 /\ pull'[k].timestamp <= appClock'
  BY <1>0, <1>2, <1>6 DEF PullTyped
<1>10. cursor' \in 0..appClock'
  BY <1>0, <1>2, <1>6 DEF PullTyped
<1> QED BY <1>2, <1>4, <1>5, <1>8, <1>9, <1>10 DEF PullTyped

LEMMA CommitTyped ==
    ASSUME PullTyped, NEW r \in SyncRows, CommitWrite(r)
    PROVE  PullTyped'
<1>1. /\ rows \in [SyncRows -> SyncRow] /\ writing \in [SyncRows -> SyncRow]
      /\ rows' = [rows EXCEPT ![r] = writing[r]] /\ writing' = [writing EXCEPT ![r] = NoWrite]
      /\ UNCHANGED <<appClock, pull, cursor, phone, writes, pulled>>
      /\ NoWrite.stamp = 0 /\ appClock \in Nat
  BY DEF CommitWrite, PullTyped, PullInv, PullShape, NoWrite
<1>2. \A q \in SyncRows : rows'[q] \in {rows[q], writing[q]} /\ writing'[q] \in {writing[q], NoWrite}
  BY <1>1
<1>3. \A q \in SyncRows : rows'[q].stamp <= appClock /\ writing'[q].stamp <= appClock
  BY <1>1, <1>2 DEF PullTyped
<1>4. behind' \subseteq SyncRows
  BY DEF CommitWrite, PullTyped
<1>5. Readings'
  BY <1>1 DEF PullTyped, Readings, Unstamped, Stamped
<1>6. PullInv'
  BY CommitStep DEF PullTyped
<1> QED BY <1>1, <1>3, <1>4, <1>5, <1>6 DEF PullTyped

\* A pull is charged when it begins, and pays with the reading of its timestamp.
LEMMA StartTyped ==
    ASSUME MaxPulls \in Nat, PullTyped, NEW k \in Pulls, StartPull(k)
    PROVE  PullTyped'
<1> DEFINE p == [NoPull EXCEPT !.since = cursor, !.todo = SyncRows]
<1>1. /\ pull' = [pull EXCEPT ![k] = p] /\ pulled < MaxPulls /\ pulled' = pulled + 1
      /\ UNCHANGED <<appClock, rows, writing, cursor, phone, behind, writes>>
      /\ pull \in [Pulls -> OnePull] /\ appClock \in Nat /\ writes \in Nat /\ pulled \in 0..MaxPulls
  BY DEF StartPull, PullTyped, PullInv, PullShape
<1>2. p.since = cursor /\ p.timestamp = -1
  <2> DEFINE c == [NoPull EXCEPT !.since = cursor]
  <2>1. p = [c EXCEPT !.todo = SyncRows]
    OBVIOUS
  <2>2. c = [since |-> cursor, timestamp |-> -1, todo |-> {}, answer |-> {}]
    BY DEF NoPull
  <2> HIDE DEF c, p
  <2> QED BY <2>1, <2>2
<1> HIDE DEF p
<1>3. pull'[k] = p /\ \A j \in Pulls \ {k} : pull'[j] = pull[j]
  BY <1>1
<1>4. Unstamped' \subseteq Unstamped \cup {k}
  BY <1>3 DEF Unstamped, Stamped
<1>5. Readings'
  <2> DEFINE S == Unstamped
             T == Unstamped'
  <2>1. IsFiniteSet(S) /\ appClock >= 1 /\ appClock + Cardinality(S) <= 1 + writes + pulled
    BY DEF PullTyped, Readings
  <2>2. T \subseteq S \cup {k}
    BY <1>4
  <2> HIDE DEF S, T
  <2>3. IsFiniteSet(S \cup {k}) /\ Cardinality(S \cup {k}) <= Cardinality(S) + 1
    BY <2>1, FS_AddElement, FS_CardinalityType
  <2>4. IsFiniteSet(T) /\ Cardinality(T) <= Cardinality(S \cup {k})
    BY <2>2, <2>3, FS_Subset
  <2>5. Cardinality(S) \in Nat /\ Cardinality(T) \in Nat /\ Cardinality(S \cup {k}) \in Nat
    BY <2>1, <2>3, <2>4, FS_CardinalityType
  <2>6. appClock + Cardinality(T) <= 1 + writes + (pulled + 1)
    BY <1>1, <2>1, <2>3, <2>4, <2>5
  <2> QED BY <1>1, <2>1, <2>4, <2>6 DEF Readings, T
<1>6. PullInv'
  BY StartStep DEF PullTyped
<1>7. \A j \in Pulls : pull'[j].since <= appClock /\ pull'[j].timestamp >= -1 /\ pull'[j].timestamp <= appClock
  <2>1. cursor <= appClock /\ -1 <= appClock
    BY <1>1 DEF PullTyped
  <2> QED BY <1>2, <1>3, <2>1 DEF PullTyped
<1>8. pulled' \in 0..MaxPulls
  BY <1>1
<1> QED BY <1>1, <1>5, <1>6, <1>7, <1>8 DEF PullTyped

LEMMA TimestampTyped ==
    ASSUME PullTyped, NEW k \in Pulls, TakeTimestamp(k)
    PROVE  PullTyped'
<1> DEFINE p == [pull[k] EXCEPT !.timestamp = appClock + 1]
<1>1. /\ pull' = [pull EXCEPT ![k] = p] /\ appClock' = appClock + 1 /\ k \in Unstamped
      /\ UNCHANGED <<rows, writing, cursor, phone, behind, writes, pulled>>
      /\ pull \in [Pulls -> OnePull] /\ appClock \in Nat /\ writes \in Nat
  BY DEF TakeTimestamp, PullTyped, PullInv, PullShape, Unstamped
<1>2. p.since = pull[k].since /\ p.timestamp = appClock + 1
  BY <1>1 DEF OnePull
<1> HIDE DEF p
<1>3. pull'[k] = p /\ \A j \in Pulls \ {k} : pull'[j] = pull[j]
  BY <1>1
<1>4. Unstamped' = Unstamped \ {k}
  BY <1>1, <1>2, <1>3 DEF Unstamped, Stamped
<1>5. pulled \in Int
  BY DEF PullTyped
<1>6. Readings'
  <2> DEFINE S == Unstamped
  <2>1. IsFiniteSet(S) /\ appClock >= 1 /\ appClock + Cardinality(S) <= 1 + writes + pulled /\ k \in S
    BY <1>1 DEF PullTyped, Readings
  <2>2. Unstamped' = S \ {k}
    BY <1>4
  <2> HIDE DEF S
  <2>3. IsFiniteSet(S \ {k}) /\ Cardinality(S \ {k}) = Cardinality(S) - 1 /\ Cardinality(S) \in Nat
    BY <2>1, FS_RemoveElement, FS_CardinalityType
  <2>4. appClock + 1 + Cardinality(S \ {k}) <= 1 + writes + pulled
    BY <1>1, <1>5, <2>1, <2>3
  <2> QED BY <1>1, <2>1, <2>2, <2>3, <2>4 DEF Readings
<1>7. PullInv'
  BY TimestampStep DEF PullTyped
<1>8. /\ cursor \in Int /\ \A r \in SyncRows : rows[r].stamp \in Int /\ writing[r].stamp \in Int
      /\ \A j \in Pulls : pull[j].since \in Int /\ pull[j].timestamp \in Int
  BY DEF PullTyped, PullInv, PullShape, SyncRow, OnePull
<1>9. \A r \in SyncRows : rows[r].stamp <= appClock + 1 /\ writing[r].stamp <= appClock + 1
  BY <1>1, <1>8 DEF PullTyped
<1>10. \A j \in Pulls : pull'[j].since <= appClock + 1 /\ pull'[j].timestamp >= -1 /\ pull'[j].timestamp <= appClock + 1
  <2>1. \A j \in Pulls : pull[j].since <= appClock + 1 /\ pull[j].timestamp >= -1 /\ pull[j].timestamp <= appClock + 1
    BY <1>1, <1>8 DEF PullTyped
  <2> QED BY <1>1, <1>2, <1>3, <2>1
<1>11. cursor \in 0..(appClock + 1)
  BY <1>1, <1>8 DEF PullTyped
<1> QED BY <1>1, <1>6, <1>7, <1>9, <1>10, <1>11 DEF PullTyped

LEMMA TableTyped ==
    ASSUME PullTyped, NEW k \in Pulls, NEW r \in SyncRows, ReadTable(k, r)
    PROVE  PullTyped'
<1> DEFINE a == IF Selected(r, pull[k].since) THEN pull[k].answer \cup {<<r, rows[r].value>>} ELSE pull[k].answer
           p == [pull[k] EXCEPT !.todo = pull[k].todo \ {r}, !.answer = a]
<1>1. /\ pull' = [pull EXCEPT ![k] = p] /\ UNCHANGED <<appClock, rows, writing, cursor, phone, behind, writes, pulled>>
      /\ pull \in [Pulls -> OnePull]
  BY DEF ReadTable, PullTyped, PullInv, PullShape
<1> HIDE DEF a
<1>2. p.since = pull[k].since /\ p.timestamp = pull[k].timestamp
  <2>1. pull[k] \in OnePull
    BY <1>1
  <2>2. p = [since |-> pull[k].since, timestamp |-> pull[k].timestamp, todo |-> pull[k].todo \ {r}, answer |-> a]
    BY <2>1, PullFields
  <2> HIDE DEF p
  <2> QED BY <2>2
<1> HIDE DEF p
<1>3. \A j \in Pulls : pull'[j].since = pull[j].since /\ pull'[j].timestamp = pull[j].timestamp
  BY <1>1, <1>2
<1>4. Unstamped' = Unstamped
  BY <1>3 DEF Unstamped, Stamped
<1>5. Readings'
  BY <1>1, <1>4 DEF PullTyped, Readings
<1>6. PullInv'
  BY TableStep DEF PullTyped
<1> QED BY <1>1, <1>3, <1>5, <1>6 DEF PullTyped

\* A pull that ends, with its answer applied or not, and the pulls of a restarted phone.
LEMMA EndTyped ==
    ASSUME PullTyped, pull' \in [Pulls -> OnePull], \A j \in Pulls : pull'[j] \in {NoPull, pull[j]},
           UNCHANGED <<appClock, rows, writing, writes, pulled>>, PullInv',
           cursor' \in 0..appClock, behind' \subseteq SyncRows,
           \A r \in SyncRows : phone'[r] \in 0..(MaxWrites + 1)
    PROVE  PullTyped'
<1>1. NoPull.since = -1 /\ NoPull.timestamp = -1 /\ appClock \in Nat /\ writes \in Nat /\ pulled \in Int
  BY DEF NoPull, PullTyped, PullInv, PullShape
<1>2. Unstamped' \subseteq Unstamped
  BY <1>1 DEF Unstamped, Stamped
<1>3. Readings'
  <2> DEFINE S == Unstamped
             T == Unstamped'
  <2>1. IsFiniteSet(S) /\ appClock >= 1 /\ appClock + Cardinality(S) <= 1 + writes + pulled
    BY DEF PullTyped, Readings
  <2>2. T \subseteq S
    BY <1>2
  <2> HIDE DEF S, T
  <2>3. IsFiniteSet(T) /\ Cardinality(T) <= Cardinality(S)
    BY <2>1, <2>2, FS_Subset
  <2>4. Cardinality(S) \in Nat /\ Cardinality(T) \in Nat
    BY <2>1, <2>3, FS_CardinalityType
  <2>5. appClock + Cardinality(T) <= 1 + writes + pulled
    BY <1>1, <2>1, <2>3, <2>4
  <2> QED BY <2>1, <2>3, <2>5 DEF Readings, T
<1>4. \A j \in Pulls : pull'[j].since <= appClock /\ pull'[j].timestamp >= -1 /\ pull'[j].timestamp <= appClock
  BY <1>1 DEF PullTyped
<1> QED BY <1>3, <1>4 DEF PullTyped

LEMMA AppliedTyped ==
    ASSUME PullTyped, NEW k \in Pulls, Apply(k)
    PROVE  PullTyped'
<1>1. /\ pull' = [pull EXCEPT ![k] = NoPull] /\ pull \in [Pulls -> OnePull] /\ Stamped(k)
      /\ UNCHANGED <<appClock, rows, writing, writes, pulled>>
      /\ phone' = Upserted(pull[k].answer) /\ cursor' = pull[k].timestamp
  BY DEF Apply, PullTyped, PullInv, PullShape
<1>2. NoPull \in OnePull
  BY DEF NoPull, OnePull
<1>3. \A r \in SyncRows : phone'[r] \in 0..(MaxWrites + 1)
  <2> TAKE r \in SyncRows
  <2> DEFINE A == pull[k].answer
  <2>1. phone'[r] = IF \E v \in 1..MaxWrites + 1 : <<r, v>> \in A
                    THEN CHOOSE v \in 1..MaxWrites + 1 : <<r, v>> \in A
                    ELSE phone[r]
    BY <1>1 DEF Upserted
  <2>2. phone[r] \in 0..(MaxWrites + 1)
    BY DEF PullTyped
  <2> HIDE DEF A
  <2>3. CASE \E v \in 1..MaxWrites + 1 : <<r, v>> \in A
    <3>1. phone'[r] \in 1..MaxWrites + 1
      BY <2>1, <2>3
    <3> QED BY <3>1, PullAssumption
  <2>4. CASE ~\E v \in 1..MaxWrites + 1 : <<r, v>> \in A
    BY <2>1, <2>2, <2>4
  <2> QED BY <2>3, <2>4
<1>4. cursor' \in 0..appClock
  <2>1. pull[k].timestamp \in Int /\ appClock \in Nat /\ pull[k].timestamp # -1
    BY <1>1 DEF PullTyped, PullInv, PullShape, OnePull, Stamped
  <2> QED BY <1>1, <2>1 DEF PullTyped
<1>5. behind' \subseteq SyncRows
  BY DEF Apply, PullTyped
<1>6. PullInv'
  BY AppliedStep DEF PullTyped
<1>7. pull' \in [Pulls -> OnePull] /\ \A j \in Pulls : pull'[j] \in {NoPull, pull[j]}
  BY <1>1, <1>2
<1> QED BY <1>1, <1>3, <1>4, <1>5, <1>6, <1>7, EndTyped

LEMMA FaultTyped ==
    ASSUME PullTyped, RestartApp \/ \E k \in Pulls : LoseAnswer(k)
    PROVE  PullTyped'
<1>1. NoPull \in OnePull /\ pull \in [Pulls -> OnePull] /\ appClock \in Nat
  BY DEF NoPull, OnePull, PullTyped, PullInv, PullShape
<1>2. /\ pull' \in [Pulls -> OnePull] /\ \A j \in Pulls : pull'[j] \in {NoPull, pull[j]}
      /\ cursor' \in {0, cursor} /\ UNCHANGED <<appClock, rows, writing, phone, behind, writes, pulled>>
  BY <1>1 DEF RestartApp, LoseAnswer
<1>3. PullInv'
  BY FaultStep DEF PullTyped
<1>4. cursor' \in 0..appClock
  BY <1>1, <1>2 DEF PullTyped
<1>5. behind' \subseteq SyncRows /\ \A r \in SyncRows : phone'[r] \in 0..(MaxWrites + 1)
  BY <1>2 DEF PullTyped
<1> QED BY <1>2, <1>3, <1>4, <1>5, EndTyped

\* The clock is read once for a writer and once for a pull, and nothing a phone or a
\* row remembers is later than it.
THEOREM PullsTyped == MaxPulls \in Nat => (PullSpec => []PullTypeOK)
<1> SUFFICES ASSUME MaxPulls \in Nat PROVE PullSpec => []PullTypeOK
  OBVIOUS
<1>1. PullInit => PullTyped
  BY PullTypedInit
<1>2. PullTyped /\ [PullNext]_pullVars => PullTyped'
  <2> SUFFICES ASSUME PullTyped, [PullNext]_pullVars PROVE PullTyped'
    OBVIOUS
  <2>1. CASE \E r \in SyncRows : Save(r) \/ SaveUnstamped(r) \/ Reassign(r) \/ CommitWrite(r)
    BY <2>1, WriteTyped, CommitTyped
  <2>2. CASE \E k \in Pulls : StartPull(k) \/ TakeTimestamp(k) \/ Apply(k)
    BY <2>2, StartTyped, TimestampTyped, AppliedTyped
  <2>3. CASE \E k \in Pulls : \E r \in SyncRows : ReadTable(k, r)
    BY <2>3, TableTyped
  <2>4. CASE RestartApp \/ \E k \in Pulls : LoseAnswer(k)
    BY <2>4, FaultTyped
  <2>5. CASE UNCHANGED pullVars
    <3>1. PullInv'
      BY <2>5, PullStepwise DEF PullTyped
    <3> QED BY <2>5, <3>1 DEF pullVars, PullTyped, Readings, Unstamped, Stamped
  <2> QED BY <2>1, <2>2, <2>3, <2>4, <2>5 DEF PullNext
<1>3. PullTyped => PullTypeOK
  <2> SUFFICES ASSUME PullTyped PROVE PullTypeOK
    OBVIOUS
  <2>1. /\ appClock \in Nat /\ writes \in Nat /\ writes <= MaxWrites /\ MaxWrites \in Nat
        /\ Cardinality(Unstamped) \in Nat /\ appClock >= 1
        /\ appClock + Cardinality(Unstamped) <= 1 + writes + pulled
        /\ pulled \in 0..MaxPulls
    BY PullAssumption, FS_CardinalityType DEF PullTyped, PullInv, PullShape, Readings
  <2>2. appClock \in 1..(1 + MaxWrites + MaxPulls)
    BY <2>1
  <2>3. \A r \in SyncRows : rows[r].stamp \in 1..appClock
    BY <2>1 DEF PullTyped, PullInv, PullShape, SyncRow
  <2>4. \A k \in Pulls : pull[k].todo \subseteq SyncRows
    BY DEF PullTyped, PullInv, PullShape, OnePull
  <2> QED BY <2>2, <2>3, <2>4 DEF PullTyped, PullTypeOK
<1> QED BY <1>1, <1>2, <1>3, PTL DEF PullSpec

-----------------------------------------------------------------------------
(* Types of imports, and the counts of a job *)

\* A row is a fresh one, a change or an error, and at most one of them.
Counted(r) ==
    /\ r.next \in 1..(SheetLen(r.sheet) + 1) /\ r.errors \subseteq 1..(r.next - 1)
    /\ r.made + Cardinality(r.errors) <= r.next - 1

ImportTyped ==
    /\ permitted \subseteq Permissions
    /\ \A x \in Codes : code[x] = <<>> \/ code[x] \in have
    /\ import \in [Importers -> {NoImport} \cup Running]
    /\ \A m \in Importers : import[m] # NoImport => Counted(import[m])
    /\ IsSeq(jobs)
    /\ \A k \in DOMAIN jobs : jobs[k].made \in Nat /\ jobs[k].changed \in Nat

LEMMA ErrorsCounted ==
    ASSUME NEW n \in Nat, NEW E, E \subseteq 1..(n - 1)
    PROVE  /\ IsFiniteSet(E) /\ Cardinality(E) \in Nat
           /\ n \notin E /\ Cardinality(E \cup {n}) = Cardinality(E) + 1
<1>1. IsFiniteSet(1..(n - 1))
  BY FS_Interval
<1>2. IsFiniteSet(E)
  BY <1>1, FS_Subset
<1>3. n \notin E
  OBVIOUS
<1> QED BY <1>2, <1>3, FS_CardinalityType, FS_AddElement

LEMMA QuietCounted == ASSUME NEW r \in Running, Counted(r) PROVE Counted(Quiet(r))
<1>1. Quiet(r).sheet = r.sheet /\ Quiet(r).next = r.next /\ Quiet(r).errors = r.errors
  BY QuietImport
<1>2. Quiet(r).made = r.made
  BY DEF Quiet, Running
<1> HIDE DEF Quiet
<1> QED BY <1>1, <1>2 DEF Counted

LEMMA OthersTyped ==
    ASSUME ImportTyped, NEW m \in Importers, NEW n \in Importers, n # m
    PROVE  /\ Disturbed(m)[n] \in {NoImport} \cup Running
           /\ Disturbed(m)[n] # NoImport => Counted(Disturbed(m)[n])
<1>1. Disturbed(m)[n] = Quiet(import[n])
  BY DEF Disturbed, Quiet
<1>2. CASE import[n] = NoImport
  <2>1. Disturbed(m)[n] = NoImport
    BY <1>1, <1>2, QuietImport, Zenon
  <2> QED BY <2>1
<1>3. CASE import[n] \in Running
  <2>1. import[n] # NoImport
    BY <1>3, QuietImport
  <2>2. Counted(import[n])
    BY <2>1 DEF ImportTyped
  <2>3. Counted(Quiet(import[n]))
    BY <1>3, <2>2, QuietCounted
  <2>4. Quiet(import[n]) \in Running
    BY <1>3, QuietImport
  <2> HIDE DEF Quiet
  <2> QED BY <1>1, <2>3, <2>4
<1>4. import[n] = NoImport \/ import[n] \in Running
  BY DEF ImportTyped
<1> QED BY <1>2, <1>3, <1>4

\* A row adds one to the fresh rows or to the errors, or to neither.
LEMMA RowTyped ==
    ASSUME ImportTyped, NEW m \in Importers, ImportRow(m)
    PROVE  ImportTyped'
<1>0. import \in [Importers -> {NoImport} \cup Running] /\ import[m] # NoImport
  BY DEF ImportTyped, ImportRow
<1>1. PICK r \in Running : r = import[m]
  BY <1>0
<1>2. PICK f, k : f = r.sheet /\ k = r.next
  OBVIOUS
<1>3. Counted(r)
  BY <1>0, <1>1 DEF ImportTyped
<1>4. f \in DOMAIN Sheets /\ SheetLen(f) \in Nat /\ k \in 1..SheetLen(f)
  <2>1. f \in DOMAIN Sheets /\ SheetLen(f) \in Nat
    BY <1>2, ImportAssumption DEF Running, SheetLen
  <2>2. ~(k > SheetLen(f)) /\ k \in 1..(SheetLen(f) + 1)
    BY <1>1, <1>2, <1>3 DEF ImportRow, Done, Counted
  <2> QED BY <2>1, <2>2
<1> DEFINE row == RowOf(f, k)
           made == IF ~Fails(row) /\ Target(row) \notin have THEN r.made + 1 ELSE r.made
           E == IF Fails(row) THEN r.errors \cup {k} ELSE r.errors
           q == Advanced(r, made, E)
<1>5. have' = After(row) /\ code' = Coded(row) /\ UNCHANGED <<jobs, permitted>>
  BY <1>1, <1>2 DEF ImportRow
<1>6. \A n \in Importers : import'[n] = IF n = m THEN q ELSE Disturbed(m)[n]
  <2>1. import' = [Disturbed(m) EXCEPT
                 ![m].next = @ + 1,
                 ![m].made = IF ~Fails(row) /\ Target(row) \notin have THEN @ + 1 ELSE @,
                 ![m].errors = IF Fails(row) THEN @ \cup {k} ELSE @]
    BY <1>1, <1>2 DEF ImportRow
  <2>2. Disturbed(m)[m] = r /\ DOMAIN Disturbed(m) = Importers
    BY <1>1 DEF Disturbed
  <2>3. r = [r EXCEPT !.next = r.next] /\ {"next", "made", "errors"} \subseteq DOMAIN r
    BY DEF Running
  <2> HIDE DEF row
  <2> QED BY <2>1, <2>2, <2>3 DEF Advanced
<1>7. import' = [n \in Importers |-> import'[n]]
  BY DEF ImportRow, Disturbed
<1>8. \A x \in Codes : code'[x] = <<>> \/ code'[x] \in have'
  <2>1. have \subseteq After(row) /\ (Saved(row) => Target(row) \in After(row))
    BY DEF After
  <2>2. \A x \in Codes : code[x] = <<>> \/ code[x] \in have
    BY DEF ImportTyped
  <2> HIDE DEF row
  <2> QED BY <1>5, <2>1, <2>2 DEF Coded
<1>9. /\ r.made \in Nat /\ k \in Nat /\ r.errors \subseteq 1..(k - 1)
      /\ r.made + Cardinality(r.errors) <= k - 1
  BY <1>2, <1>3 DEF Running, Counted
<1>10. /\ IsFiniteSet(r.errors) /\ Cardinality(r.errors) \in Nat
       /\ Cardinality(r.errors \cup {k}) = Cardinality(r.errors) + 1
  BY <1>9, ErrorsCounted
<1>11. made \in Nat /\ E \subseteq 1..k /\ made + Cardinality(E) <= k
  <2>1. E \subseteq 1..k
    <3>1. r.errors \cup {k} \subseteq 1..k
      BY <1>4, <1>9
    <3> HIDE DEF row
    <3> QED BY <3>1
  <2>2. CASE Fails(row)
    <3>1. made = r.made /\ E = r.errors \cup {k}
      BY <2>2
    <3> HIDE DEF made, E
    <3> QED BY <1>9, <1>10, <2>1, <3>1
  <2>3. CASE ~Fails(row)
    <3>1. made \in {r.made, r.made + 1} /\ E = r.errors
      BY <2>3
    <3> HIDE DEF made, E
    <3> QED BY <1>9, <1>10, <2>1, <3>1
  <2> QED BY <2>2, <2>3
<1> HIDE DEF made, E
<1>12. q \in Running /\ q.sheet = f /\ q.next = k + 1 /\ q.made = made /\ q.errors = E
  <2>1. E \in SUBSET Nat /\ k + 1 \in Nat
    <3>1. \A n \in 1..k : n \in Nat
      BY <1>9
    <3>2. E \subseteq Nat
      BY <1>11, <3>1
    <3> QED BY <1>9, <3>2
  <2>2. q = [r EXCEPT !.next = k + 1, !.made = made, !.errors = E]
    BY <1>2 DEF Advanced
  <2> HIDE DEF q
  <2> QED BY <1>2, <1>11, <2>1, <2>2 DEF Running
<1> HIDE DEF q
<1>13. Counted(q)
  <2>1. k + 1 \in 1..(SheetLen(f) + 1) /\ k + 1 - 1 = k
    BY <1>4
  <2>2. q.next \in 1..(SheetLen(q.sheet) + 1) /\ q.next - 1 = k
    <3>1. q.sheet = f /\ q.next = k + 1
      BY <1>12
    <3>2. q.next - 1 = k
      BY <1>9, <3>1
    <3>3. q.next \in 1..(SheetLen(q.sheet) + 1)
      BY <2>1, <3>1, Zenon
    <3> QED BY <3>2, <3>3
  <2>3. q.errors \subseteq 1..k /\ q.made + Cardinality(q.errors) <= k
    BY <1>11, <1>12
  <2> QED BY <2>2, <2>3 DEF Counted
<1>14. \A n \in Importers : import'[n] \in {NoImport} \cup Running /\ (import'[n] # NoImport => Counted(import'[n]))
  <2> TAKE n \in Importers
  <2>1. CASE n = m
    BY <1>6, <1>12, <1>13, <2>1
  <2>2. CASE n # m
    <3>1. import'[n] = Disturbed(m)[n]
      BY <1>6, <2>2
    <3>2. /\ Disturbed(m)[n] \in {NoImport} \cup Running
          /\ Disturbed(m)[n] # NoImport => Counted(Disturbed(m)[n])
      BY <2>2, OthersTyped
    <3> QED BY <3>1, <3>2, Zenon
  <2> QED BY <2>1, <2>2
<1>15. import' \in [Importers -> {NoImport} \cup Running]
  BY <1>7, <1>14
<1> QED BY <1>5, <1>8, <1>14, <1>15 DEF ImportTyped

\* What is neither fresh nor an error is a change: there is no negative count.
LEMMA JobTyped ==
    ASSUME ImportTyped, NEW m \in Importers, WriteJob(m)
    PROVE  ImportTyped'
<1>0. import \in [Importers -> {NoImport} \cup Running] /\ import[m] # NoImport
  BY DEF ImportTyped, WriteJob
<1>1. PICK r \in Running : r = import[m]
  BY <1>0
<1>2. Counted(r)
  BY <1>0, <1>1 DEF ImportTyped
<1>3. r.sheet \in DOMAIN Sheets /\ SheetLen(r.sheet) \in Nat /\ r.next > SheetLen(r.sheet)
  BY <1>1, ImportAssumption DEF Running, SheetLen, WriteJob, Done
<1> DEFINE c == SheetLen(r.sheet) - r.made - Cardinality(r.errors)
           job == [sheet |-> r.sheet, made |-> r.made, errors |-> r.errors, repeats |-> r.repeats, changed |-> c]
<1>4. c \in Nat /\ r.made \in Nat
  <2>1. r.made \in Nat /\ r.next \in Nat /\ r.next <= SheetLen(r.sheet) + 1 /\ r.errors \subseteq 1..(r.next - 1)
        /\ r.made + Cardinality(r.errors) <= r.next - 1
    BY <1>2, <1>3 DEF Running, Counted
  <2>2. Cardinality(r.errors) \in Nat
    BY <2>1, ErrorsCounted
  <2> QED BY <1>3, <2>1, <2>2
<1> HIDE DEF c
<1>5. job.made = r.made /\ job.changed = c
  OBVIOUS
<1>6. /\ jobs' = Append(jobs, job) /\ UNCHANGED <<have, code, permitted>>
      /\ import' = [Disturbed(m) EXCEPT ![m] = NoImport]
  BY <1>1 DEF WriteJob, c
<1> HIDE DEF job
<1>7. IsSeq(jobs') /\ \A k \in DOMAIN jobs' : jobs'[k] = job \/ (k \in DOMAIN jobs /\ jobs'[k] = jobs[k])
  BY <1>6, Appended DEF ImportTyped
<1>8. \A k \in DOMAIN jobs' : jobs'[k].made \in Nat /\ jobs'[k].changed \in Nat
  BY <1>4, <1>5, <1>7 DEF ImportTyped
<1>9. DOMAIN Disturbed(m) = Importers
  BY DEF Disturbed
<1>10. \A n \in Importers : import'[n] = IF n = m THEN NoImport ELSE Disturbed(m)[n]
  BY <1>6, <1>9
<1>11. \A n \in Importers : import'[n] \in {NoImport} \cup Running /\ (import'[n] # NoImport => Counted(import'[n]))
  <2> TAKE n \in Importers
  <2>1. CASE n = m
    BY <1>10, <2>1
  <2>2. CASE n # m
    <3>1. import'[n] = Disturbed(m)[n]
      BY <1>10, <2>2
    <3>2. /\ Disturbed(m)[n] \in {NoImport} \cup Running
          /\ Disturbed(m)[n] # NoImport => Counted(Disturbed(m)[n])
      BY <2>2, OthersTyped
    <3> QED BY <3>1, <3>2, Zenon
  <2> QED BY <2>1, <2>2
<1>12. import' \in [Importers -> {NoImport} \cup Running]
  BY <1>6, <1>9, <1>11
<1> QED BY <1>6, <1>7, <1>8, <1>11, <1>12 DEF ImportTyped

LEMMA UploadTyped ==
    ASSUME ImportTyped, NEW m \in Importers, NEW f \in DOMAIN Sheets, Upload(m, f)
    PROVE  ImportTyped'
<1>1. PICK alone \in BOOLEAN, repeats \in BOOLEAN :
        import' = [import EXCEPT ![m] = [sheet |-> f, next |-> 1, made |-> 0, errors |-> {},
                                         alone |-> alone, repeats |-> repeats]]
  BY DEF Upload
<1> DEFINE q == [sheet |-> f, next |-> 1, made |-> 0, errors |-> {}, alone |-> alone, repeats |-> repeats]
<1>2. SheetLen(f) \in Nat
  BY ImportAssumption DEF SheetLen
<1>3. q \in Running /\ q.sheet = f /\ q.next = 1 /\ q.made = 0 /\ q.errors = {}
  BY <1>2 DEF Running
<1> HIDE DEF q
<1>4. Counted(q)
  <2>1. Cardinality({}) = 0
    BY FS_EmptySet
  <2> QED BY <1>2, <1>3, <2>1 DEF Counted
<1>5. import \in [Importers -> {NoImport} \cup Running] /\ import' = [import EXCEPT ![m] = q]
  BY <1>1 DEF ImportTyped, q
<1>6. \A n \in Importers : import'[n] = q \/ import'[n] = import[n]
  BY <1>5
<1>7. import' \in [Importers -> {NoImport} \cup Running]
  BY <1>3, <1>5
<1>8. \A n \in Importers : import'[n] # NoImport => Counted(import'[n])
  BY <1>4, <1>6 DEF ImportTyped
<1> QED BY <1>7, <1>8 DEF ImportTyped, Upload

\* Every count of a job is a number of rows, and a unique code belongs to a row that
\* exists, whatever the sheets hold and whatever runs at once (run_import).
THEOREM ImportsTyped == ImportSpec => []ImportTypeOK
<1>1. ImportInit => ImportTyped
  <2> SUFFICES ASSUME ImportInit PROVE ImportTyped
    OBVIOUS
  <2>1. IsSeq(<<>>) /\ DOMAIN <<>> = {}
    <3>1. <<>> \in Seq({})
      OBVIOUS
    <3> QED BY <3>1 DEF IsSeq
  <2>2. jobs = <<>>
    BY DEF ImportInit
  <2> QED BY <2>1, <2>2 DEF ImportInit, ImportTyped
<1>2. ImportTyped /\ [ImportNext]_importVars => ImportTyped'
  <2> SUFFICES ASSUME ImportTyped, [ImportNext]_importVars PROVE ImportTyped'
    OBVIOUS
  <2>1. ASSUME NEW m \in Importers, ImporterDies(m) PROVE ImportTyped'
    <3>1. import \in [Importers -> {NoImport} \cup Running]
      BY DEF ImportTyped
    <3>2. UNCHANGED <<have, code, jobs, permitted>> /\ import' = [import EXCEPT ![m] = NoImport]
      BY <2>1 DEF ImporterDies
    <3>3. import' \in [Importers -> {NoImport} \cup Running]
      BY <3>1, <3>2
    <3>4. \A n \in Importers : import'[n] # NoImport => Counted(import'[n])
      BY <3>1, <3>2 DEF ImportTyped
    <3> QED BY <3>2, <3>3, <3>4 DEF ImportTyped
  <2>2. ASSUME NEW r \in ByHand, CreateByHand(r) PROVE ImportTyped'
    BY <2>2 DEF CreateByHand, ImportTyped
  <2>3. ASSUME NEW granted \in {Permissions \ {p} : p \in Permissions}, SetPermitted(granted) PROVE ImportTyped'
    <3>1. granted \subseteq Permissions
      OBVIOUS
    <3> QED BY <2>3, <3>1 DEF SetPermitted, ImportTyped
  <2>4. CASE UNCHANGED importVars
    BY <2>4 DEF importVars, ImportTyped
  <2> QED BY <2>1, <2>2, <2>3, <2>4, RowTyped, JobTyped, UploadTyped DEF ImportNext
<1>3. ImportTyped => ImportTypeOK
  <2> SUFFICES ASSUME ImportTyped PROVE ImportTypeOK
    OBVIOUS
  <2>1. DOMAIN jobs = 1..Len(jobs)
    BY Appended DEF ImportTyped
  <2>2. \A m \in Importers : import[m] = NoImport \/ import[m].next \in 1..(SheetLen(import[m].sheet) + 1)
    BY DEF ImportTyped, Counted
  <2> QED BY <2>1, <2>2 DEF ImportTyped, ImportTypeOK
<1> QED BY <1>1, <1>2, <1>3, PTL DEF ImportSpec
=============================================================================
