------------------------------- MODULE ErpSync -------------------------------
(***************************************************************************)
(* Posting finalized documents (invoices, receipts, credit notes) to the   *)
(* accounting ERP: backend/apps/integrations/tasks.py (Celery tasks),      *)
(* views.py (Sync Monitor and connector endpoints) and                     *)
(* connector_agent/agent.py (the on-prem agent).                           *)
(*                                                                         *)
(* Actors: the web process running a document's on_commit hook, the Celery *)
(* workers, the beat sweep, the on-prem agent, the web processes handling  *)
(* the agent's reports, an operator at the Sync Monitor and the governance *)
(* workflow that changes the connection.  No step of theirs takes a row    *)
(* lock, so every read and every save is an action of its own.             *)
(***************************************************************************)
EXTENDS Naturals

CONSTANTS Jobs,         \* documents, numbered in the order of created_at
          Workers,      \* Celery worker processes
          Connections,  \* values the active ERPConnection may take
          MaxRetries,   \* SyncLogEntry.MAX_RETRIES
          Faults,       \* kinds of faults that may happen
          MaxMsgs,      \* bound: messages per job the model keeps in a queue
          MaxFaults,    \* bound: faults
          MaxManual     \* bound: operator interventions

FaultKinds == {"web", "broker", "worker", "erp", "agent", "report"}

ConnectionType == [immediate : BOOLEAN, known : BOOLEAN]

ASSUME ErpSyncAssumption ==
    /\ Jobs \subseteq Nat
    /\ Connections \subseteq ConnectionType
    /\ Connections # {}
    /\ MaxRetries \in Nat \ {0}
    /\ Faults \subseteq FaultKinds
    /\ MaxMsgs \in Nat \ {0}
    /\ MaxFaults \in Nat
    /\ MaxManual \in Nat

VARIABLES
    connection, \* [immediate |-> realtime mode or mock ERP, known |-> a connector class exists]
    hook,       \* hook[j]: progress of the on_commit hook of document j
    status,     \* SyncLogEntry.status, "absent" before the row exists
    retries,    \* SyncLogEntry.retry_count
    payload,    \* payload[j]: request_payload is filled (it is {} by default)
    doc,        \* sync_status of the document
    posted,     \* vouchers the ERP created for the document: 0, 1 or 2 (= several)
    resolved,   \* history: the jobs an operator resolved by hand
    queue,      \* queue[j]: process_sync_job(j) messages at the broker
    retryq,     \* jobs with a retry_sync_job message at the broker
    worker,     \* the task each worker is executing
    agent,      \* the on-prem agent
    reports,    \* result requests between the agent and the end of their handler
    faults,     \* faults so far
    manuals     \* operator interventions so far

rowVars   == <<status, retries, payload, doc>>
queueVars == <<queue, retryq>>
agentVars == <<agent, reports>>
vars == <<connection, hook, status, retries, payload, doc, posted, resolved,
          queue, retryq, worker, agent, reports, faults, manuals>>

Status   == {"absent", "pending", "sent", "acknowledged", "failed", "failed_permanent"}
Verdicts == {"none", "ok", "failed", "unknown"}

Idle == [stage |-> "idle", job |-> 0, retries |-> 0, verdict |-> "none"]

Restarted == [stage |-> "idle", todo |-> {}, ready |-> {}, job |-> 0,
              verdict |-> "none", epoch |-> 0]

\* What a worker executes: the job and, of its copy of the row, the retry_count.
Task == [stage : {"idle", "repended", "loaded", "replied", "saved"},
         job : Jobs \cup {0}, retries : Nat, verdict : Verdicts]

\* The jobs of a poll, those among them with a payload, the job being served.
AgentState == [stage : {"idle", "working", "replied", "waiting"},
               todo : SUBSET Jobs, ready : SUBSET Jobs,
               job : Jobs \cup {0}, verdict : Verdicts, epoch : Nat]

\* A result request; epoch tells apart the requests of successive agents.
Report == [job : Jobs, verdict : {"ok", "failed"}, epoch : Nat,
           stage : {"sent", "read", "doc"}, retries : Nat]

\* The type invariant.  Rows and documents keep to the choices of their own models,
\* which save() never checks: sync_status knows "synced" and not "acknowledged".
TypeOK ==
    /\ connection \in Connections
    /\ hook \in [Jobs -> {"open", "enqueue", "delay", "done"}]
    /\ status \in [Jobs -> Status]
    /\ retries \in [Jobs -> Nat]
    /\ payload \in [Jobs -> BOOLEAN]
    /\ doc \in [Jobs -> {"pending", "synced", "failed"}]
    /\ posted \in [Jobs -> 0..2]
    /\ resolved \in SUBSET Jobs
    /\ queue \in [Jobs -> 0..MaxMsgs]
    /\ retryq \in SUBSET Jobs
    /\ worker \in [Workers -> Task]
    /\ \A w \in Workers : worker[w].stage # "idle" => worker[w].job \in Jobs
    /\ agent \in AgentState
    /\ agent.stage \in {"replied", "waiting"} =>
          agent.job \in Jobs /\ agent.verdict \in {"ok", "failed"}
    /\ reports \in SUBSET Report
    /\ faults \in 0..MaxFaults
    /\ manuals \in 0..MaxManual

Init ==
    /\ connection \in Connections
    /\ hook = [j \in Jobs |-> "open"]
    /\ status = [j \in Jobs |-> "absent"]
    /\ retries = [j \in Jobs |-> 0]
    /\ payload = [j \in Jobs |-> FALSE]
    /\ doc = [j \in Jobs |-> "pending"]
    /\ posted = [j \in Jobs |-> 0]
    /\ resolved = {}
    /\ queue = [j \in Jobs |-> 0]
    /\ retryq = {}
    /\ worker = [w \in Workers |-> Idle]
    /\ agent = Restarted
    /\ reports = {}
    /\ faults = 0
    /\ manuals = 0

-----------------------------------------------------------------------------
(* Shared helpers *)

\* process_sync_job.delay(j); a queue that is at its bound absorbs the message.
SendTo(q, j) == [q EXCEPT ![j] = IF @ < MaxMsgs THEN @ + 1 ELSE @]

Fault(kind) ==
    /\ kind \in Faults
    /\ faults < MaxFaults
    /\ faults' = faults + 1

\* Mutants of MarkFailed: the budget tested with > instead of >=, one attempt
\* too early, and retry_count not incremented.
MarkFailed_Greater(j, n) ==
    /\ retries' = [retries EXCEPT ![j] = n + 1]
    /\ status' = [status EXCEPT ![j] = IF n + 1 > MaxRetries THEN "failed_permanent"
                                                            ELSE "failed"]

MarkFailed_Early(j, n) ==
    /\ retries' = [retries EXCEPT ![j] = n + 1]
    /\ status' = [status EXCEPT ![j] = IF n + 2 >= MaxRetries THEN "failed_permanent"
                                                             ELSE "failed"]

MarkFailed_Uncounted(j, n) ==
    /\ retries' = [retries EXCEPT ![j] = n]
    /\ status' = [status EXCEPT ![j] = IF n + 1 >= MaxRetries THEN "failed_permanent"
                                                             ELSE "failed"]

\* _mark_failed(entry): entry is the caller's copy, whose retry_count is n.
MarkFailed(j, n) ==
    /\ retries' = [retries EXCEPT ![j] = n + 1]
    /\ status' = [status EXCEPT ![j] = IF n + 1 >= MaxRetries THEN "failed_permanent"
                                                             ELSE "failed"]

\* Mutant of PushVoucher: an answer that carries a LINEERROR is taken for success.
PushVoucher_Unchecked(j, verdict) ==
    /\ verdict = "ok"
    /\ \/ posted' = [posted EXCEPT ![j] = IF @ < 2 THEN @ + 1 ELSE @]
       \/ UNCHANGED posted
    /\ UNCHANGED faults

\* connector.push_voucher(...): the ERP creates the voucher and answers,
\* refuses it (or is unreachable), or creates it and the answer is lost.
PushVoucher(j, verdict) ==
    \/ /\ verdict = "ok"
       /\ posted' = [posted EXCEPT ![j] = IF @ < 2 THEN @ + 1 ELSE @]
       /\ UNCHANGED faults
    \/ /\ verdict = "failed"
       /\ UNCHANGED <<posted, faults>>
    \/ /\ verdict = "failed"
       /\ posted' = [posted EXCEPT ![j] = IF @ < 2 THEN @ + 1 ELSE @]
       /\ Fault("erp")

-----------------------------------------------------------------------------
(* The web process that finalized the document *)

\* The transaction of finalize_invoice / _receipt / _credit_note commits.
Finalize(j) ==
    /\ hook[j] = "open"
    /\ hook' = [hook EXCEPT ![j] = "enqueue"]
    /\ UNCHANGED <<connection, rowVars, posted, resolved, queueVars, worker,
                   agentVars, faults, manuals>>

\* enqueue_tally_job, up to the decision whether to call .delay.
EnqueueTallyJob(j) ==
    /\ hook[j] = "enqueue"
    /\ \A k \in Jobs : k < j => hook[k] \notin {"open", "enqueue"}
    /\ status[j] = "absent"
    /\ status' = [status EXCEPT ![j] = "pending"]
    /\ hook' = [hook EXCEPT ![j] = IF connection.immediate THEN "delay" ELSE "done"]
    /\ UNCHANGED <<connection, retries, payload, doc, posted, resolved, queueVars,
                   worker, agentVars, faults, manuals>>

\* process_sync_job.delay at the end of enqueue_tally_job.
DelayFirst(j) ==
    /\ hook[j] = "delay"
    /\ hook' = [hook EXCEPT ![j] = "done"]
    /\ queue' = SendTo(queue, j)
    /\ UNCHANGED <<connection, rowVars, posted, resolved, retryq, worker,
                   agentVars, faults, manuals>>

\* The web process dies after the commit, or .delay raises: the hook is not resumed.
LoseHook(j) ==
    /\ \/ hook[j] \in {"enqueue", "delay"} /\ Fault("web")
       \/ hook[j] = "delay" /\ Fault("broker")
    /\ hook' = [hook EXCEPT ![j] = "done"]
    /\ UNCHANGED <<connection, rowVars, posted, resolved, queueVars, worker,
                   agentVars, manuals>>

\* Governance applies an approved change to ERPConnection.
ChangeConnection ==
    /\ connection' \in Connections \ {connection}
    /\ UNCHANGED <<hook, rowVars, posted, resolved, queueVars, worker, agentVars,
                   faults, manuals>>

-----------------------------------------------------------------------------
(* Broker, beat and operator *)

\* A Redis restart without persistence drops a message.
LoseMessage(j) ==
    /\ queue[j] > 0
    /\ Fault("broker")
    /\ queue' = [queue EXCEPT ![j] = @ - 1]
    /\ UNCHANGED <<connection, hook, rowVars, posted, resolved, retryq, worker,
                   agentVars, manuals>>

\* Mutant of Sweep: the sweep resets the row before it queues it.
Sweep_Reopening(j) ==
    /\ status[j] = "failed"
    /\ status' = [status EXCEPT ![j] = "pending"]
    /\ queue' = SendTo(queue, j)
    /\ UNCHANGED <<connection, hook, retries, payload, doc, posted, resolved,
                   retryq, worker, agentVars, faults, manuals>>

\* requeue_stale_pending_jobs, for one row whose next_retry_at has passed.
Sweep(j) ==
    /\ status[j] = "failed"
    /\ queue' = SendTo(queue, j)
    /\ UNCHANGED <<connection, hook, rowVars, posted, resolved, retryq, worker,
                   agentVars, faults, manuals>>

\* SyncLogEntryViewSet.retry: the view only queues the task.
RequestRetry(j) ==
    /\ status[j] # "absent"
    /\ manuals < MaxManual
    /\ manuals' = manuals + 1
    /\ retryq' = retryq \cup {j}
    /\ UNCHANGED <<connection, hook, rowVars, posted, resolved, queue, worker,
                   agentVars, faults>>

\* SyncLogEntryViewSet.resolve: a blind write of the status.
Resolve(j) ==
    /\ status[j] # "absent"
    /\ manuals < MaxManual
    /\ manuals' = manuals + 1
    /\ status' = [status EXCEPT ![j] = "acknowledged"]
    /\ resolved' = resolved \cup {j}
    /\ UNCHANGED <<connection, hook, retries, payload, doc, posted, queueVars,
                   worker, agentVars, faults>>

-----------------------------------------------------------------------------
(* Celery workers.  A task is acknowledged to the broker when it is taken. *)

\* retry_sync_job up to its save: back to pending, whatever the row says.
TakeRetry(w, j) ==
    /\ worker[w].stage = "idle"
    /\ j \in retryq
    /\ retryq' = retryq \ {j}
    /\ status' = [status EXCEPT ![j] = "pending"]
    /\ worker' = [worker EXCEPT ![w] = [Idle EXCEPT !.stage = "repended", !.job = j]]
    /\ UNCHANGED <<connection, hook, retries, payload, doc, posted, resolved,
                   queue, agentVars, faults, manuals>>

\* process_sync_job.delay at the end of retry_sync_job.
DelayRetry(w) ==
    /\ worker[w].stage = "repended"
    /\ queue' = SendTo(queue, worker[w].job)
    /\ worker' = [worker EXCEPT ![w] = Idle]
    /\ UNCHANGED <<connection, hook, rowVars, posted, resolved, retryq, agentVars,
                   faults, manuals>>

\* process_sync_job up to the push: the row is read and its copy kept.
TakeJob(w, j) ==
    /\ worker[w].stage = "idle"
    /\ queue[j] > 0
    /\ queue' = [queue EXCEPT ![j] = @ - 1]
    /\ IF status[j] \in {"acknowledged", "sent"}
       THEN UNCHANGED worker
       ELSE worker' = [worker EXCEPT ![w] =
                [stage   |-> IF connection.known THEN "loaded" ELSE "replied",
                 job     |-> j,
                 retries |-> retries[j],
                 verdict |-> IF connection.known THEN "none" ELSE "unknown"]]
    /\ UNCHANGED <<connection, hook, rowVars, posted, resolved, retryq, agentVars,
                   faults, manuals>>

WorkerPush(w) ==
    /\ worker[w].stage = "loaded"
    /\ \E verdict \in {"ok", "failed"} :
          /\ PushVoucher(worker[w].job, verdict)
          /\ worker' = [worker EXCEPT ![w].stage = "replied", ![w].verdict = verdict]
    /\ UNCHANGED <<connection, hook, rowVars, resolved, queueVars, agentVars, manuals>>

\* Mutant of WorkerSave: no return after _mark_failed, the job is acknowledged.
WorkerSave_NoReturn(w) ==
    /\ worker[w].stage = "replied"
    /\ status' = [status EXCEPT ![worker[w].job] = "acknowledged"]
    /\ payload' = [payload EXCEPT ![worker[w].job] = TRUE]
    /\ worker' = [worker EXCEPT ![w].stage = "saved"]
    /\ UNCHANGED <<connection, hook, retries, doc, posted, resolved, queueVars,
                   agentVars, faults, manuals>>

\* The save after the push: acknowledged, _mark_failed, or no connector class.
WorkerSave(w) ==
    LET j == worker[w].job IN
    /\ worker[w].stage = "replied"
    /\ \/ /\ worker[w].verdict = "ok"
          /\ status' = [status EXCEPT ![j] = "acknowledged"]
          /\ payload' = [payload EXCEPT ![j] = TRUE]
          /\ worker' = [worker EXCEPT ![w].stage = "saved"]
          /\ UNCHANGED retries
       \/ /\ worker[w].verdict = "failed"
          /\ MarkFailed(j, worker[w].retries)
          /\ worker' = [worker EXCEPT ![w].stage = "saved"]
          /\ UNCHANGED payload
       \/ /\ worker[w].verdict = "unknown"
          /\ status' = [status EXCEPT ![j] = "failed_permanent"]
          /\ worker' = [worker EXCEPT ![w] = Idle]
          /\ UNCHANGED <<retries, payload>>
    /\ UNCHANGED <<connection, hook, doc, posted, resolved, queueVars, agentVars,
                   faults, manuals>>

\* Mutant of WorkerSaveDoc: the document of a failed job is shown as synced.
WorkerSaveDoc_Blind(w) ==
    /\ worker[w].stage = "saved"
    /\ doc' = [doc EXCEPT ![worker[w].job] = "synced"]
    /\ worker' = [worker EXCEPT ![w] = Idle]
    /\ UNCHANGED <<connection, hook, status, retries, payload, posted, resolved,
                   queueVars, agentVars, faults, manuals>>

\* Mutant of WorkerSaveDoc: the document gets the status of the row, of which it has
\* no such value; save() does not look at the choices.
WorkerSaveDoc_RowStatus(w) ==
    /\ worker[w].stage = "saved"
    /\ doc' = [doc EXCEPT ![worker[w].job] = status[worker[w].job]]
    /\ worker' = [worker EXCEPT ![w] = Idle]
    /\ UNCHANGED <<connection, hook, status, retries, payload, posted, resolved,
                   queueVars, agentVars, faults, manuals>>

\* obj.sync_status = ...; obj.save(): the end of the task.
WorkerSaveDoc(w) ==
    /\ worker[w].stage = "saved"
    /\ doc' = [doc EXCEPT ![worker[w].job] =
                  IF worker[w].verdict = "ok" THEN "synced" ELSE "failed"]
    /\ worker' = [worker EXCEPT ![w] = Idle]
    /\ UNCHANGED <<connection, hook, status, retries, payload, posted, resolved,
                   queueVars, agentVars, faults, manuals>>

WorkerCrash(w) ==
    /\ worker[w].stage # "idle"
    /\ Fault("worker")
    /\ worker' = [worker EXCEPT ![w] = Idle]
    /\ UNCHANGED <<connection, hook, rowVars, posted, resolved, queueVars,
                   agentVars, manuals>>

-----------------------------------------------------------------------------
(* The on-prem agent: one process, restarted by the service manager *)

\* run_once: fetch_pending_jobs, answered by ConnectorJobViewSet.list.
AgentPoll ==
    LET pending == {j \in Jobs : status[j] = "pending"} IN
    /\ agent.stage = "idle"
    /\ pending # {}
    /\ agent' = [Restarted EXCEPT !.stage = "working",
                                  !.todo  = pending,
                                  !.ready = {j \in pending : payload[j]}]
    /\ UNCHANGED <<connection, hook, rowVars, posted, resolved, queueVars, worker,
                   reports, faults, manuals>>

\* The jobs are served oldest first.
NextJob(j) == j \in agent.todo /\ \A k \in agent.todo : j <= k

\* process_job: push_voucher with the payload that came with the job.
AgentPush(j) ==
    /\ agent.stage = "working"
    /\ NextJob(j)
    /\ j \in agent.ready
    /\ \E verdict \in {"ok", "failed"} :
          /\ PushVoucher(j, verdict)
          /\ agent' = [agent EXCEPT !.stage = "replied", !.job = j, !.verdict = verdict]
    /\ UNCHANGED <<connection, hook, rowVars, resolved, queueVars, worker,
                   reports, manuals>>

\* With an empty payload payload["id"] is a KeyError nothing catches.
AgentKeyError(j) ==
    /\ agent.stage = "working"
    /\ NextJob(j)
    /\ j \notin agent.ready
    /\ agent' = Restarted
    /\ UNCHANGED <<connection, hook, rowVars, posted, resolved, queueVars, worker,
                   reports, faults, manuals>>

\* report_result: the POST to jobs/<id>/result/.
AgentReport ==
    /\ agent.stage = "replied"
    /\ reports' = reports \cup {[job |-> agent.job, verdict |-> agent.verdict,
                                 epoch |-> faults, stage |-> "sent", retries |-> 0]}
    /\ agent' = [agent EXCEPT !.stage = "waiting", !.epoch = faults]
    /\ UNCHANGED <<connection, hook, rowVars, posted, resolved, queueVars, worker,
                   faults, manuals>>

AwaitedBy(r) == agent.stage = "waiting" /\ r.job = agent.job /\ r.epoch = agent.epoch

\* The answer to the report arrives: on to the next job of this poll.
AgentContinue ==
    /\ agent.stage = "waiting"
    /\ \A r \in reports : ~AwaitedBy(r)
    /\ agent' = IF agent.todo = {agent.job}
                THEN Restarted
                ELSE [Restarted EXCEPT !.stage = "working",
                                       !.todo  = agent.todo \ {agent.job},
                                       !.ready = agent.ready \ {agent.job}]
    /\ UNCHANGED <<connection, hook, rowVars, posted, resolved, queueVars, worker,
                   reports, faults, manuals>>

\* The agent is killed, or the 20 s timeout of its report raises URLError.
AgentCrash ==
    /\ agent.stage # "idle"
    /\ Fault("agent")
    /\ agent' = Restarted
    /\ UNCHANGED <<connection, hook, rowVars, posted, resolved, queueVars, worker,
                   reports, manuals>>

-----------------------------------------------------------------------------
(* ConnectorJobViewSet.result, one handler per report *)

Advance(r, stage, n) ==
    reports' = (reports \ {r}) \cup {[r EXCEPT !.stage = stage, !.retries = n]}

\* The row is read and its status tested.
ReadReport(r) ==
    /\ r.stage = "sent"
    /\ IF status[r.job] = "pending"
       THEN Advance(r, "read", retries[r.job])
       ELSE reports' = reports \ {r}
    /\ UNCHANGED <<connection, hook, rowVars, posted, resolved, queueVars, worker,
                   agent, faults, manuals>>

\* The row is saved; the document of an acknowledged job is left alone.
WriteReport(r) ==
    /\ r.stage = "read"
    /\ \/ /\ r.verdict = "ok"
          /\ status' = [status EXCEPT ![r.job] = "acknowledged"]
          /\ reports' = reports \ {r}
          /\ UNCHANGED retries
       \/ /\ r.verdict = "failed"
          /\ MarkFailed(r.job, r.retries)
          /\ Advance(r, "doc", r.retries)
    /\ UNCHANGED <<connection, hook, payload, doc, posted, resolved, queueVars,
                   worker, agent, faults, manuals>>

\* The second save of _mark_failed.
WriteReportDoc(r) ==
    /\ r.stage = "doc"
    /\ doc' = [doc EXCEPT ![r.job] = "failed"]
    /\ reports' = reports \ {r}
    /\ UNCHANGED <<connection, hook, status, retries, payload, posted, resolved,
                   queueVars, worker, agent, faults, manuals>>

\* The request is lost or its handler dies; a waiting agent gets an URLError.
LoseReport(r) ==
    /\ Fault("report")
    /\ reports' = reports \ {r}
    /\ agent' = IF AwaitedBy(r) THEN Restarted ELSE agent
    /\ UNCHANGED <<connection, hook, rowVars, posted, resolved, queueVars, worker,
                   manuals>>

-----------------------------------------------------------------------------

WebStep(j) == Finalize(j) \/ EnqueueTallyJob(j) \/ DelayFirst(j) \/ LoseHook(j)

OperatorStep(j) == RequestRetry(j) \/ Resolve(j)

WorkerStep(w) ==
    \/ \E j \in Jobs : TakeRetry(w, j) \/ TakeJob(w, j)
    \/ DelayRetry(w)
    \/ WorkerPush(w)
    \/ WorkerSave(w)
    \/ WorkerSaveDoc(w)
    \/ WorkerCrash(w)

AgentStep ==
    \/ AgentPoll
    \/ \E j \in Jobs : AgentPush(j) \/ AgentKeyError(j)
    \/ AgentReport
    \/ AgentContinue
    \/ AgentCrash

ReportStep(r) == ReadReport(r) \/ WriteReport(r) \/ WriteReportDoc(r) \/ LoseReport(r)

Next ==
    \/ \E j \in Jobs : WebStep(j) \/ LoseMessage(j) \/ Sweep(j) \/ OperatorStep(j)
    \/ ChangeConnection
    \/ \E w \in Workers : WorkerStep(w)
    \/ AgentStep
    \/ \E r \in reports : ReportStep(r)

Spec == Init /\ [][Next]_vars

\* The processes keep running: the hook of a finalized document, beat, the
\* steps of a task, the agent and its handlers.  The broker is FIFO, so a
\* message is taken if workers keep becoming idle (strong fairness).
Fairness ==
    /\ \A j \in Jobs :
          /\ WF_vars(EnqueueTallyJob(j))
          /\ WF_vars(DelayFirst(j))
          /\ WF_vars(Sweep(j))
          /\ SF_vars(\E w \in Workers : TakeRetry(w, j))
          /\ SF_vars(\E w \in Workers : TakeJob(w, j))
    /\ \A w \in Workers :
          WF_vars(DelayRetry(w) \/ WorkerPush(w) \/ WorkerSave(w) \/ WorkerSaveDoc(w))
    /\ WF_vars(AgentPoll \/ AgentReport \/ AgentContinue
               \/ \E j \in Jobs : AgentPush(j) \/ AgentKeyError(j))
    /\ WF_vars(\E r \in reports : ReadReport(r) \/ WriteReport(r) \/ WriteReportDoc(r))

FairSpec == Spec /\ Fairness

-----------------------------------------------------------------------------
(* Safety *)

\* An acknowledged row stands for a voucher the ERP did create, unless an
\* operator resolved the job by hand: no crash, stale copy, lost answer or
\* late report makes process_sync_job or the result endpoint record an
\* acknowledgement for a document the ERP never received.
AckMeansPosted ==
    \A j \in Jobs : status[j] = "acknowledged" => posted[j] > 0 \/ j \in resolved

\* A document shown as synced has a voucher in the ERP, however many saves of
\* its sync_status overtook one another.
SyncedMeansPosted ==
    \A j \in Jobs : doc[j] = "synced" => posted[j] > 0

\* _mark_failed writes status and retry_count together from one copy of the
\* row, so that a stale copy never leaves a row the sweep retries forever or
\* one it gave up on too early: a row waiting for a retry has attempts left.
RetryBudgetConsistent ==
    \A j \in Jobs : status[j] = "failed" => retries[j] \in 1..(MaxRetries - 1)

\* A job is given up on only after MAX_RETRIES recorded failures, unless the
\* connection named an ERP no connector class exists for.
GivenUpMeansExhausted ==
    (\A c \in Connections : c.known) =>
        \A j \in Jobs : status[j] = "failed_permanent" => retries[j] >= MaxRetries

\* The agent only ever pushes what a completed task saved as request_payload:
\* it reports on a job only if some task had already posted that document.
AgentOnlyReposts ==
    \A r \in reports : posted[r.job] > 0

-----------------------------------------------------------------------------
(* What a step may never do *)

\* A row never disappears and never returns to pending except by
\* retry_sync_job: no worker, report or sweep reopens a decided job as pending.
PendingOnlyByRetry ==
    [][\A j \in Jobs :
          /\ status[j] # "absent" => status'[j] # "absent"
          /\ status[j] \notin {"absent", "pending"} /\ status'[j] = "pending"
                => \E w \in Workers : worker'[w].stage = "repended" /\ worker'[w].job = j]_vars

-----------------------------------------------------------------------------
(* The abstract specification this component implements *)

Outcome(s) ==
    CASE s = "absent"           -> "none"
      [] s = "acknowledged"     -> "acknowledged"
      [] s = "failed_permanent" -> "given_up"
      [] OTHER                  -> "open"

outcomeBar   == [j \in Jobs |-> Outcome(status[j])]
deliveredBar == {j \in Jobs : posted[j] > 0}

Promise == INSTANCE VoucherDelivery
               WITH outcome <- outcomeBar, delivered <- deliveredBar, waived <- resolved

\* Every step of the tasks, the views and the agent is a step of
\* VoucherDelivery or leaves its state alone: at-least-once delivery, and an
\* acknowledgement only of what was delivered or waived.
ImplementsPromise == Promise!Spec

-----------------------------------------------------------------------------
(* Liveness *)

Decided(j) == status[j] \in {"acknowledged", "failed_permanent"}

\* In realtime mode, with no lost message, every open job is decided: the
\* sweep, the backoff and the retry counter drive it to an acknowledgement
\* or to failed_permanent although stale copies may lower the counter.
EveryJobDecided ==
    \A j \in Jobs : status[j] \in {"pending", "failed"} ~> Decided(j)

-----------------------------------------------------------------------------
(* Claims of the repository that the code does not keep *)

\* Invoice (sales/models.py) and SyncLogEntry promise that a document is
\* never posted to the ERP twice.
NoDuplicatePosting == \A j \in Jobs : posted[j] < 2

\* requeue_stale_pending_jobs says that it reconciles a pending job that a
\* Redis hiccup dropped, and enqueue_tally_job that in batch mode the agent
\* picks a pending row up: a pending job does not stay pending.
PendingJobServed ==
    \A j \in Jobs : status[j] = "pending" ~> status[j] # "pending"
=============================================================================
