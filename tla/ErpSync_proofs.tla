--------------------------- MODULE ErpSync_proofs ---------------------------
(***************************************************************************)
(* Theorems about ErpSync, for any set of documents, workers and           *)
(* connections, any retry limit and any bounds on faults and interventions.*)
(***************************************************************************)
EXTENDS ErpSync, TLAPS

\* A worker that holds an "ok" answer is working on a posted document.
WorkerHonest ==
    \A w \in Workers :
        worker[w].verdict = "ok" => worker[w].stage # "idle" /\ posted[worker[w].job] > 0

\* A saved payload, and a job polled with its payload, belong to a posted document.
PayloadHonest ==
    /\ \A j \in Jobs : payload[j] => posted[j] > 0
    /\ \A j \in agent.ready : posted[j] > 0

\* So does the job whose answer the agent holds or reports.
AgentHonest == agent.stage \in {"replied", "waiting"} => posted[agent.job] > 0

\* Jobs are posted only once they have a row.
PostedHasRow ==
    /\ \A j \in Jobs : posted[j] > 0 => status[j] # "absent"
    /\ \A j \in Jobs : queue[j] > 0 => status[j] # "absent"
    /\ \A j \in retryq : status[j] # "absent"
    /\ \A w \in Workers : worker[w].stage # "idle" => status[worker[w].job] # "absent"
    /\ \A j \in Jobs : hook[j] = "delay" => status[j] # "absent"

\* The inductive invariant.
IInv ==
    /\ TypeOK
    /\ AckMeansPosted
    /\ SyncedMeansPosted
    /\ WorkerHonest
    /\ PayloadHonest
    /\ AgentHonest
    /\ AgentOnlyReposts
    /\ PostedHasRow

USE ErpSyncAssumption DEF ErpSyncAssumption

-----------------------------------------------------------------------------
(* Types *)

LEMMA IdleTask == Idle \in Task /\ Idle.stage = "idle" /\ Idle.verdict = "none"
BY DEF Idle, Task, Verdicts

LEMMA RestartedState ==
    /\ Restarted \in AgentState
    /\ Restarted.stage = "idle"
    /\ Restarted.ready = {}
BY DEF Restarted, AgentState, Verdicts

\* The worker component of TypeOK.
WorkerTypeOK ==
    /\ worker \in [Workers -> Task]
    /\ \A w \in Workers : worker[w].stage # "idle" => worker[w].job \in Jobs

\* Giving a worker another well-formed task keeps the workers well-formed.
LEMMA WorkerUpdate ==
    ASSUME WorkerTypeOK, NEW v \in Workers, NEW t \in Task,
           t.stage # "idle" => t.job \in Jobs,
           worker' = [worker EXCEPT ![v] = t]
    PROVE  WorkerTypeOK'
BY DEF WorkerTypeOK

\* The rows of the sync log and their documents keep their types under
\* _mark_failed.
LEMMA MarkFailedTypes ==
    ASSUME TypeOK, NEW j \in Jobs, NEW n \in Nat, MarkFailed(j, n)
    PROVE  /\ status' \in [Jobs -> Status]
           /\ retries' \in [Jobs -> Nat]
BY DEF TypeOK, MarkFailed, Status

LEMMA PushTypes ==
    ASSUME TypeOK, NEW j \in Jobs, NEW verdict \in {"ok", "failed"},
           PushVoucher(j, verdict)
    PROVE  /\ posted' \in [Jobs -> 0..2]
           /\ faults' \in 0..MaxFaults
BY DEF TypeOK, PushVoucher, Fault

LEMMA SendTypes ==
    ASSUME TypeOK, NEW j \in Jobs
    PROVE  SendTo(queue, j) \in [Jobs -> 0..MaxMsgs]
BY DEF TypeOK, SendTo

\* Moving a report on keeps the reports well-formed.
LEMMA ReportUpdate ==
    ASSUME reports \subseteq Report, NEW r \in reports, NEW n \in Nat,
           NEW stage \in {"sent", "read", "doc"}, Advance(r, stage, n)
    PROVE  reports' \subseteq Report
BY DEF Advance, Report

LEMMA TypeWeb ==
    ASSUME TypeOK, NEW j \in Jobs,
           WebStep(j) \/ LoseMessage(j) \/ Sweep(j) \/ OperatorStep(j)
    PROVE  TypeOK'
<1> USE SendTypes DEF TypeOK, rowVars, queueVars, agentVars
<1>1. CASE Finalize(j)
  BY <1>1 DEF Finalize
<1>2. CASE EnqueueTallyJob(j)
  BY <1>2 DEF EnqueueTallyJob, Status
<1>3. CASE DelayFirst(j)
  BY <1>3 DEF DelayFirst
<1>4. CASE LoseHook(j)
  BY <1>4 DEF LoseHook, Fault
<1>5. CASE LoseMessage(j)
  BY <1>5 DEF LoseMessage, Fault
<1>6. CASE Sweep(j)
  BY <1>6 DEF Sweep
<1>7. CASE RequestRetry(j)
  BY <1>7 DEF RequestRetry
<1>8. CASE Resolve(j)
  BY <1>8 DEF Resolve, Status
<1>9. QED
  BY <1>1, <1>2, <1>3, <1>4, <1>5, <1>6, <1>7, <1>8 DEF WebStep, OperatorStep

LEMMA TypeWorker ==
    ASSUME TypeOK, NEW w \in Workers, WorkerStep(w)
    PROVE  TypeOK'
<1> USE DEF rowVars, queueVars, agentVars
<1>a. WorkerTypeOK
  BY DEF TypeOK, WorkerTypeOK
<1>1. ASSUME NEW j \in Jobs, TakeRetry(w, j) PROVE TypeOK'
  <2>1. [Idle EXCEPT !.stage = "repended", !.job = j] \in Task
    BY DEF Idle, Task, Verdicts
  <2>2. [Idle EXCEPT !.stage = "repended", !.job = j].job \in Jobs
    BY DEF Idle
  <2>3. WorkerTypeOK'
    BY <1>1, <1>a, <2>1, <2>2, WorkerUpdate DEF TakeRetry
  <2>4. QED
    BY <1>1, <2>3 DEF TypeOK, WorkerTypeOK, TakeRetry, Status
<1>2. ASSUME NEW j \in Jobs, TakeJob(w, j) PROVE TypeOK'
  <2> DEFINE t == [stage   |-> IF connection.known THEN "loaded" ELSE "replied",
                   job     |-> j,
                   retries |-> retries[j],
                   verdict |-> IF connection.known THEN "none" ELSE "unknown"]
  <2>1. t \in Task /\ t.job \in Jobs
    BY DEF TypeOK, Task, Verdicts
  <2>2. CASE worker' = worker
    BY <1>2, <2>2 DEF TypeOK, TakeJob
  <2>3. CASE worker' = [worker EXCEPT ![w] = t]
    <3>1. WorkerTypeOK'
      BY <1>a, <2>1, <2>3, WorkerUpdate
    <3>2. QED
      BY <1>2, <3>1 DEF TypeOK, WorkerTypeOK, TakeJob
  <2>4. QED
    BY <1>2, <2>2, <2>3 DEF TakeJob
<1>3. CASE DelayRetry(w)
  <2>1. WorkerTypeOK'
    BY <1>3, <1>a, IdleTask, WorkerUpdate DEF DelayRetry
  <2>2. worker[w].job \in Jobs
    BY <1>3, <1>a DEF WorkerTypeOK, DelayRetry
  <2>3. QED
    BY <1>3, <2>1, <2>2, SendTypes DEF TypeOK, WorkerTypeOK, DelayRetry
<1>4. CASE WorkerPush(w)
  <2>1. worker[w].job \in Jobs /\ worker[w] \in Task
    BY <1>4, <1>a DEF WorkerTypeOK, WorkerPush
  <2>2. PICK verdict \in {"ok", "failed"} :
            /\ PushVoucher(worker[w].job, verdict)
            /\ worker' = [worker EXCEPT ![w].stage = "replied", ![w].verdict = verdict]
    BY <1>4 DEF WorkerPush
  <2> DEFINE t == [worker[w] EXCEPT !.stage = "replied", !.verdict = verdict]
  <2>3. t \in Task /\ t.job \in Jobs
    BY <2>1 DEF Task, Verdicts
  <2>4. worker' = [worker EXCEPT ![w] = t]
    BY <2>2, <1>a DEF WorkerTypeOK
  <2>5. WorkerTypeOK'
    BY <1>a, <2>3, <2>4, WorkerUpdate
  <2>6. posted' \in [Jobs -> 0..2] /\ faults' \in 0..MaxFaults
    BY <2>1, <2>2, PushTypes
  <2>7. QED
    BY <1>4, <2>5, <2>6 DEF TypeOK, WorkerTypeOK, WorkerPush
<1>5. CASE WorkerSave(w)
  <2>1. worker[w].job \in Jobs /\ worker[w] \in Task /\ worker[w].retries \in Nat
    BY <1>5, <1>a DEF WorkerTypeOK, WorkerSave, Task
  <2> DEFINE t == [worker[w] EXCEPT !.stage = "saved"]
  <2>2. t \in Task /\ t.job \in Jobs
    BY <2>1 DEF Task
  <2>3. worker' = [worker EXCEPT ![w] = t] \/ worker' = [worker EXCEPT ![w] = Idle]
    BY <1>5, <1>a DEF WorkerSave, WorkerTypeOK
  <2>4. WorkerTypeOK'
    BY <1>a, <2>2, <2>3, IdleTask, WorkerUpdate
  <2>5. /\ status' \in [Jobs -> Status]
        /\ retries' \in [Jobs -> Nat]
        /\ payload' \in [Jobs -> BOOLEAN]
    BY <1>5, <2>1, MarkFailedTypes DEF TypeOK, WorkerSave, Status
  <2>6. QED
    BY <1>5, <2>4, <2>5 DEF TypeOK, WorkerTypeOK, WorkerSave
<1>6. CASE WorkerSaveDoc(w)
  <2>1. WorkerTypeOK'
    BY <1>6, <1>a, IdleTask, WorkerUpdate DEF WorkerSaveDoc
  <2>2. QED
    BY <1>6, <2>1 DEF TypeOK, WorkerTypeOK, WorkerSaveDoc
<1>7. CASE WorkerCrash(w)
  <2>1. WorkerTypeOK'
    BY <1>7, <1>a, IdleTask, WorkerUpdate DEF WorkerCrash
  <2>2. QED
    BY <1>7, <2>1 DEF TypeOK, WorkerTypeOK, WorkerCrash, Fault
<1>8. QED
  BY <1>1, <1>2, <1>3, <1>4, <1>5, <1>6, <1>7 DEF WorkerStep

LEMMA TypeAgent ==
    ASSUME TypeOK, AgentStep
    PROVE  TypeOK'
<1> USE RestartedState DEF rowVars, queueVars
<1>1. CASE AgentPoll
  <2>1. agent' \in AgentState /\ agent'.stage = "working"
    BY <1>1 DEF AgentPoll, AgentState, Restarted, Verdicts
  <2>2. QED
    BY <1>1, <2>1 DEF TypeOK, AgentPoll
<1>2. ASSUME NEW j \in Jobs, AgentPush(j) PROVE TypeOK'
  <2>1. PICK verdict \in {"ok", "failed"} :
            /\ PushVoucher(j, verdict)
            /\ agent' = [agent EXCEPT !.stage = "replied", !.job = j, !.verdict = verdict]
    BY <1>2 DEF AgentPush
  <2>2. agent' \in AgentState /\ agent'.job \in Jobs /\ agent'.verdict = verdict
    BY <2>1 DEF TypeOK, AgentState, Verdicts
  <2>3. posted' \in [Jobs -> 0..2] /\ faults' \in 0..MaxFaults
    BY <2>1, PushTypes
  <2>4. QED
    BY <1>2, <2>2, <2>3 DEF TypeOK, AgentPush
<1>3. ASSUME NEW j \in Jobs, AgentKeyError(j) PROVE TypeOK'
  BY <1>3 DEF TypeOK, AgentKeyError
<1>4. CASE AgentReport
  <2>1. agent.job \in Jobs /\ agent \in AgentState /\ faults \in Nat
    BY <1>4 DEF TypeOK, AgentReport
  <2>2. agent' \in AgentState /\ agent'.job = agent.job /\ agent'.verdict = agent.verdict
    BY <1>4, <2>1 DEF AgentReport, AgentState
  <2>3. reports' \subseteq Report
    <3>1. agent.verdict \in {"ok", "failed"}
      BY <1>4 DEF AgentReport, TypeOK
    <3>2. QED
      BY <1>4, <2>1, <3>1 DEF AgentReport, TypeOK, Report
  <2>4. QED
    BY <1>4, <2>2, <2>3 DEF TypeOK, AgentReport
<1>5. CASE AgentContinue
  <2>1. agent' \in AgentState /\ agent'.stage \in {"idle", "working"}
    BY <1>5 DEF TypeOK, AgentContinue, AgentState, Restarted, Verdicts
  <2>2. QED
    BY <1>5, <2>1 DEF TypeOK, AgentContinue
<1>6. CASE AgentCrash
  BY <1>6 DEF TypeOK, AgentCrash, Fault
<1>7. QED
  BY <1>1, <1>2, <1>3, <1>4, <1>5, <1>6 DEF AgentStep

LEMMA TypeReport ==
    ASSUME TypeOK, NEW r \in reports, ReportStep(r)
    PROVE  TypeOK'
<1> USE DEF rowVars, queueVars
<1>a. r \in Report /\ r.job \in Jobs /\ r.retries \in Nat /\ reports \subseteq Report
  BY DEF TypeOK, Report
<1>1. CASE ReadReport(r)
  <2>1. retries[r.job] \in Nat
    BY <1>a DEF TypeOK
  <2>2. reports' \subseteq Report
    BY <1>1, <1>a, <2>1, ReportUpdate DEF ReadReport
  <2>3. QED
    BY <1>1, <2>2 DEF TypeOK, ReadReport
<1>2. CASE WriteReport(r)
  <2>1. reports' \subseteq Report
    BY <1>2, <1>a, ReportUpdate DEF WriteReport
  <2>2. status' \in [Jobs -> Status] /\ retries' \in [Jobs -> Nat]
    BY <1>2, <1>a, MarkFailedTypes DEF TypeOK, WriteReport, Status
  <2>3. QED
    BY <1>2, <2>1, <2>2 DEF TypeOK, WriteReport
<1>3. CASE WriteReportDoc(r)
  BY <1>3, <1>a DEF TypeOK, WriteReportDoc
<1>4. CASE LoseReport(r)
  BY <1>4, <1>a, RestartedState DEF TypeOK, LoseReport, Fault
<1>5. QED
  BY <1>1, <1>2, <1>3, <1>4 DEF ReportStep

\* Every step keeps the types: counters in their bounds, a task or a report
\* always about a known document.
LEMMA TypeStep == ASSUME TypeOK, [Next]_vars PROVE TypeOK'
<1>1. CASE ChangeConnection
  BY <1>1 DEF TypeOK, ChangeConnection, rowVars, queueVars, agentVars
<1>2. CASE UNCHANGED vars
  BY <1>2 DEF TypeOK, vars
<1>3. QED
  BY <1>1, <1>2, TypeWeb, TypeWorker, TypeAgent, TypeReport DEF Next

\* The types of ErpSync hold for any number of documents and workers.
THEOREM TypeCorrect == Spec => []TypeOK
<1>1. Init => TypeOK
  BY IdleTask, RestartedState DEF Init, TypeOK, Status
<1>2. QED
  BY <1>1, TypeStep, PTL DEF Spec
-----------------------------------------------------------------------------
(* Honesty: an acknowledgement, wherever it is held, stands for a voucher *)

Honest ==
    /\ AckMeansPosted
    /\ SyncedMeansPosted
    /\ WorkerHonest
    /\ PayloadHonest
    /\ AgentHonest
    /\ AgentOnlyReposts
    /\ PostedHasRow

\* A push adds a voucher of the job, takes none away, and answers "ok" only
\* for a job that has one.
LEMMA PushPosts ==
    ASSUME TypeOK, NEW j \in Jobs, NEW verdict, PushVoucher(j, verdict)
    PROVE  /\ \A k \in Jobs : posted[k] > 0 => posted'[k] > 0
           /\ \A k \in Jobs : posted'[k] > 0 => posted[k] > 0 \/ k = j
           /\ verdict = "ok" => posted'[j] > 0
BY DEF TypeOK, PushVoucher

LEMMA HonestWeb ==
    ASSUME TypeOK, Honest, NEW j \in Jobs,
           WebStep(j) \/ LoseMessage(j) \/ Sweep(j) \/ OperatorStep(j)
    PROVE  Honest'
<1> USE DEF Honest, AckMeansPosted, SyncedMeansPosted, WorkerHonest, PayloadHonest, AgentHonest, AgentOnlyReposts, PostedHasRow, rowVars, queueVars, agentVars, TypeOK
<1>1. CASE Finalize(j)
  BY <1>1 DEF Finalize
<1>2. CASE EnqueueTallyJob(j)
  BY <1>2 DEF EnqueueTallyJob
<1>3. CASE DelayFirst(j)
  BY <1>3 DEF DelayFirst, SendTo
<1>4. CASE LoseHook(j)
  BY <1>4 DEF LoseHook
<1>5. CASE LoseMessage(j)
  BY <1>5 DEF LoseMessage
<1>6. CASE Sweep(j)
  BY <1>6 DEF Sweep, SendTo
<1>7. CASE RequestRetry(j)
  BY <1>7 DEF RequestRetry
<1>8. CASE Resolve(j)
  BY <1>8 DEF Resolve
<1>9. QED
  BY <1>1, <1>2, <1>3, <1>4, <1>5, <1>6, <1>7, <1>8 DEF WebStep, OperatorStep

LEMMA HonestWorker ==
    ASSUME TypeOK, Honest, NEW w \in Workers, WorkerStep(w)
    PROVE  Honest'
<1> USE DEF Honest, AckMeansPosted, SyncedMeansPosted, WorkerHonest, PayloadHonest, AgentHonest, AgentOnlyReposts, PostedHasRow, rowVars, queueVars, agentVars, TypeOK
<1>1. ASSUME NEW j \in Jobs, TakeRetry(w, j) PROVE Honest'
  BY <1>1 DEF TakeRetry, Idle
<1>2. ASSUME NEW j \in Jobs, TakeJob(w, j) PROVE Honest'
  BY <1>2 DEF TakeJob
<1>3. CASE DelayRetry(w)
  BY <1>3 DEF DelayRetry, SendTo, Idle
<1>4. CASE WorkerPush(w)
  <2>1. worker[w].job \in Jobs /\ worker[w] \in Task
    BY <1>4 DEF WorkerPush
  <2>2. PICK verdict \in {"ok", "failed"} :
            /\ PushVoucher(worker[w].job, verdict)
            /\ worker' = [worker EXCEPT ![w].stage = "replied", ![w].verdict = verdict]
    BY <1>4 DEF WorkerPush
  <2>3. /\ \A k \in Jobs : posted[k] > 0 => posted'[k] > 0
        /\ \A k \in Jobs : posted'[k] > 0 => posted[k] > 0 \/ k = worker[w].job
        /\ verdict = "ok" => posted'[worker[w].job] > 0
    BY <2>1, <2>2, PushPosts
  <2>4. /\ \A v \in Workers : worker'[v].job = worker[v].job
        /\ \A v \in Workers \ {w} : worker'[v] = worker[v]
        /\ worker'[w].stage = "replied" /\ worker'[w].verdict = verdict
    BY <2>1, <2>2 DEF Task
  <2>5. WorkerHonest'
    BY <2>3, <2>4 DEF WorkerPush
  <2>6. PostedHasRow'
    BY <1>4, <2>1, <2>3, <2>4 DEF WorkerPush
  <2>7. /\ AckMeansPosted' /\ SyncedMeansPosted' /\ PayloadHonest'
        /\ AgentHonest' /\ AgentOnlyReposts'
    BY <1>4, <2>3 DEF WorkerPush, AgentState, Report
  <2>8. QED
    BY <2>5, <2>6, <2>7
<1>5. CASE WorkerSave(w)
  <2>1. worker[w].job \in Jobs /\ worker[w] \in Task
    BY <1>5 DEF WorkerSave
  <2>2. /\ \A v \in Workers : worker'[v].verdict = "ok" =>
              worker[v].verdict = "ok" /\ worker'[v].job = worker[v].job /\ worker'[v].stage # "idle"
        /\ \A v \in Workers : worker'[v].stage # "idle" =>
              worker[v].stage # "idle" /\ worker'[v].job = worker[v].job
    BY <1>5, <2>1 DEF WorkerSave, Idle, Task
  <2>3. /\ \A k \in Jobs : status[k] # "absent" => status'[k] # "absent"
        /\ \A k \in Jobs : status'[k] = "acknowledged" =>
              status[k] = "acknowledged" \/ (k = worker[w].job /\ worker[w].verdict = "ok")
        /\ \A k \in Jobs : payload'[k] =>
              payload[k] \/ (k = worker[w].job /\ worker[w].verdict = "ok")
    BY <1>5, <2>1 DEF WorkerSave, MarkFailed, Status
  <2>4. WorkerHonest'
    BY <1>5, <2>2 DEF WorkerSave
  <2>5. PostedHasRow'
    BY <1>5, <2>1, <2>2, <2>3 DEF WorkerSave
  <2>6. AckMeansPosted' /\ PayloadHonest'
    BY <1>5, <2>1, <2>3 DEF WorkerSave
  <2>7. SyncedMeansPosted' /\ AgentHonest' /\ AgentOnlyReposts'
    BY <1>5 DEF WorkerSave
  <2>8. QED
    BY <2>4, <2>5, <2>6, <2>7
<1>6. CASE WorkerSaveDoc(w)
  BY <1>6 DEF WorkerSaveDoc, Idle
<1>7. CASE WorkerCrash(w)
  BY <1>7 DEF WorkerCrash, Idle
<1>8. QED
  BY <1>1, <1>2, <1>3, <1>4, <1>5, <1>6, <1>7 DEF WorkerStep

LEMMA HonestAgent ==
    ASSUME TypeOK, Honest, AgentStep
    PROVE  Honest'
<1> USE DEF Honest, AckMeansPosted, SyncedMeansPosted, WorkerHonest, PayloadHonest, AgentHonest, AgentOnlyReposts, PostedHasRow, rowVars, queueVars, TypeOK
<1>1. CASE AgentPoll
  BY <1>1 DEF AgentPoll, Restarted
<1>2. ASSUME NEW j \in Jobs, AgentPush(j) PROVE Honest'
  <2>1. PICK verdict \in {"ok", "failed"} :
            /\ PushVoucher(j, verdict)
            /\ agent' = [agent EXCEPT !.stage = "replied", !.job = j, !.verdict = verdict]
    BY <1>2 DEF AgentPush
  <2>2. /\ \A k \in Jobs : posted[k] > 0 => posted'[k] > 0
        /\ \A k \in Jobs : posted'[k] > 0 => posted[k] > 0 \/ k = j
    BY <2>1, PushPosts
  <2>3. posted[j] > 0 /\ agent'.job = j /\ agent'.ready = agent.ready
    BY <1>2, <2>1 DEF AgentPush, AgentState
  <2>4. PostedHasRow'
    BY <1>2, <2>2, <2>3 DEF AgentPush
  <2>5. AgentHonest' /\ PayloadHonest'
    BY <1>2, <2>2, <2>3 DEF AgentPush, AgentState
  <2>6. AckMeansPosted' /\ SyncedMeansPosted' /\ WorkerHonest' /\ AgentOnlyReposts'
    BY <1>2, <2>2 DEF AgentPush, Report
  <2>7. QED
    BY <2>4, <2>5, <2>6
<1>3. ASSUME NEW j \in Jobs, AgentKeyError(j) PROVE Honest'
  BY <1>3 DEF AgentKeyError, Restarted
<1>4. CASE AgentReport
  BY <1>4 DEF AgentReport, AgentState
<1>5. CASE AgentContinue
  BY <1>5 DEF AgentContinue, Restarted
<1>6. CASE AgentCrash
  BY <1>6 DEF AgentCrash, Restarted
<1>7. QED
  BY <1>1, <1>2, <1>3, <1>4, <1>5, <1>6 DEF AgentStep

LEMMA HonestReport ==
    ASSUME TypeOK, Honest, NEW r \in reports, ReportStep(r)
    PROVE  Honest'
<1> USE DEF Honest, AckMeansPosted, SyncedMeansPosted, WorkerHonest, PayloadHonest, AgentHonest, AgentOnlyReposts, PostedHasRow, rowVars, queueVars, TypeOK
<1>1. CASE ReadReport(r)
  <2> DEFINE q == [r EXCEPT !.stage = "read", !.retries = retries[r.job]]
  <2>0. r \in Report /\ q.job = r.job
    BY DEF Report
  <2>1. \A p \in reports' : p \in reports \/ p.job = r.job
    BY <1>1, <2>0 DEF ReadReport, Advance
  <2>2. AgentOnlyReposts'
    BY <1>1, <2>1 DEF ReadReport
  <2>3. QED
    BY <1>1, <2>2 DEF ReadReport
<1>2. CASE WriteReport(r)
  BY <1>2 DEF WriteReport, Advance, MarkFailed, Report
<1>3. CASE WriteReportDoc(r)
  BY <1>3 DEF WriteReportDoc
<1>4. CASE LoseReport(r)
  BY <1>4 DEF LoseReport, Restarted
<1>5. QED
  BY <1>1, <1>2, <1>3, <1>4 DEF ReportStep

LEMMA HonestStep == ASSUME IInv, [Next]_vars PROVE IInv'
<1>1. TypeOK /\ Honest
  BY DEF IInv, Honest
<1>2. TypeOK'
  BY <1>1, TypeStep
<1>3. Honest'
  <2>1. CASE ChangeConnection
    BY <1>1, <2>1 DEF ChangeConnection, Honest, AckMeansPosted, SyncedMeansPosted, WorkerHonest, PayloadHonest, AgentHonest, AgentOnlyReposts, PostedHasRow, rowVars, queueVars, agentVars
  <2>2. CASE UNCHANGED vars
    BY <1>1, <2>2 DEF vars, Honest, AckMeansPosted, SyncedMeansPosted, WorkerHonest, PayloadHonest, AgentHonest, AgentOnlyReposts, PostedHasRow
  <2>3. QED
    BY <1>1, <2>1, <2>2, HonestWeb, HonestWorker, HonestAgent, HonestReport DEF Next
<1>4. QED
  BY <1>2, <1>3 DEF IInv, Honest

LEMMA InductiveInvariant == Spec => []IInv
<1>1. Init => IInv
  <2>1. Init => TypeOK
    BY IdleTask, RestartedState DEF Init, TypeOK, Status
  <2>2. Init => Honest
    BY IdleTask, RestartedState DEF Init, Honest, AckMeansPosted, SyncedMeansPosted, WorkerHonest, PayloadHonest, AgentHonest, AgentOnlyReposts, PostedHasRow
  <2>3. QED
    BY <2>1, <2>2 DEF IInv, Honest
<1>2. QED
  BY <1>1, HonestStep, PTL DEF Spec

\* An acknowledged job has a voucher in the ERP or was resolved by hand,
\* whatever crashes, stale copies, lost answers and late reports occurred.
THEOREM AckIsHonest == Spec => []AckMeansPosted
<1>1. IInv => AckMeansPosted
  BY DEF IInv
<1>2. QED
  BY <1>1, InductiveInvariant, PTL

\* A document is shown as synced only if the ERP has a voucher for it.
THEOREM SyncedIsHonest == Spec => []SyncedMeansPosted
<1>1. IInv => SyncedMeansPosted
  BY DEF IInv
<1>2. QED
  BY <1>1, InductiveInvariant, PTL

\* The agent reports only on documents some task had already posted.
THEOREM AgentReposts == Spec => []AgentOnlyReposts
<1>1. IInv => AgentOnlyReposts
  BY DEF IInv
<1>2. QED
  BY <1>1, InductiveInvariant, PTL
-----------------------------------------------------------------------------
(* Retry budget *)

\* With a connector class for every connection no task gives up for lack of one.
NoUnknown ==
    (\A c \in Connections : c.known) => \A w \in Workers : worker[w].verdict # "unknown"

Budget == RetryBudgetConsistent /\ GivenUpMeansExhausted /\ NoUnknown

\* What _mark_failed leaves behind respects the budget.
LEMMA MarkFailedBudget ==
    ASSUME TypeOK, NEW j \in Jobs, NEW n \in Nat, MarkFailed(j, n),
           RetryBudgetConsistent, GivenUpMeansExhausted
    PROVE  RetryBudgetConsistent' /\ GivenUpMeansExhausted'
BY DEF TypeOK, MarkFailed, RetryBudgetConsistent, GivenUpMeansExhausted

LEMMA BudgetStep == ASSUME TypeOK, Budget, [Next]_vars PROVE Budget'
<1> USE DEF Budget, RetryBudgetConsistent, GivenUpMeansExhausted, NoUnknown,
            rowVars, queueVars, agentVars
<1>1. ASSUME NEW j \in Jobs,
             WebStep(j) \/ LoseMessage(j) \/ Sweep(j) \/ OperatorStep(j)
      PROVE  Budget'
  BY <1>1 DEF WebStep, Finalize, EnqueueTallyJob, DelayFirst, LoseHook, LoseMessage,
              Sweep, OperatorStep, RequestRetry, Resolve, TypeOK
<1>2. ASSUME NEW w \in Workers, WorkerStep(w) PROVE Budget'
  <2> USE DEF TypeOK
  <2>1. ASSUME NEW j \in Jobs, TakeRetry(w, j) PROVE Budget'
    BY <2>1 DEF TakeRetry, Idle
  <2>2. ASSUME NEW j \in Jobs, TakeJob(w, j) PROVE Budget'
    BY <2>2 DEF TakeJob
  <2>3. CASE DelayRetry(w) \/ WorkerSaveDoc(w) \/ WorkerCrash(w)
    BY <2>3, IdleTask DEF DelayRetry, WorkerSaveDoc, WorkerCrash
  <2>4. CASE WorkerPush(w)
    BY <2>4 DEF WorkerPush, Task
  <2>5. CASE WorkerSave(w)
    <3>1. worker[w].job \in Jobs /\ worker[w].retries \in Nat /\ worker[w] \in Task
      BY <2>5 DEF WorkerSave, Task
    <3>2. NoUnknown'
      BY <2>5, <3>1, IdleTask DEF WorkerSave, Task
    <3>3. CASE worker[w].verdict = "ok"
      BY <2>5, <3>1, <3>2, <3>3 DEF WorkerSave
    <3>4. CASE worker[w].verdict = "failed"
      BY <2>5, <3>1, <3>2, <3>4, MarkFailedBudget DEF WorkerSave
    <3>5. CASE worker[w].verdict = "unknown"
      BY <2>5, <3>1, <3>2, <3>5 DEF WorkerSave
    <3>6. QED
      BY <2>5, <3>3, <3>4, <3>5 DEF WorkerSave
  <2>6. QED
    BY <1>2, <2>1, <2>2, <2>3, <2>4, <2>5 DEF WorkerStep
<1>3. CASE AgentStep
  BY <1>3 DEF AgentStep, AgentPoll, AgentPush, AgentKeyError, AgentReport,
              AgentContinue, AgentCrash
<1>4. ASSUME NEW r \in reports, ReportStep(r) PROVE Budget'
  <2>1. r.job \in Jobs /\ r.retries \in Nat
    BY DEF TypeOK, Report
  <2>2. CASE WriteReport(r)
    <3>1. CASE r.verdict = "ok"
      BY <2>1, <2>2, <3>1 DEF WriteReport, TypeOK
    <3>2. CASE r.verdict = "failed"
      BY <2>1, <2>2, <3>2, MarkFailedBudget DEF WriteReport
    <3>3. QED
      BY <2>2, <3>1, <3>2 DEF WriteReport
  <2>3. CASE ReadReport(r) \/ WriteReportDoc(r) \/ LoseReport(r)
    BY <2>3 DEF ReadReport, WriteReportDoc, LoseReport
  <2>4. QED
    BY <1>4, <2>2, <2>3 DEF ReportStep
<1>5. CASE ChangeConnection
  BY <1>5 DEF ChangeConnection
<1>6. CASE UNCHANGED vars
  BY <1>6 DEF vars
<1>7. QED
  BY <1>1, <1>2, <1>3, <1>4, <1>5, <1>6 DEF Next

LEMMA BudgetInvariant == Spec => []Budget
<1>1. Init => Budget
  BY IdleTask DEF Init, Budget, RetryBudgetConsistent, GivenUpMeansExhausted, NoUnknown
<1>2. QED
  BY <1>1, BudgetStep, TypeCorrect, PTL DEF Spec

\* A row waiting for the sweep has between 1 and MAX_RETRIES - 1 failures on record.
THEOREM RetryBudget == Spec => []RetryBudgetConsistent
<1>1. Budget => RetryBudgetConsistent
  BY DEF Budget
<1>2. QED
  BY <1>1, BudgetInvariant, PTL

\* A job is given up on only with MAX_RETRIES failures on record, if every
\* connection has a connector class.
THEOREM GivenUp == Spec => []GivenUpMeansExhausted
<1>1. Budget => GivenUpMeansExhausted
  BY DEF Budget
<1>2. QED
  BY <1>1, BudgetInvariant, PTL

-----------------------------------------------------------------------------
(* What a step may never do *)

\* j's row is kept, and is pending again only if retry_sync_job has it.
Kept(j) ==
    /\ status[j] # "absent" => status'[j] # "absent"
    /\ status[j] \notin {"absent", "pending"} /\ status'[j] = "pending"
          => \E w \in Workers : worker'[w].stage = "repended" /\ worker'[w].job = j

\* Every step keeps every row.
LEMMA KeptStep == ASSUME TypeOK, Next PROVE \A j \in Jobs : Kept(j)
<1>1. ASSUME status' = status PROVE \A j \in Jobs : Kept(j)
  BY <1>1 DEF Kept
<1>2. ASSUME NEW k \in Jobs, NEW s \in Status \ {"absent", "pending"}, status' = [status EXCEPT ![k] = s]
      PROVE  \A j \in Jobs : Kept(j)
  BY <1>2 DEF Kept, TypeOK
<1>3. ASSUME NEW k \in Jobs, NEW n, MarkFailed(k, n) PROVE \A j \in Jobs : Kept(j)
  BY <1>3 DEF Kept, TypeOK, MarkFailed
<1>4. ASSUME NEW k \in Jobs, WebStep(k) \/ LoseMessage(k) \/ Sweep(k) \/ OperatorStep(k)
      PROVE  \A j \in Jobs : Kept(j)
  <2>1. CASE EnqueueTallyJob(k)
    BY <2>1 DEF EnqueueTallyJob, Kept, TypeOK
  <2>2. CASE Resolve(k)
    BY <1>2, <2>2 DEF Resolve, Status
  <2>3. CASE Finalize(k) \/ DelayFirst(k) \/ LoseHook(k) \/ LoseMessage(k) \/ Sweep(k) \/ RequestRetry(k)
    BY <1>1, <2>3 DEF Finalize, DelayFirst, LoseHook, LoseMessage, Sweep, RequestRetry, rowVars
  <2> QED BY <1>4, <2>1, <2>2, <2>3 DEF WebStep, OperatorStep
<1>5. ASSUME NEW w \in Workers, WorkerStep(w) PROVE \A j \in Jobs : Kept(j)
  <2>1. ASSUME NEW k \in Jobs, TakeRetry(w, k) PROVE \A j \in Jobs : Kept(j)
    <3>1. status' = [status EXCEPT ![k] = "pending"] /\ worker'[w].stage = "repended" /\ worker'[w].job = k
      BY <2>1 DEF TakeRetry, TypeOK, WorkerTypeOK, Idle
    <3> QED BY <3>1 DEF Kept, TypeOK
  <2>2. CASE WorkerSave(w)
    <3> DEFINE k == worker[w].job
    <3>1. k \in Jobs
      BY <2>2 DEF WorkerSave, TypeOK, WorkerTypeOK
    <3>2. \/ status' = [status EXCEPT ![k] = "acknowledged"] \/ status' = [status EXCEPT ![k] = "failed_permanent"]
          \/ MarkFailed(k, worker[w].retries)
      BY <2>2 DEF WorkerSave
    <3> HIDE DEF k
    <3>3. {"acknowledged", "failed_permanent"} \subseteq Status \ {"absent", "pending"}
      BY DEF Status
    <3> QED BY <1>2, <1>3, <3>1, <3>2, <3>3
  <2>3. ASSUME NEW k \in Jobs, TakeJob(w, k) PROVE status' = status
    BY <2>3 DEF TakeJob, rowVars
  <2>4. CASE DelayRetry(w) \/ WorkerPush(w) \/ WorkerSaveDoc(w) \/ WorkerCrash(w)
    BY <1>1, <2>4 DEF DelayRetry, WorkerPush, WorkerSaveDoc, WorkerCrash, rowVars
  <2> QED BY <1>1, <1>5, <2>1, <2>2, <2>3, <2>4 DEF WorkerStep
<1>6. ASSUME AgentStep \/ ChangeConnection PROVE \A j \in Jobs : Kept(j)
  BY <1>1, <1>6 DEF AgentStep, AgentPoll, AgentPush, AgentKeyError, AgentReport, AgentContinue, AgentCrash,
                    ChangeConnection, rowVars
<1>7. ASSUME NEW r \in reports, ReportStep(r) PROVE \A j \in Jobs : Kept(j)
  <2>1. r.job \in Jobs
    BY DEF TypeOK, Report
  <2>2. CASE WriteReport(r)
    <3>1. status' = [status EXCEPT ![r.job] = "acknowledged"] \/ MarkFailed(r.job, r.retries)
      BY <2>2 DEF WriteReport
    <3> QED BY <1>2, <1>3, <2>1, <3>1 DEF Status
  <2>3. CASE ReadReport(r) \/ WriteReportDoc(r) \/ LoseReport(r)
    BY <1>1, <2>3 DEF ReadReport, WriteReportDoc, LoseReport, rowVars
  <2> QED BY <1>7, <2>2, <2>3 DEF ReportStep
<1> QED BY <1>4, <1>5, <1>6, <1>7 DEF Next

\* No worker, report or sweep deletes a row or makes a decided job pending again:
\* only retry_sync_job, asked for at the Sync Monitor, does.
THEOREM OnlyRetryReopens == Spec => PendingOnlyByRetry
<1>1. TypeOK /\ [Next]_vars => [\A j \in Jobs : Kept(j)]_vars
  BY KeptStep
<1>2. [\A j \in Jobs : Kept(j)]_vars =>
      [\A j \in Jobs :
          /\ status[j] # "absent" => status'[j] # "absent"
          /\ status[j] \notin {"absent", "pending"} /\ status'[j] = "pending"
                => \E w \in Workers : worker'[w].stage = "repended" /\ worker'[w].job = j]_vars
  BY DEF Kept
<1> QED BY <1>1, <1>2, TypeCorrect, PTL DEF Spec, PendingOnlyByRetry

-----------------------------------------------------------------------------
(* Refinement: the ERP sync implements VoucherDelivery *)

LEMMA PromiseInit == Init => Promise!Init
<1> SUFFICES ASSUME Init PROVE Promise!Init
  OBVIOUS
<1>1. Outcome("absent") = "none"
  BY DEF Outcome
<1>2. outcomeBar = [j \in Jobs |-> "none"]
  BY <1>1 DEF Init, outcomeBar
<1>3. deliveredBar = {}
  BY DEF Init, deliveredBar
<1>4. resolved = {}
  BY DEF Init
<1>5. QED
  BY <1>2, <1>3, <1>4 DEF Promise!Init

\* Steps that touch neither the status nor the ERP nor the operator's mark.
LEMMA PromiseStutter ==
    ASSUME UNCHANGED <<status, posted, resolved>> PROVE UNCHANGED Promise!vars
BY DEF Promise!vars, outcomeBar, deliveredBar

\* A row that exists and changes its status to one of those that mean "open".
LEMMA PromiseReopen ==
    ASSUME TypeOK, NEW j \in Jobs, status[j] # "absent",
           NEW s \in {"pending", "failed"},
           status' = [status EXCEPT ![j] = s], UNCHANGED <<posted, resolved>>
    PROVE  Promise!Reopen(j)
BY DEF TypeOK, Promise!Reopen, Promise!Accepted, outcomeBar, deliveredBar, Outcome

LEMMA PromiseGiveUp ==
    ASSUME TypeOK, NEW j \in Jobs, status[j] # "absent",
           status' = [status EXCEPT ![j] = "failed_permanent"],
           UNCHANGED <<posted, resolved>>
    PROVE  Promise!GiveUp(j)
BY DEF TypeOK, Promise!GiveUp, Promise!Accepted, outcomeBar, deliveredBar, Outcome

LEMMA PromiseAcknowledge ==
    ASSUME TypeOK, NEW j \in Jobs, posted[j] > 0,
           status' = [status EXCEPT ![j] = "acknowledged"],
           UNCHANGED <<posted, resolved>>
    PROVE  Promise!Acknowledge(j)
BY DEF TypeOK, Promise!Acknowledge, outcomeBar, deliveredBar, Outcome

\* A push delivers the job, or leaves everything alone.
LEMMA PromiseDeliver ==
    ASSUME TypeOK, NEW j \in Jobs, status[j] # "absent", NEW verdict,
           PushVoucher(j, verdict), UNCHANGED <<status, resolved>>
    PROVE  Promise!Deliver(j) \/ UNCHANGED Promise!vars
<1>1. CASE posted' = posted
  BY <1>1, PromiseStutter
<1>2. CASE posted' = [posted EXCEPT ![j] = IF @ < 2 THEN @ + 1 ELSE @]
  <2>1. Outcome(status[j]) # "none"
    BY DEF Outcome
  <2>2. outcomeBar[j] # "none" /\ outcomeBar' = outcomeBar
    BY <2>1 DEF outcomeBar
  <2>3. posted'[j] > 0 /\ \A k \in Jobs \ {j} : posted'[k] = posted[k]
    BY <1>2 DEF TypeOK
  <2>4. deliveredBar' = deliveredBar \cup {j}
    BY <2>3 DEF deliveredBar
  <2>5. QED
    BY <2>2, <2>4 DEF Promise!Deliver, Promise!Accepted
<1>3. QED
  BY <1>1, <1>2 DEF PushVoucher

LEMMA PromiseStep == ASSUME IInv, [Next]_vars PROVE [Promise!Next]_(Promise!vars)
<1> USE DEF rowVars, queueVars, agentVars
<1>0. TypeOK /\ PostedHasRow /\ WorkerHonest /\ PayloadHonest /\ AgentOnlyReposts
  BY DEF IInv
<1>1. ASSUME NEW j \in Jobs,
             WebStep(j) \/ LoseMessage(j) \/ Sweep(j) \/ OperatorStep(j)
      PROVE  [Promise!Next]_(Promise!vars)
  <2>1. CASE EnqueueTallyJob(j)
    <3>1. Promise!Accept(j)
      BY <1>0, <2>1 DEF EnqueueTallyJob, TypeOK, Promise!Accept, Promise!Accepted,
                        outcomeBar, deliveredBar, Outcome
    <3>2. QED
      BY <3>1 DEF Promise!Next
  <2>2. CASE Resolve(j)
    <3>1. Promise!Waive(j)
      BY <1>0, <2>2 DEF Resolve, TypeOK, Promise!Waive, Promise!Accepted,
                        outcomeBar, deliveredBar, Outcome
    <3>2. QED
      BY <3>1 DEF Promise!Next
  <2>3. CASE \/ Finalize(j) \/ DelayFirst(j) \/ LoseHook(j) \/ LoseMessage(j)
             \/ Sweep(j) \/ RequestRetry(j)
    <3>1. UNCHANGED <<status, posted, resolved>>
      BY <2>3 DEF Finalize, DelayFirst, LoseHook, LoseMessage, Sweep, RequestRetry
    <3>2. QED
      BY <3>1, PromiseStutter
  <2>4. QED
    BY <1>1, <2>1, <2>2, <2>3 DEF WebStep, OperatorStep
<1>2. ASSUME NEW w \in Workers, WorkerStep(w)
      PROVE  [Promise!Next]_(Promise!vars)
  <2>1. ASSUME NEW j \in Jobs, TakeRetry(w, j) PROVE Promise!Reopen(j)
    <3>1. status[j] # "absent"
      BY <1>0, <2>1 DEF TakeRetry, PostedHasRow
    <3>2. QED
      BY <1>0, <2>1, <3>1, PromiseReopen DEF TakeRetry
  <2>2. CASE WorkerPush(w)
    <3>1. worker[w].job \in Jobs /\ status[worker[w].job] # "absent"
      BY <1>0, <2>2 DEF WorkerPush, TypeOK, PostedHasRow
    <3>2. PICK verdict \in {"ok", "failed"} : PushVoucher(worker[w].job, verdict)
      BY <2>2 DEF WorkerPush
    <3>3. UNCHANGED <<status, resolved>>
      BY <2>2 DEF WorkerPush
    <3>4. QED
      BY <1>0, <3>1, <3>2, <3>3, PromiseDeliver DEF Promise!Next
  <2>3. CASE WorkerSave(w)
    <3>1. worker[w].job \in Jobs /\ status[worker[w].job] # "absent"
      BY <1>0, <2>3 DEF WorkerSave, TypeOK, PostedHasRow
    <3>2. UNCHANGED <<posted, resolved>>
      BY <2>3 DEF WorkerSave
    <3>3. CASE worker[w].verdict = "ok"
      <4>1. Promise!Acknowledge(worker[w].job)
        BY <1>0, <2>3, <3>1, <3>2, <3>3, PromiseAcknowledge DEF WorkerSave, WorkerHonest
      <4>2. QED
        BY <3>1, <4>1 DEF Promise!Next
    <3>4. CASE worker[w].verdict = "failed"
      <4>1. Promise!Reopen(worker[w].job) \/ Promise!GiveUp(worker[w].job)
        BY <1>0, <2>3, <3>1, <3>2, <3>4, PromiseReopen, PromiseGiveUp
           DEF WorkerSave, MarkFailed
      <4>2. QED
        BY <3>1, <4>1 DEF Promise!Next
    <3>5. CASE worker[w].verdict = "unknown"
      <4>1. Promise!GiveUp(worker[w].job)
        BY <1>0, <2>3, <3>1, <3>2, <3>5, PromiseGiveUp DEF WorkerSave
      <4>2. QED
        BY <3>1, <4>1 DEF Promise!Next
    <3>6. QED
      BY <2>3, <3>3, <3>4, <3>5 DEF WorkerSave
  <2>4. CASE \/ \E j \in Jobs : TakeJob(w, j)
             \/ DelayRetry(w) \/ WorkerSaveDoc(w) \/ WorkerCrash(w)
    <3>1. UNCHANGED <<status, posted, resolved>>
      BY <2>4 DEF TakeJob, DelayRetry, WorkerSaveDoc, WorkerCrash
    <3>2. QED
      BY <3>1, PromiseStutter
  <2>5. QED
    BY <1>2, <2>1, <2>2, <2>3, <2>4 DEF WorkerStep, Promise!Next
<1>3. ASSUME AgentStep PROVE [Promise!Next]_(Promise!vars)
  <2>1. ASSUME NEW j \in Jobs, AgentPush(j) PROVE [Promise!Next]_(Promise!vars)
    <3>1. status[j] # "absent"
      BY <1>0, <2>1 DEF AgentPush, PayloadHonest, PostedHasRow
    <3>2. PICK verdict \in {"ok", "failed"} : PushVoucher(j, verdict)
      BY <2>1 DEF AgentPush
    <3>3. UNCHANGED <<status, resolved>>
      BY <2>1 DEF AgentPush
    <3>4. QED
      BY <1>0, <3>1, <3>2, <3>3, PromiseDeliver DEF Promise!Next
  <2>2. CASE \/ AgentPoll \/ AgentReport \/ AgentContinue \/ AgentCrash
             \/ \E j \in Jobs : AgentKeyError(j)
    <3>1. UNCHANGED <<status, posted, resolved>>
      BY <2>2 DEF AgentPoll, AgentReport, AgentContinue, AgentCrash, AgentKeyError
    <3>2. QED
      BY <3>1, PromiseStutter
  <2>3. QED
    BY <1>3, <2>1, <2>2 DEF AgentStep
<1>4. ASSUME NEW r \in reports, ReportStep(r) PROVE [Promise!Next]_(Promise!vars)
  <2>1. CASE WriteReport(r)
    <3>1. r.job \in Jobs /\ posted[r.job] > 0 /\ status[r.job] # "absent"
      BY <1>0 DEF TypeOK, Report, AgentOnlyReposts, PostedHasRow
    <3>2. UNCHANGED <<posted, resolved>>
      BY <2>1 DEF WriteReport
    <3>3. Promise!Acknowledge(r.job) \/ Promise!Reopen(r.job) \/ Promise!GiveUp(r.job)
      BY <1>0, <2>1, <3>1, <3>2, PromiseAcknowledge, PromiseReopen, PromiseGiveUp
         DEF WriteReport, MarkFailed
    <3>4. QED
      BY <3>1, <3>3 DEF Promise!Next
  <2>2. CASE ReadReport(r) \/ WriteReportDoc(r) \/ LoseReport(r)
    <3>1. UNCHANGED <<status, posted, resolved>>
      BY <2>2 DEF ReadReport, WriteReportDoc, LoseReport
    <3>2. QED
      BY <3>1, PromiseStutter
  <2>3. QED
    BY <1>4, <2>1, <2>2 DEF ReportStep
<1>5. CASE ChangeConnection
  BY <1>5, PromiseStutter DEF ChangeConnection
<1>6. CASE UNCHANGED vars
  BY <1>6, PromiseStutter DEF vars
<1>7. QED
  BY <1>1, <1>2, <1>3, <1>4, <1>5, <1>6 DEF Next

\* The tasks, the views and the agent together implement VoucherDelivery:
\* at-least-once delivery, acknowledged only when delivered or waived.
THEOREM SyncImplementsPromise == Spec => ImplementsPromise
<1>1. Spec => [][Promise!Next]_(Promise!vars)
  BY InductiveInvariant, PromiseStep, PTL DEF Spec
<1>2. QED
  BY <1>1, PromiseInit, PTL DEF Spec, ImplementsPromise, Promise!Spec

-----------------------------------------------------------------------------
(* What drives the sync: nobody waits for a message that does not come *)

\* Every connection posts at once, and no message, hook or task is lost.
Undisturbed == (\A c \in Connections : c.immediate) /\ Faults \cap {"web", "broker", "worker"} = {}

InHand(j, w) == worker[w].job = j /\ worker[w].stage \in {"repended", "loaded", "replied"}

\* A pending row has its message at the broker, or a process about to send one or
\* to decide the row.
Attended(j) == hook[j] = "delay" \/ queue[j] > 0 \/ \E w \in Workers : InHand(j, w)

PendingAttended == \A j \in Jobs : status[j] = "pending" => Attended(j)

LEMMA AttendedSteps ==
    ASSUME Undisturbed, TypeOK, PendingAttended, Next
    PROVE  PendingAttended'
<1>1. ASSUME UNCHANGED <<hook, queue, worker>>, \A j \in Jobs : status'[j] = "pending" => status[j] = "pending"
      PROVE  PendingAttended'
  BY <1>1 DEF PendingAttended, Attended, InHand
\* A worker takes up a task or puts it down, and no other row is touched.
<1>2. ASSUME NEW w \in Workers, NEW t, worker' = [worker EXCEPT ![w] = t], UNCHANGED hook,
             NEW i \in Jobs, worker[w].stage = "idle" \/ worker[w].job = i,
             \A j \in Jobs \ {i} : status'[j] = status[j] /\ queue'[j] = queue[j],
             status'[i] = "pending" => Attended(i)'
      PROVE  PendingAttended'
  <2> SUFFICES ASSUME NEW j \in Jobs \ {i}, status[j] = "pending" PROVE Attended(j)'
    BY <1>2 DEF PendingAttended
  <2>1. CASE hook[j] = "delay" \/ queue[j] > 0
    BY <1>2, <2>1 DEF Attended
  <2>2. ASSUME NEW v \in Workers, InHand(j, v) PROVE Attended(j)'
    <3>1. v # w
      BY <1>2, <2>2 DEF InHand
    <3> QED BY <1>2, <2>2, <3>1 DEF InHand, Attended, TypeOK
  <2> QED BY <2>1, <2>2 DEF PendingAttended, Attended
<1>3. ASSUME NEW j \in Jobs PROVE SendTo(queue, j)[j] > 0
  BY DEF SendTo, TypeOK
<1>4. ASSUME NEW j \in Jobs, WebStep(j) \/ LoseMessage(j) \/ Sweep(j) \/ OperatorStep(j)
      PROVE  PendingAttended'
  <2>1. CASE Finalize(j)
    BY <2>1 DEF Finalize, rowVars, queueVars, PendingAttended, Attended, InHand, TypeOK
  <2>2. CASE EnqueueTallyJob(j)
    <3>1. hook'[j] = "delay"
      BY <2>2 DEF EnqueueTallyJob, Undisturbed, TypeOK
    <3>2. \A k \in Jobs \ {j} : status'[k] = status[k] /\ hook'[k] = hook[k]
      BY <2>2 DEF EnqueueTallyJob, TypeOK
    <3> QED BY <2>2, <3>1, <3>2 DEF EnqueueTallyJob, queueVars, PendingAttended, Attended, InHand
  <2>3. CASE DelayFirst(j)
    <3>1. queue'[j] > 0 /\ \A k \in Jobs \ {j} : hook'[k] = hook[k] /\ queue'[k] = queue[k]
      BY <2>3, <1>3 DEF DelayFirst, SendTo, TypeOK
    <3> QED BY <2>3, <3>1 DEF DelayFirst, rowVars, PendingAttended, Attended, InHand
  <2>4. CASE Sweep(j)
    <3>1. queue'[j] > 0 /\ \A k \in Jobs \ {j} : queue'[k] = queue[k]
      BY <2>4, <1>3 DEF Sweep, SendTo, TypeOK
    <3> QED BY <2>4, <3>1 DEF Sweep, rowVars, PendingAttended, Attended, InHand
  <2>5. CASE RequestRetry(j)
    BY <1>1, <2>5 DEF RequestRetry, rowVars
  <2>6. CASE Resolve(j)
    BY <1>1, <2>6 DEF Resolve, queueVars, TypeOK
  <2>7. ~LoseHook(j) /\ ~LoseMessage(j)
    BY DEF LoseHook, LoseMessage, Fault, Undisturbed
  <2> QED BY <1>4, <2>1, <2>2, <2>3, <2>4, <2>5, <2>6, <2>7 DEF WebStep, OperatorStep
<1>5. ASSUME NEW w \in Workers, WorkerStep(w) PROVE PendingAttended'
  <2>1. ASSUME NEW i \in Jobs, TakeRetry(w, i) PROVE PendingAttended'
    <3> DEFINE t == [Idle EXCEPT !.stage = "repended", !.job = i]
    <3>1. t.stage = "repended" /\ t.job = i
      BY DEF Idle
    <3>2. worker' = [worker EXCEPT ![w] = t]
      BY <2>1 DEF TakeRetry
    <3>3. Attended(i)'
      BY <3>1, <3>2 DEF Attended, InHand, TypeOK
    <3> HIDE DEF t
    <3> QED BY <1>2, <2>1, <3>2, <3>3 DEF TakeRetry, TypeOK
  <2>2. ASSUME NEW i \in Jobs, TakeJob(w, i) PROVE PendingAttended'
    <3>1. CASE status[i] \in {"acknowledged", "sent"}
      BY <2>2, <3>1 DEF TakeJob, rowVars, TypeOK, PendingAttended, Attended, InHand
    <3>2. CASE status[i] \notin {"acknowledged", "sent"}
      <4> DEFINE t == [stage |-> IF connection.known THEN "loaded" ELSE "replied", job |-> i,
                       retries |-> retries[i], verdict |-> IF connection.known THEN "none" ELSE "unknown"]
      <4>1. t.stage \in {"loaded", "replied"} /\ t.job = i
        OBVIOUS
      <4>2. worker' = [worker EXCEPT ![w] = t]
        BY <2>2, <3>2 DEF TakeJob
      <4>3. Attended(i)'
        BY <4>1, <4>2 DEF Attended, InHand, TypeOK
      <4> HIDE DEF t
      <4>4. /\ worker[w].stage = "idle" /\ UNCHANGED <<hook, status>>
            /\ \A j \in Jobs \ {i} : queue'[j] = queue[j]
        BY <2>2 DEF TakeJob, rowVars, TypeOK
      <4> QED BY <1>2, <4>2, <4>3, <4>4
    <3> QED BY <3>1, <3>2
  <2> DEFINE i == worker[w].job
  <2>3. CASE DelayRetry(w)
    <3>1. PICK k \in Jobs : k = worker[w].job
      BY <2>3 DEF DelayRetry, TypeOK
    <3>2. queue'[k] > 0 /\ \A j \in Jobs \ {k} : queue'[j] = queue[j]
      BY <2>3, <3>1, <1>3 DEF DelayRetry, SendTo, TypeOK
    <3>3. /\ worker' = [worker EXCEPT ![w] = Idle] /\ UNCHANGED <<hook, status>>
          /\ Attended(k)'
      BY <2>3, <3>2 DEF DelayRetry, rowVars, Attended
    <3> QED BY <1>2, <3>1, <3>2, <3>3
  <2>4. CASE WorkerPush(w)
    <3>1. PICK verdict \in {"ok", "failed"} : worker' = [worker EXCEPT ![w].stage = "replied", ![w].verdict = verdict]
      BY <2>4 DEF WorkerPush
    <3>2. \A v \in Workers : worker'[v].job = worker[v].job
                             /\ (worker[v].stage = "loaded" => worker'[v].stage \in {"loaded", "replied"})
                             /\ (worker[v].stage # "loaded" => worker'[v].stage = worker[v].stage)
      BY <2>4, <3>1 DEF WorkerPush, TypeOK, Task
    <3>3. UNCHANGED <<hook, status, queue>>
      BY <2>4 DEF WorkerPush, rowVars, queueVars
    <3>4. \A j \in Jobs, v \in Workers : InHand(j, v) => InHand(j, v)'
      BY <3>2 DEF InHand
    <3> QED BY <3>3, <3>4 DEF PendingAttended, Attended
  <2>5. CASE WorkerSave(w)
    <3>1. i \in Jobs /\ status'[i] # "pending" /\ \A j \in Jobs \ {i} : status'[j] = status[j]
      BY <2>5 DEF WorkerSave, MarkFailed, TypeOK, Task
    <3>2. UNCHANGED <<hook, queue>>
      BY <2>5 DEF WorkerSave, queueVars
    <3>3. \E t : worker' = [worker EXCEPT ![w] = t]
      <4>1. worker' = [worker EXCEPT ![w] = [worker[w] EXCEPT !.stage = "saved"]] \/ worker' = [worker EXCEPT ![w] = Idle]
        BY <2>5 DEF WorkerSave, TypeOK
      <4> QED BY <4>1
    <3> HIDE DEF i
    <3>4. worker[w].job = i
      BY DEF i
    <3> QED BY <1>2, <3>1, <3>2, <3>3, <3>4
  <2>6. CASE WorkerSaveDoc(w)
    <3>1. UNCHANGED <<hook, status, queue>> /\ worker' = [worker EXCEPT ![w] = Idle] /\ worker[w].stage = "saved"
      BY <2>6 DEF WorkerSaveDoc, queueVars
    <3>2. \A j \in Jobs, v \in Workers : InHand(j, v) => InHand(j, v)'
      BY <3>1 DEF InHand, TypeOK
    <3> QED BY <3>1, <3>2 DEF PendingAttended, Attended
  <2>7. ~WorkerCrash(w)
    BY DEF WorkerCrash, Fault, Undisturbed
  <2> QED BY <1>5, <2>1, <2>2, <2>3, <2>4, <2>5, <2>6, <2>7 DEF WorkerStep
<1>6. ASSUME AgentStep \/ ChangeConnection PROVE PendingAttended'
  BY <1>1, <1>6 DEF AgentStep, AgentPoll, AgentPush, AgentKeyError, AgentReport, AgentContinue, AgentCrash,
                    ChangeConnection, rowVars, queueVars
<1>7. ASSUME NEW r \in reports, ReportStep(r) PROVE PendingAttended'
  <2>1. CASE WriteReport(r)
    BY <1>1, <2>1 DEF WriteReport, MarkFailed, queueVars, TypeOK, Report
  <2>2. CASE ReadReport(r) \/ WriteReportDoc(r) \/ LoseReport(r)
    BY <1>1, <2>2 DEF ReadReport, WriteReportDoc, LoseReport, rowVars, queueVars
  <2> QED BY <1>7, <2>1, <2>2 DEF ReportStep
<1> QED BY <1>4, <1>5, <1>6, <1>7 DEF Next

\* enqueue_tally_job and retry_sync_job make a row pending before they send its
\* message: unless a hook, a message or a task is lost, or the connection is left to
\* the agent, no row is pending with nobody to process it, whatever workers, operators
\* and late reports do.  (requeue_stale_pending_jobs would not find such a row.)
THEOREM NobodyForgotten ==
    ASSUME Undisturbed
    PROVE  Spec => []PendingAttended
<1>1. Init => PendingAttended
  BY DEF Init, PendingAttended
<1>2. TypeOK /\ PendingAttended /\ [Next]_vars => PendingAttended'
  <2>1. ASSUME PendingAttended, UNCHANGED vars PROVE PendingAttended'
    BY <2>1 DEF vars, PendingAttended, Attended, InHand
  <2> QED BY <2>1, AttendedSteps
<1> QED BY <1>1, <1>2, TypeCorrect, PTL DEF Spec

-----------------------------------------------------------------------------
(* What makes a document go to the ERP twice *)

\* One worker, no lost answer of the ERP, no killed task and no operator.
OneAtATime ==
    /\ \A v, w \in Workers : v = w
    /\ Faults \cap {"erp", "worker"} = {}
    /\ MaxManual = 0

Answered(j, w) == worker[w].stage = "replied" /\ worker[w].job = j /\ worker[w].verdict = "ok"

\* Nobody asks for a retry and the agent is never given a payload; the worker holds
\* no acknowledged row; what was posted is acknowledged, or about to be.
RowsFresh ==
    /\ \A j \in Jobs : payload[j] => status[j] = "acknowledged"
    /\ \A w \in Workers :
          worker[w].stage \in {"loaded", "replied"} => status[worker[w].job] # "acknowledged"

PostedSeen ==
    \A j \in Jobs :
        /\ posted[j] < 2
        /\ posted[j] = 1 => status[j] = "acknowledged" \/ \E w \in Workers : Answered(j, w)

AgentUnfed == reports = {} /\ agent.stage \in {"idle", "working"} /\ agent.ready = {}

NoRetries == retryq = {} /\ \A w \in Workers : worker[w].stage # "repended"

OnceInv == AgentUnfed /\ NoRetries /\ RowsFresh /\ PostedSeen

LEMMA OnceSteps ==
    ASSUME OneAtATime, TypeOK, OnceInv, Next
    PROVE  OnceInv'
<1> USE DEF OnceInv
<1>1. ASSUME NEW j \in Jobs, WebStep(j) \/ LoseMessage(j) \/ Sweep(j) \/ OperatorStep(j)
      PROVE  OnceInv'
  <2>1. CASE EnqueueTallyJob(j)
    <3>1. /\ status[j] = "absent" /\ status'[j] = "pending" /\ \A k \in Jobs \ {j} : status'[k] = status[k]
          /\ UNCHANGED <<payload, posted, retryq, worker, agent, reports>>
      BY <2>1 DEF EnqueueTallyJob, queueVars, agentVars, TypeOK
    <3>2. \A k \in Jobs : status[k] = "acknowledged" => status'[k] = "acknowledged"
      BY <3>1
    <3>3. \A k \in Jobs : status'[k] = "acknowledged" => status[k] = "acknowledged"
      BY <3>1
    <3>4. \A w \in Workers : worker[w].stage \in {"loaded", "replied"} => worker[w].job \in Jobs
      BY DEF TypeOK
    <3>5. RowsFresh'
      BY <3>1, <3>2, <3>3, <3>4 DEF RowsFresh
    <3>6. PostedSeen'
      BY <3>1, <3>2 DEF PostedSeen, Answered
    <3> QED BY <3>1, <3>5, <3>6 DEF AgentUnfed, NoRetries
  <2>2. ~OperatorStep(j)
    BY DEF OperatorStep, RequestRetry, Resolve, OneAtATime, TypeOK
  <2>3. CASE Finalize(j) \/ DelayFirst(j) \/ LoseHook(j) \/ LoseMessage(j) \/ Sweep(j)
    <3>1. UNCHANGED <<status, payload, posted, retryq, worker, agent, reports>>
      BY <2>3 DEF Finalize, DelayFirst, LoseHook, LoseMessage, Sweep, rowVars, queueVars, agentVars
    <3> QED BY <3>1 DEF AgentUnfed, NoRetries, RowsFresh, PostedSeen, Answered
  <2> QED BY <1>1, <2>1, <2>2, <2>3 DEF WebStep
<1>2. ASSUME NEW w \in Workers, WorkerStep(w) PROVE OnceInv'
  <2>0. \A v \in Workers : v = w
    BY DEF OneAtATime
  <2>1. ASSUME NEW j \in Jobs PROVE ~TakeRetry(w, j)
    BY DEF TakeRetry, NoRetries
  <2>2. ASSUME NEW j \in Jobs, TakeJob(w, j) PROVE OnceInv'
    <3>1. /\ UNCHANGED <<status, payload, posted, retryq, agent, reports>> /\ worker[w].stage = "idle"
          /\ \/ worker' = worker
             \/ /\ worker'[w].stage \in {"loaded", "replied"} /\ worker'[w].job = j
                /\ status[j] # "acknowledged"
      BY <2>2 DEF TakeJob, rowVars, agentVars, TypeOK
    <3>2. \A k \in Jobs, v \in Workers : ~Answered(k, v)
      BY <2>0, <3>1 DEF Answered
    <3> QED BY <2>0, <3>1, <3>2 DEF AgentUnfed, NoRetries, RowsFresh, PostedSeen
  <2>3. ~DelayRetry(w)
    BY DEF DelayRetry, NoRetries
  <2>4. CASE WorkerPush(w)
    <3>1. PICK k \in Jobs : k = worker[w].job
      BY <2>4 DEF WorkerPush, TypeOK
    <3>2. PICK verdict \in {"ok", "failed"} :
              /\ PushVoucher(k, verdict)
              /\ worker' = [worker EXCEPT ![w].stage = "replied", ![w].verdict = verdict]
      BY <2>4, <3>1 DEF WorkerPush
    <3>3. /\ worker'[w].stage = "replied" /\ worker'[w].job = k /\ worker'[w].verdict = verdict
          /\ UNCHANGED <<status, payload, retryq, agent, reports>> /\ worker[w].stage = "loaded"
      BY <2>4, <3>1, <3>2 DEF WorkerPush, rowVars, queueVars, agentVars, TypeOK, Task
    <3>4. \A j \in Jobs, v \in Workers : ~Answered(j, v)
      BY <2>0, <3>3 DEF Answered
    <3>5. status[k] # "acknowledged" /\ posted[k] = 0
      BY <3>1, <3>3, <3>4 DEF RowsFresh, PostedSeen, TypeOK
    <3>6. \A j \in Jobs : posted'[j] = IF j = k /\ verdict = "ok" THEN 1 ELSE posted[j]
      BY <3>2, <3>5 DEF PushVoucher, Fault, OneAtATime, TypeOK
    <3>7. PostedSeen'
      <4> SUFFICES ASSUME NEW j \in Jobs, posted'[j] = 1
                   PROVE  status'[j] = "acknowledged" \/ \E v \in Workers : Answered(j, v)'
        BY <3>6 DEF PostedSeen
      <4>1. CASE j = k
        <5>1. verdict = "ok"
          BY <3>5, <3>6, <4>1
        <5>2. Answered(j, w)'
          BY <3>3, <4>1, <5>1 DEF Answered
        <5> QED BY <5>2
      <4>2. CASE j # k
        BY <3>3, <3>4, <3>6, <4>2 DEF PostedSeen
      <4> QED BY <4>1, <4>2
    <3>8. AgentUnfed' /\ NoRetries' /\ RowsFresh'
      BY <2>0, <3>3, <3>5 DEF AgentUnfed, NoRetries, RowsFresh
    <3> QED BY <3>7, <3>8
  <2>5. CASE WorkerSave(w)
    <3>1. PICK k \in Jobs : k = worker[w].job
      BY <2>5 DEF WorkerSave, TypeOK
    <3>2. /\ UNCHANGED <<posted, retryq, agent, reports>> /\ worker[w].stage = "replied"
          /\ worker'[w].stage \in {"idle", "saved"} /\ status[k] # "acknowledged"
          /\ \A j \in Jobs \ {k} : status'[j] = status[j] /\ payload'[j] = payload[j]
          /\ \/ worker[w].verdict = "ok" /\ status'[k] = "acknowledged"
             \/ worker[w].verdict # "ok" /\ payload' = payload
      BY <2>5, <3>1 DEF WorkerSave, MarkFailed, queueVars, agentVars, TypeOK, Task, Idle, RowsFresh
    <3>3. \A j \in Jobs \ {k}, v \in Workers : ~Answered(j, v)
      BY <2>0, <3>1 DEF Answered
    <3>4. RowsFresh'
      BY <2>0, <3>1, <3>2 DEF RowsFresh
    <3>5. PostedSeen'
      <4> SUFFICES ASSUME NEW j \in Jobs, posted[j] = 1 PROVE status'[j] = "acknowledged"
        BY <3>2 DEF PostedSeen
      <4>1. CASE j = k
        <5>1. PICK v \in Workers : Answered(j, v)
          BY <3>2, <4>1 DEF PostedSeen
        <5> QED BY <2>0, <3>2, <4>1, <5>1 DEF Answered
      <4>2. CASE j # k
        BY <3>2, <3>3, <4>2 DEF PostedSeen
      <4> QED BY <4>1, <4>2
    <3>6. AgentUnfed' /\ NoRetries'
      BY <2>0, <3>2 DEF AgentUnfed, NoRetries
    <3> QED BY <3>4, <3>5, <3>6
  <2>6. CASE WorkerSaveDoc(w)
    <3>1. /\ UNCHANGED <<status, payload, posted, retryq, agent, reports>>
          /\ worker[w].stage = "saved" /\ worker'[w].stage = "idle"
      BY <2>6 DEF WorkerSaveDoc, queueVars, agentVars, TypeOK, Idle
    <3>2. \A j \in Jobs, v \in Workers : ~Answered(j, v)
      BY <2>0, <3>1 DEF Answered
    <3> QED BY <2>0, <3>1, <3>2 DEF AgentUnfed, NoRetries, RowsFresh, PostedSeen
  <2>7. ~WorkerCrash(w)
    BY DEF WorkerCrash, Fault, OneAtATime
  <2> QED BY <1>2, <2>1, <2>2, <2>3, <2>4, <2>5, <2>6, <2>7 DEF WorkerStep
<1>3. ASSUME AgentStep PROVE OnceInv'
  <2>1. UNCHANGED <<status, payload, posted, retryq, worker, reports>> /\ AgentUnfed'
    <3>1. CASE AgentPoll
      <4>1. {j \in Jobs : status[j] = "pending" /\ payload[j]} = {}
        BY DEF RowsFresh
      <4>2. agent'.stage = "working" /\ agent'.ready = {}
        BY <3>1, <4>1 DEF AgentPoll, Restarted
      <4> QED BY <3>1, <4>2 DEF AgentPoll, rowVars, queueVars, AgentUnfed
    <3>2. ASSUME NEW j \in Jobs PROVE ~AgentPush(j) /\ ~AgentReport /\ ~AgentContinue
      BY DEF AgentPush, AgentReport, AgentContinue, AgentUnfed
    <3>3. ~AgentReport /\ ~AgentContinue
      BY DEF AgentReport, AgentContinue, AgentUnfed
    <3>4. ASSUME NEW j \in Jobs, AgentKeyError(j) \/ AgentCrash
          PROVE  UNCHANGED <<status, payload, posted, retryq, worker, reports>> /\ AgentUnfed'
      BY <3>4 DEF AgentKeyError, AgentCrash, Restarted, rowVars, queueVars, AgentUnfed
    <3>5. CASE AgentCrash
      BY <3>5 DEF AgentCrash, Restarted, rowVars, queueVars, AgentUnfed
    <3> QED BY <1>3, <3>1, <3>2, <3>3, <3>4, <3>5 DEF AgentStep
  <2> QED BY <2>1 DEF NoRetries, RowsFresh, PostedSeen, Answered
<1>4. CASE ChangeConnection
  BY <1>4 DEF ChangeConnection, rowVars, queueVars, agentVars, AgentUnfed, NoRetries, RowsFresh, PostedSeen, Answered
<1>5. ASSUME NEW r \in reports PROVE FALSE
  BY DEF AgentUnfed
<1> QED BY <1>1, <1>2, <1>3, <1>4, <1>5 DEF Next

\* Invoice.erp_voucher_id and SyncLogEntry promise that a document is never posted
\* twice.  It is kept with one worker, an ERP whose answers arrive, no killed task and
\* no retry by hand, whatever messages are lost or doubled by the sweep, whatever the
\* agent polls, and however the connection changes: only an overlap, a lost answer or
\* a repetition breaks it.
THEOREM PostedAtMostOnce ==
    ASSUME OneAtATime
    PROVE  Spec => []NoDuplicatePosting
<1>1. Init => OnceInv
  BY DEF Init, OnceInv, AgentUnfed, NoRetries, RowsFresh, PostedSeen, Restarted, Idle
<1>2. TypeOK /\ OnceInv /\ [Next]_vars => OnceInv'
  <2>1. ASSUME OnceInv, UNCHANGED vars PROVE OnceInv'
    BY <2>1 DEF vars, OnceInv, AgentUnfed, NoRetries, RowsFresh, PostedSeen, Answered
  <2> QED BY <2>1, OnceSteps
<1>3. OnceInv => NoDuplicatePosting
  BY DEF OnceInv, PostedSeen, NoDuplicatePosting
<1> QED BY <1>1, <1>2, <1>3, TypeCorrect, PTL DEF Spec
=============================================================================
