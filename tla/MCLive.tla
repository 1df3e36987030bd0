------------------------------- MODULE MCLive -------------------------------
(***************************************************************************)
(* ErpSync and MobilePush under the fairness of their schedulers.  They    *)
(* share no variable: a behaviour is one of the two, named by focus, and   *)
(* the fairness is asked of the steps of that one.                         *)
(***************************************************************************)
EXTENDS ErpSync, TLC

CONSTANTS trip, visit, NoRecord

VARIABLES focus, pushStatus, version, cycle, call, row, log, permitted, device, mishaps

Realtime == [immediate |-> TRUE, known |-> TRUE]
OnlyRealtime == {Realtime}
OneJob == {1}

\* A trip and the visit recorded on it; one cycle after the other, two mishaps:
\* requests outlive their cycle.
Push == INSTANCE MobilePush
    WITH status <- pushStatus, Records <- {trip, visit},
         Kind <- (trip :> "trip") @@ (visit :> "trip_checkpoint"),
         Parent <- (trip :> NoRecord) @@ (visit :> trip),
         Cycles <- {1}, Slots <- {1, 2}, MaxMishaps <- 2

pushV == <<pushStatus, version, cycle, call, row, log, permitted, device, mishaps>>
liveVars == <<focus, vars, pushV>>

LiveInit == focus \in {"erp", "push"} /\ Init /\ Push!Init

ErpStep  == focus = "erp"  /\ Next      /\ UNCHANGED <<focus, pushStatus, version, cycle, call, row,
                                                        log, permitted, device, mishaps>>
PushStep == focus = "push" /\ Push!Next /\ UNCHANGED <<focus, connection, hook, status, retries,
                                                        payload, doc, posted, resolved, queue, retryq,
                                                        worker, agent, reports, faults, manuals>>

LiveNext == ErpStep \/ PushStep

ErpFairness ==
    /\ \A j \in Jobs :
          /\ WF_vars(focus = "erp" /\ EnqueueTallyJob(j))
          /\ WF_vars(focus = "erp" /\ DelayFirst(j))
          /\ WF_vars(focus = "erp" /\ Sweep(j))
          /\ SF_vars(focus = "erp" /\ \E w \in Workers : TakeRetry(w, j))
          /\ SF_vars(focus = "erp" /\ \E w \in Workers : TakeJob(w, j))
    /\ \A w \in Workers :
          WF_vars(focus = "erp" /\ (DelayRetry(w) \/ WorkerPush(w) \/ WorkerSave(w) \/ WorkerSaveDoc(w)))
    /\ WF_vars(focus = "erp" /\ (AgentPoll \/ AgentReport \/ AgentContinue
                                 \/ \E j \in Jobs : AgentPush(j) \/ AgentKeyError(j)))
    /\ WF_vars(focus = "erp" /\ \E r \in reports : ReadReport(r) \/ WriteReport(r) \/ WriteReportDoc(r))

PushFairness ==
    /\ WF_pushV(focus = "push" /\ Push!StartSync(1))
    /\ WF_pushV(focus = "push" /\ Push!Continue(1))
    /\ \A q \in {1, 2} : WF_pushV(focus = "push" /\ Push!Serve(q))

LiveSpec == LiveInit /\ [][LiveNext]_liveVars /\ ErpFairness /\ PushFairness
-----------------------------------------------------------------------------
\* ErpSync: every document handed over is in the end acknowledged or given up.
\* Stated as EveryJobDecided in ErpSync.
JobsDecided == focus = "erp" => EveryJobDecided

\* MobilePush: the records that refer to no other reach the server.
\* Stated as RootsDelivered in MobilePush.
RootsDelivered == focus = "push" => Push!RootsDelivered
=============================================================================
