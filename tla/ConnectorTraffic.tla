-------------------------- MODULE ConnectorTraffic --------------------------
(***************************************************************************)
(* What crosses the border of backend/apps/integrations besides the sync   *)
(* jobs: signed requests of the on-premise agent (authentication.py), and  *)
(* webhooks dispatched after the commit of a document (webhooks.py).  The  *)
(* network may deliver a request again at any later time.  Times are ticks.*)
(***************************************************************************)
EXTENDS Integers

CONSTANTS Nonces,             \* one per request the agent signs
          Window, NonceTTL,   \* SIGNATURE_WINDOW_SECONDS, NONCE_TTL_SECONDS
          Skew,               \* how far the agent's clock is ahead, in ticks
          Documents, Hooks,
          MaxClock, MaxHookChanges \* bounds

\* authentication.py: 300 and 900 seconds.
ASSUME TrafficAssumption ==
    /\ Window \in Nat /\ NonceTTL \in Nat /\ NonceTTL > 2 * Window
    /\ Skew \subseteq Int

VARIABLES
    clock,
    signed,   \* requests sent: [nonce, at], at by the agent's clock
    seen,     \* the nonce cache: [nonce, until]
    served,   \* served[n]: how often a request was let through
    flushed,  \* whether the cache was lost
    hooks,    \* hooks[w]: the Webhook row [active, secret]
    after,    \* after[d]: where the on_commit hooks of the document are
    queue,    \* queue[d]: subscribers still to call, with the secret read
    posted,   \* posted[<<d, w>>]: deliveries that reached the subscriber
    hookLog,  \* the WebhookDeliveryLog rows: <<d, w, status>>
    hookChanges

trafficVars == <<clock, signed, seen, served, flushed, hooks, after, queue, posted, hookLog, hookChanges>>
authVars == <<clock, signed, seen, served, flushed>>
webhookVars == <<hooks, after, queue, posted, hookLog, hookChanges>>

TrafficInit ==
    /\ clock = 0
    /\ signed = {} /\ seen = {}
    /\ served = [n \in Nonces |-> 0]
    /\ flushed = FALSE
    /\ hooks = [w \in Hooks |-> [active |-> TRUE, secret |-> 0]]
    /\ after = [d \in Documents |-> "open"]
    /\ queue = [d \in Documents |-> {}]
    /\ posted = [x \in Documents \X Hooks |-> 0]
    /\ hookLog = {}
    /\ hookChanges = 0

-----------------------------------------------------------------------------
(* Requests of the agent *)

ClockTick ==
    /\ clock < MaxClock
    /\ clock' = clock + 1
    /\ UNCHANGED <<signed, seen, served, flushed, webhookVars>>

\* The agent signs timestamp, nonce, method, path and body.
SignRequest(n) ==
    /\ n \notin {r.nonce : r \in signed}
    /\ \E ahead \in Skew :
          signed' = signed \cup {[nonce |-> n, at |-> clock + ahead]}
    /\ UNCHANGED <<clock, seen, served, flushed, webhookVars>>

InWindow(r) == LET d == clock - r.at IN d <= Window /\ -d <= Window

\* Mutant of Remembered: the cache entry expires too early for a clock that is ahead.
Remembered_Shorter(n) == \E m \in seen : m.nonce = n /\ clock < m.until - 1

Remembered(n) == \E m \in seen : m.nonce = n /\ clock < m.until

\* authenticate(): fresh by its timestamp, and cache.add of the nonce succeeds.
Authenticate(r) ==
    /\ InWindow(r)
    /\ ~Remembered(r.nonce)
    /\ seen' = {m \in seen : m.nonce # r.nonce} \cup {[nonce |-> r.nonce, until |-> clock + NonceTTL]}
    /\ served' = [served EXCEPT ![r.nonce] = @ + 1]
    /\ UNCHANGED <<clock, signed, flushed, webhookVars>>

\* Redis restarts: the cache forgets.
LoseCache ==
    /\ ~flushed /\ seen # {}
    /\ flushed' = TRUE
    /\ seen' = {}
    /\ UNCHANGED <<clock, signed, served, webhookVars>>

-----------------------------------------------------------------------------
(* Webhooks *)

\* PATCH of a webhook, or rotate_secret.
ChangeHook(w) ==
    /\ hookChanges < MaxHookChanges
    /\ hookChanges' = hookChanges + 1
    /\ \/ hooks' = [hooks EXCEPT ![w].active = ~@]
       \/ hooks' = [hooks EXCEPT ![w].secret = hookChanges']
    /\ UNCHANGED <<authVars, after, queue, posted, hookLog>>

\* The transaction commits; its hooks run in the order they were registered:
\* enqueue_tally_job, which raises when the broker is down, so that the second
\* is not run any more, and dispatch_event.
CommitDocument(d) ==
    /\ after[d] = "open"
    /\ after' = [after EXCEPT ![d] = "enqueue"]
    /\ UNCHANGED <<authVars, hooks, queue, posted, hookLog, hookChanges>>

EnqueueTallyJob(d) ==
    /\ after[d] = "enqueue"
    /\ after' \in {[after EXCEPT ![d] = next] : next \in {"dispatch", "over"}}
    /\ UNCHANGED <<authVars, hooks, queue, posted, hookLog, hookChanges>>

\* dispatch_event reads the active subscribers once, with their secrets.
ReadSubscribers(d) ==
    /\ after[d] = "dispatch"
    /\ after' = [after EXCEPT ![d] = "calling"]
    /\ queue' = [queue EXCEPT ![d] = {<<w, hooks[w].secret>> : w \in {v \in Hooks : hooks[v].active}}]
    /\ UNCHANGED <<authVars, hooks, posted, hookLog, hookChanges>>

\* What is left to call: a subscriber is tried once.
Untried(d, x) == queue[d] \ {x}

\* The subscriber answers and success is logged; or it could not be reached, or
\* its answer is late, and failure is logged.
CallHook(d, x) ==
    /\ after[d] = "calling" /\ x \in queue[d]
    /\ \E got, answered \in BOOLEAN :
          /\ answered => got
          /\ posted' = IF got THEN [posted EXCEPT ![<<d, x[1]>>] = @ + 1] ELSE posted
          /\ hookLog' = hookLog \cup {<<d, x[1], IF answered THEN "success" ELSE "failed">>}
    /\ queue' = [queue EXCEPT ![d] = Untried(d, x)]
    /\ UNCHANGED <<authVars, hooks, after, hookChanges>>

\* Another error than URLError and TimeoutError, or the end of the process, leaves
\* this call, received or not, without a log row and the others untried.
BreakOff(d) ==
    /\ after[d] \in {"enqueue", "dispatch", "calling"}
    /\ posted' \in {posted} \cup {[posted EXCEPT ![<<d, x[1]>>] = @ + 1] : x \in queue[d]}
    /\ after' = [after EXCEPT ![d] = "over"]
    /\ queue' = [queue EXCEPT ![d] = {}]
    /\ UNCHANGED <<authVars, hooks, hookLog, hookChanges>>

TrafficNext ==
    \/ ClockTick \/ LoseCache
    \/ \E n \in Nonces : SignRequest(n)
    \/ \E r \in signed : Authenticate(r)
    \/ \E w \in Hooks : ChangeHook(w)
    \/ \E d \in Documents :
          \/ CommitDocument(d) \/ EnqueueTallyJob(d) \/ ReadSubscribers(d) \/ BreakOff(d)
          \/ \E x \in queue[d] : CallHook(d, x)

TrafficSpec == TrafficInit /\ [][TrafficNext]_trafficVars

-----------------------------------------------------------------------------
(* Properties *)

TrafficTypeOK ==
    /\ clock \in 0..MaxClock
    /\ \A r \in signed : r.nonce \in Nonces
    /\ \A m \in seen : m.nonce \in Nonces
    /\ \A w \in Hooks : hooks[w].active \in BOOLEAN
    /\ after \in [Documents -> {"open", "enqueue", "dispatch", "calling", "over"}]
    /\ \A d \in Documents : \A x \in queue[d] : x[1] \in Hooks /\ x[2] \in 0..MaxHookChanges
    /\ hookLog \subseteq Documents \X Hooks \X {"success", "failed"}

\* Nothing crosses the border twice: a request of the agent is served once however
\* often and late the network delivers it and whatever its clock does, as long as
\* the cache of nonces is not lost; a subscriber hears of a document once, only
\* after its commit, and did hear of it when the log says success.
AtMostOnce ==
    /\ \A n \in Nonces : served[n] <= 1 \/ flushed
    /\ \A d \in Documents, w \in Hooks :
          /\ posted[<<d, w>>] <= 1
          /\ posted[<<d, w>>] > 0 => after[d] # "open"
          /\ <<d, w, "success">> \in hookLog => posted[<<d, w>>] = 1
=============================================================================
