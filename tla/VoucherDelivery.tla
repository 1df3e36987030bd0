--------------------------- MODULE VoucherDelivery ---------------------------
(***************************************************************************)
(* What the ERP sync promises of each document, whoever carries it out: an *)
(* accepted document is delivered at least once before it may be reported  *)
(* as acknowledged, a delivery is never undone, and only an operator may   *)
(* close a document that was not delivered.                                *)
(***************************************************************************)
CONSTANT Jobs

VARIABLES outcome,   \* what the Sync Monitor shows
          delivered, \* the documents the ERP has
          waived     \* the documents an operator took upon himself

vars == <<outcome, delivered, waived>>

Init ==
    /\ outcome = [j \in Jobs |-> "none"]
    /\ delivered = {}
    /\ waived = {}

Accepted(j) == outcome[j] # "none"

Accept(j) ==
    /\ ~Accepted(j)
    /\ outcome' = [outcome EXCEPT ![j] = "open"]
    /\ UNCHANGED <<delivered, waived>>

Deliver(j) ==
    /\ Accepted(j)
    /\ delivered' = delivered \cup {j}
    /\ UNCHANGED <<outcome, waived>>

Acknowledge(j) ==
    /\ j \in delivered
    /\ outcome' = [outcome EXCEPT ![j] = "acknowledged"]
    /\ UNCHANGED <<delivered, waived>>

Waive(j) ==
    /\ Accepted(j)
    /\ outcome' = [outcome EXCEPT ![j] = "acknowledged"]
    /\ waived' = waived \cup {j}
    /\ UNCHANGED delivered

GiveUp(j) ==
    /\ Accepted(j)
    /\ outcome' = [outcome EXCEPT ![j] = "given_up"]
    /\ UNCHANGED <<delivered, waived>>

Reopen(j) ==
    /\ Accepted(j)
    /\ outcome' = [outcome EXCEPT ![j] = "open"]
    /\ UNCHANGED <<delivered, waived>>

Next == \E j \in Jobs : \/ Accept(j) \/ Deliver(j) \/ Acknowledge(j)
                        \/ Waive(j) \/ GiveUp(j) \/ Reopen(j)

Spec == Init /\ [][Next]_vars
=============================================================================
