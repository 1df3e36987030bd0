--------------------------- MODULE ChangeRequests ---------------------------
(***************************************************************************)
(* Governance of settings (backend/apps/governance): a change of governed  *)
(* fields is proposed, and approved or rejected by someone else.  Review   *)
(* is a sequence of unlocked statements: read the request, read the        *)
(* target, save its changed fields, save the request; calls overlap and    *)
(* die between any two.  A role is a target too: its permissions decide    *)
(* who may propose and approve.                                            *)
(***************************************************************************)
EXTENDS Naturals, Sequences

CONSTANTS Users, RoleOf,     \* RoleOf[u]: the role of the user, one of Targets
          Targets, KindOf,   \* rows of the governed models, and their model
          Proposals,         \* what may be proposed: [target, changes]
          Reviewers,         \* calls served at a time
          NoUser, NoRequest,
          MaxRequests, MaxReviews \* bounds: change requests, review calls

ASSUME ProposalsName == \A p \in Proposals : p.target \in Targets

VARIABLES
    value,    \* value[t]: the fields of the target
    change,   \* the ChangeRequest rows: [target, changes, status, by, reviewer]
    review,   \* review[w]: the approve or reject being served
    applied,  \* indexes of the changes applied, in that order
    reviews

changeVars == <<value, change, review, applied, reviews>>

NoReview == [stage |-> "idle", of |-> NoRequest, by |-> NoUser, copy |-> <<>>]

\* The fields each application registers, with the handler that saves them.
RoleFields            == {"permissions", "is_active"}
CompanyFields         == {"legal_name", "display_name", "fy_start_month", "is_active", "upi_vpa"}
GstRegistrationFields == {"state", "gstin", "address_line1", "address_line2", "city", "pincode", "is_default"}
ErpConnectionFields   == {"erp_type", "sync_mode", "batch_interval_minutes", "is_active"}
WebhookFields         == {"name", "url", "event_types", "is_active"}
GatewayFields         == {"sms_gateway_url", "whatsapp_phone_number_id"}
TemplateFields        == {"title_template", "body_template"}
PaymentGatewayFields  == {"gateway_type", "is_active"}
EwayBillFields        == {"threshold_amount", "is_active"}

Governed == [role |-> RoleFields, company |-> CompanyFields, gst_registration |-> GstRegistrationFields,
             erp_connection |-> ErpConnectionFields, webhook |-> WebhookFields, gateway |-> GatewayFields,
             message_template |-> TemplateFields, payment_gateway |-> PaymentGatewayFields,
             eway_bill |-> EwayBillFields]

\* DEFAULT_ROLE_PERMISSIONS, as far as governance goes; the other roles have neither.
DefaultPermission == [super_admin |-> "approve", back_office_admin |-> "approve", system_it_admin |-> "manage"]

\* A row as it was seeded; a role is named by its name.
Seeded(t) == [f \in Governed[KindOf[t]] |->
                 IF f # "permissions" THEN "seeded"
                 ELSE IF t \in DOMAIN DefaultPermission THEN DefaultPermission[t] ELSE "none"]

\* HasRolePermission: managers of master settings propose, approvers also decide.
MayPropose(u) == value[RoleOf[u]]["permissions"] \in {"manage", "approve"}
MayReview(u)  == value[RoleOf[u]]["permissions"] = "approve"

ReviewInit ==
    /\ value = [t \in Targets |-> Seeded(t)]
    /\ change = <<>>
    /\ review = [w \in Reviewers |-> NoReview]
    /\ applied = <<>>
    /\ reviews = 0

\* create(): only registered fields of a registered model, at least one.
Propose(u, p) ==
    /\ MayPropose(u)
    /\ Len(change) < MaxRequests
    /\ DOMAIN p.changes # {}
    /\ DOMAIN p.changes \subseteq Governed[KindOf[p.target]]
    /\ change' = Append(change, [target |-> p.target, changes |-> p.changes,
                                 status |-> "pending", by |-> u, reviewer |-> NoUser])
    /\ UNCHANGED <<value, review, applied, reviews>>

\* approve() and reject() read the request and test that it is pending.
ReadChange(w, u, k, stage) ==
    /\ MayReview(u)
    /\ review[w] = NoReview
    /\ reviews < MaxReviews
    /\ reviews' = reviews + 1
    /\ change[k].status = "pending"
    /\ review' = [review EXCEPT ![w] = [stage |-> stage, of |-> k, by |-> u, copy |-> <<>>]]
    /\ UNCHANGED <<value, change, applied>>

ReadToApprove(w, u, k) == ReadChange(w, u, k, "approve")
ReadToReject(w, u, k)  == ReadChange(w, u, k, "rejected")

\* target = change_request.target
ReadTarget(w) ==
    /\ review[w].stage = "approve"
    /\ review' = [review EXCEPT ![w].stage = "apply", ![w].copy = value[change[review[w].of].target]]
    /\ UNCHANGED <<value, change, applied, reviews>>

\* Mutant of SaveFields: save() of the whole copy.
SaveFields_Whole(current, copy, changes) ==
    [f \in DOMAIN copy |-> IF f \in DOMAIN changes THEN changes[f] ELSE copy[f]]

\* setattr and save(update_fields=fields): only the changed columns are written.
SaveFields(current, copy, changes) ==
    [f \in DOMAIN current |-> IF f \in DOMAIN changes THEN changes[f] ELSE current[f]]

\* The registered handler applies the proposed changes.
ApplyChange(w) ==
    LET k == review[w].of
        t == change[k].target IN
    /\ review[w].stage = "apply"
    /\ value' = [value EXCEPT ![t] = SaveFields(@, review[w].copy, change[k].changes)]
    /\ applied' = Append(applied, k)
    /\ review' = [review EXCEPT ![w].stage = "approved", ![w].copy = <<>>]
    /\ UNCHANGED <<change, reviews>>

\* The decision is saved whatever the status has become meanwhile.
SaveReview(w) ==
    LET r == review[w] IN
    /\ r.stage \in {"approved", "rejected"}
    /\ change' = [change EXCEPT ![r.of].status = r.stage, ![r.of].reviewer = r.by]
    /\ review' = [review EXCEPT ![w] = NoReview]
    /\ UNCHANGED <<value, applied, reviews>>

\* The process dies between two statements.
ReviewDies(w) ==
    /\ review[w] # NoReview
    /\ review' = [review EXCEPT ![w] = NoReview]
    /\ UNCHANGED <<value, change, applied, reviews>>

ReviewNext ==
    \/ \E u \in Users, p \in Proposals : Propose(u, p)
    \/ \E w \in Reviewers, u \in Users, k \in DOMAIN change :
          ReadToApprove(w, u, k) \/ ReadToReject(w, u, k)
    \/ \E w \in Reviewers : ReadTarget(w) \/ ApplyChange(w) \/ SaveReview(w) \/ ReviewDies(w)

ReviewSpec == ReviewInit /\ [][ReviewNext]_changeVars

-----------------------------------------------------------------------------
(* Properties *)

ReviewTypeOK ==
    /\ \A t \in Targets : DOMAIN value[t] = Governed[KindOf[t]]
    /\ \A k \in DOMAIN change :
          /\ change[k].target \in Targets
          /\ change[k].status \in {"pending", "approved", "rejected"}
          /\ change[k].by \in Users /\ change[k].reviewer \in Users \cup {NoUser}
    /\ \A w \in Reviewers :
          /\ review[w].stage \in {"idle", "approve", "apply", "approved", "rejected"}
          /\ review[w].of \in DOMAIN change \cup {NoRequest}
    /\ \A i \in DOMAIN applied : applied[i] \in DOMAIN change
    /\ reviews \in 0..MaxReviews

\* The i-th change applied names field f of target t.
Sets(i, t, f) == change[applied[i]].target = t /\ f \in DOMAIN change[applied[i]].changes

\* A change marked approved was carried out, and no approval undoes what another
\* set in another field: every field of every target has the value that the last
\* applied change naming that field gave it, though reviews of one target overlap,
\* work on copies read earlier and die half way.
ApprovedChangesStand ==
    /\ \A k \in DOMAIN change : change[k].status = "approved" => \E i \in DOMAIN applied : applied[i] = k
    /\ \A t \in Targets : \A f \in DOMAIN value[t] :
          \/ /\ \A i \in DOMAIN applied : ~Sets(i, t, f)
             /\ value[t][f] = Seeded(t)[f]
          \/ \E i \in DOMAIN applied :
                /\ Sets(i, t, f)
                /\ \A j \in DOMAIN applied : j > i => ~Sets(j, t, f)
                /\ value[t][f] = change[applied[i]].changes[f]
=============================================================================
