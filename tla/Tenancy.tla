------------------------------ MODULE Tenancy ------------------------------
(***************************************************************************)
(* Database-per-tenant routing (backend/apps/tenancy).  Provisioning runs  *)
(* through unlocked steps -- test the slug, create the database, insert    *)
(* the Tenant row, migrate, seed -- and may die between any two; the admin *)
(* site edits, adds and deletes rows as it likes; requests resolve a row   *)
(* by its slug, and each worker process registers the database of a        *)
(* connection alias once and never reads it again.                         *)
(* A database stands for its name, host, port and user together.           *)
(***************************************************************************)
EXTENDS Naturals, Sequences, FiniteSets, TLC

CONSTANTS Slugs,
          Databases,              \* names: the default of a slug, or one given
          Workers,                \* processes
          NoDatabase,
          MaxTenants, MaxTenantEdits, MaxRestarts \* bounds

VARIABLES
    tenant,     \* the Tenant rows ever inserted: [slug, db, active, live]
    database,   \* the databases that exist, with their state
    provision,  \* provision[w]: the call to provision_tenant
    registered, \* registered[w][s]: the database behind alias tenant_<s>
    serving,    \* serving[w]: the row resolved for the request, 0 for none
    servedBy,   \* <<row, database>>: where the queries of requests were sent
    known,      \* <<slug, row, database>>: what a row ever had together
    typed,      \* databases that were given to a row in the admin site
    tenantEdits, restarts

tenancyVars == <<tenant, database, provision, registered, serving, servedBy, known, typed, tenantEdits, restarts>>

NoProvision == [stage |-> "idle", slug |-> "", db |-> NoDatabase]
NotServing == [row |-> 0, alias |-> "", db |-> NoDatabase]

TenancyInit ==
    /\ tenant = <<>>
    /\ database = [d \in Databases |-> "absent"]
    /\ provision = [w \in Workers |-> NoProvision]
    /\ registered = [w \in Workers |-> [s \in Slugs |-> NoDatabase]]
    /\ serving = [w \in Workers |-> NotServing]
    /\ servedBy = {} /\ known = {} /\ typed = {}
    /\ tenantEdits = 0 /\ restarts = 0

SlugFree(s) == \A k \in DOMAIN tenant : tenant[k].live => tenant[k].slug # s

Proceed(w, r) == provision' = [provision EXCEPT ![w] = r]

\* validate_slug; the command may name another database than the default.
Validate(w, s, db) ==
    /\ provision[w] = NoProvision /\ serving[w] = NotServing
    /\ SlugFree(s)
    /\ Len(tenant) < MaxTenants
    /\ Proceed(w, [stage |-> "create", slug |-> s, db |-> db])
    /\ UNCHANGED <<tenant, database, registered, serving, servedBy, known, typed, tenantEdits, restarts>>

\* Mutant of DatabaseFree: an existing database is taken over.
DatabaseFree_Reused(db) == TRUE

\* _create_database: a database of that name is refused.
DatabaseFree(db) == database[db] = "absent"

CreateDatabase(w) ==
    LET db == provision[w].db IN
    /\ provision[w].stage = "create"
    /\ IF DatabaseFree(db)
       THEN /\ database' = [database EXCEPT ![db] = "empty"]
            /\ Proceed(w, [provision[w] EXCEPT !.stage = "save"])
       ELSE Proceed(w, NoProvision) /\ UNCHANGED database
    /\ UNCHANGED <<tenant, registered, serving, servedBy, known, typed, tenantEdits, restarts>>

Insert(s, db, active) ==
    /\ tenant' = Append(tenant, [slug |-> s, db |-> db, active |-> active, live |-> TRUE])
    /\ known' = known \cup {<<s, Len(tenant) + 1, db>>}

\* tenant.save(): slug is unique, the loser of a race leaves its database behind.
SaveTenant(w) ==
    LET p == provision[w] IN
    /\ p.stage = "save"
    /\ IF SlugFree(p.slug)
       THEN Insert(p.slug, p.db, TRUE) /\ Proceed(w, [p EXCEPT !.stage = "activate"])
       ELSE Proceed(w, NoProvision) /\ UNCHANGED <<tenant, known>>
    /\ UNCHANGED <<database, registered, serving, servedBy, typed, tenantEdits, restarts>>

\* activate_tenant: the alias is made of the slug and registered only once.
Register(w, s, db) ==
    IF registered[w][s] = NoDatabase THEN [registered EXCEPT ![w][s] = db] ELSE registered

ActivateNew(w) ==
    LET p == provision[w] IN
    /\ p.stage = "activate"
    /\ registered' = Register(w, p.slug, p.db)
    /\ Proceed(w, [p EXCEPT !.stage = "migrate", !.db = registered'[w][p.slug]])
    /\ UNCHANGED <<tenant, database, serving, servedBy, known, typed, tenantEdits, restarts>>

\* migrate, then Role.seed_defaults.
Prepare(w) ==
    LET p == provision[w] IN
    /\ p.stage \in {"migrate", "seed"}
    /\ database' = [database EXCEPT ![p.db] = IF p.stage = "migrate" THEN "migrated" ELSE "seeded"]
    /\ Proceed(w, IF p.stage = "migrate" THEN [p EXCEPT !.stage = "seed"] ELSE NoProvision)
    /\ UNCHANGED <<tenant, registered, serving, servedBy, known, typed, tenantEdits, restarts>>

\* The admin site: a form saves every column of a row, a row is added for any
\* database, there or not and another's or not, or a row is deleted.
AdminCall ==
    /\ tenantEdits < MaxTenantEdits
    /\ tenantEdits' = tenantEdits + 1
    /\ UNCHANGED <<database, provision, registered, serving, servedBy, restarts>>

EditTenant(k, s, db, active) ==
    /\ AdminCall
    /\ tenant[k].live
    /\ s = tenant[k].slug \/ SlugFree(s)
    /\ tenant' = [tenant EXCEPT ![k] = [slug |-> s, db |-> db, active |-> active, live |-> TRUE]]
    /\ known' = known \cup {<<s, k, db>>}
    /\ typed' = IF db = tenant[k].db THEN typed ELSE typed \cup {db}

AddTenant(s, db, active) ==
    /\ AdminCall
    /\ SlugFree(s) /\ Len(tenant) < MaxTenants
    /\ Insert(s, db, active)
    /\ typed' = typed \cup {db}

DeleteTenant(k) ==
    /\ AdminCall
    /\ tenant[k].live
    /\ tenant' = [tenant EXCEPT ![k].live = FALSE]
    /\ UNCHANGED <<known, typed>>

\* TenantResolutionMiddleware finds the active row of the slug ...
Resolve(w, k) ==
    /\ serving[w] = NotServing /\ provision[w] = NoProvision
    /\ tenant[k].live /\ tenant[k].active
    /\ serving' = [serving EXCEPT ![w] = [row |-> k, alias |-> tenant[k].slug, db |-> tenant[k].db]]
    /\ UNCHANGED <<tenant, database, provision, registered, servedBy, known, typed, tenantEdits, restarts>>

\* ... and activates it: all queries of the request go to the alias (db_router).
Serve(w) ==
    LET r == serving[w] IN
    /\ r # NotServing
    /\ registered' = Register(w, r.alias, r.db)
    /\ servedBy' = servedBy \cup {<<r.row, registered'[w][r.alias]>>}
    /\ serving' = [serving EXCEPT ![w] = NotServing]
    /\ UNCHANGED <<tenant, database, provision, known, typed, tenantEdits, restarts>>

\* A worker restarts: its calls end where they are and its aliases are forgotten.
Restart(w) ==
    /\ restarts < MaxRestarts
    /\ restarts' = restarts + 1
    /\ Proceed(w, NoProvision)
    /\ serving' = [serving EXCEPT ![w] = NotServing]
    /\ registered' = [registered EXCEPT ![w] = [s \in Slugs |-> NoDatabase]]
    /\ UNCHANGED <<tenant, database, servedBy, known, typed, tenantEdits>>

TenancyNext ==
    \/ \E w \in Workers :
          \/ \E s \in Slugs : \E db \in Databases : Validate(w, s, db)
          \/ CreateDatabase(w) \/ SaveTenant(w) \/ ActivateNew(w) \/ Prepare(w)
          \/ \E k \in DOMAIN tenant : Resolve(w, k)
          \/ Serve(w) \/ Restart(w)
    \/ \E s \in Slugs, db \in Databases, active \in BOOLEAN :
          AddTenant(s, db, active) \/ \E k \in DOMAIN tenant : EditTenant(k, s, db, active)
    \/ \E k \in DOMAIN tenant : DeleteTenant(k)

TenancySpec == TenancyInit /\ [][TenancyNext]_tenancyVars

-----------------------------------------------------------------------------
(* Properties *)

TenancyTypeOK ==
    /\ \A k \in DOMAIN tenant : tenant[k].slug \in Slugs /\ tenant[k].db \in Databases
    /\ database \in [Databases -> {"absent", "empty", "migrated", "seeded"}]
    /\ \A w \in Workers :
          /\ provision[w].stage \in {"idle", "create", "save", "activate", "migrate", "seed"}
          /\ registered[w] \in [Slugs -> Databases \cup {NoDatabase}]
          /\ serving[w].row \in 0..Len(tenant)
    /\ typed \subseteq Databases
    /\ tenantEdits \in 0..MaxTenantEdits /\ restarts \in 0..MaxRestarts

\* A tenant as provision_tenant makes it: nobody typed its database in by hand, and
\* none of its slugs was another tenant's, before it or after it.
Ordinary(k) ==
    /\ tenant[k].db \notin typed
    /\ \A x, y \in known : x[2] = k /\ y[1] = x[1] => y[2] = k

\* Tenants are kept apart: an ordinary tenant's database was created, no other row
\* names it, its requests go there and nobody else's do, also when it is gone --
\* though provisioning calls race, die half way or start over, other rows are
\* renamed, moved to any database, added, deleted or switched off between resolving
\* and serving, and workers keep what they registered long ago.
TenantsApart ==
    \A k \in DOMAIN tenant : Ordinary(k) =>
       /\ database[tenant[k].db] # "absent"
       /\ \A m \in DOMAIN tenant : tenant[m].db = tenant[k].db => m = k
       /\ \A x \in servedBy : x[1] = k <=> x[2] = tenant[k].db
=============================================================================
