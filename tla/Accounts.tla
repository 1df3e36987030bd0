------------------------------ MODULE Accounts ------------------------------
(***************************************************************************)
(* Sign-up, accounts, set-password links and devices (backend/apps/        *)
(* accounts).  A sign-up request is decided by unlocked statements: read   *)
(* it, create the user, grant the role, save the decision, mail the link;  *)
(* two deciders overlap and a call may die between any two.  A link is     *)
(* stateless: it works while the password and last login it was made of    *)
(* are still those of the account.                                         *)
(***************************************************************************)
EXTENDS Naturals, Sequences, SequencesExt, FiniteSetsExt

CONSTANTS Emails, Names,   \* addresses; usernames, of which the address is one
          Roles, NoRole,
          Admins,          \* calls of administrators at a time
          MaxSignups, MaxAdminCalls, MaxChanges \* bounds: requests, calls, password changes

VARIABLES
    signup,   \* the SignupRequest rows: [email, status, user, role]; 0: no user
    user,     \* the User rows: [name, email, roles, password, login, active]
    links,    \* set-password links sent: [user, password, login]
    device,   \* device[u]: whether the user's Device row is active
    admin,    \* admin[a]: the call being served
    adminCalls, changes

accountVars == <<signup, user, links, device, admin, adminCalls, changes>>

NoAdminCall == [stage |-> "idle", k |-> 0, name |-> "", role |-> NoRole, u |-> 0, copy |-> <<>>]

\* A password of 0 is unusable; every other number is a password set once.
NewUser(name, email) ==
    [name |-> name, email |-> email, roles |-> {}, password |-> 0, login |-> 0, active |-> TRUE]

\* default_token_generator: the token is a hash of these columns.
LinkOf(u) == [user |-> u, password |-> user[u].password, login |-> user[u].login]
LinkWorks(l) == l = LinkOf(l.user)

AccountInit ==
    /\ signup = <<>> /\ user = <<>> /\ device = <<>>
    /\ links = {}
    /\ admin = [a \in Admins |-> NoAdminCall]
    /\ adminCalls = 0 /\ changes = 0

\* POST signup-requests, open to everyone.
Submit(e) ==
    /\ Len(signup) < MaxSignups
    /\ signup' = Append(signup, [email |-> e, status |-> "pending", user |-> 0, role |-> NoRole])
    /\ UNCHANGED <<user, links, device, admin, adminCalls, changes>>

BeginAdmin(a, r) ==
    /\ admin[a] = NoAdminCall
    /\ adminCalls < MaxAdminCalls
    /\ adminCalls' = adminCalls + 1
    /\ admin' = [admin EXCEPT ![a] = r]

ToStage(a, stage) == admin' = [admin EXCEPT ![a].stage = stage]
End(a) == admin' = [admin EXCEPT ![a] = NoAdminCall]

\* approve() and reject(): the request is still pending.
ReadSignup(a, k, stage, name, role) ==
    /\ signup[k].status = "pending"
    /\ BeginAdmin(a, [NoAdminCall EXCEPT !.stage = stage, !.k = k, !.name = name, !.role = role])
    /\ UNCHANGED <<signup, user, links, device, changes>>

\* create_user with an unusable password; a username in use is answered 400.
CreateUser(a) ==
    LET taken == \E u \in DOMAIN user : user[u].name = admin[a].name IN
    /\ admin[a].stage = "create"
    /\ IF taken THEN End(a) /\ UNCHANGED <<user, device>>
       ELSE /\ user' = Append(user, NewUser(admin[a].name, signup[admin[a].k].email))
            /\ device' = Append(device, FALSE)
            /\ admin' = [admin EXCEPT ![a].u = Len(user'), ![a].stage = "grant"]
    /\ UNCHANGED <<signup, links, adminCalls, changes>>

\* Mutant of Granted: the role is left for somebody else to grant.
Granted_Later(u, role) == user[u].roles

\* UserRole.objects.create, when the approver chose a role.
Granted(u, role) == user[u].roles \cup ({role} \ {NoRole})

GrantRole(a) ==
    /\ admin[a].stage = "grant"
    /\ user' = [user EXCEPT ![admin[a].u].roles = Granted(admin[a].u, admin[a].role)]
    /\ ToStage(a, "approved")
    /\ UNCHANGED <<signup, links, device, adminCalls, changes>>

\* save(update_fields=...): a rejection leaves created_user as it is.
SaveSignup(a) ==
    LET r == admin[a] IN
    /\ r.stage \in {"approved", "rejected"}
    /\ signup' = [signup EXCEPT ![r.k].status = r.stage,
                                ![r.k].user = IF r.stage = "approved" THEN r.u ELSE @,
                                ![r.k].role = IF r.stage = "approved" THEN r.role ELSE @]
    /\ IF r.stage = "approved" THEN ToStage(a, "mail") ELSE End(a)
    /\ UNCHANGED <<user, links, device, adminCalls, changes>>

\* The link is mailed, or the mail server fails.
MailLink(a) ==
    /\ admin[a].stage = "mail"
    /\ links' \in {links, links \cup {LinkOf(admin[a].u)}}
    /\ End(a)
    /\ UNCHANGED <<signup, user, device, adminCalls, changes>>

\* Forgot password: an active account, whatever its address.
RequestReset(u) ==
    /\ user[u].active
    /\ ~ \E l \in links : l.user = u /\ LinkWorks(l)
    /\ links' = links \cup {LinkOf(u)}
    /\ UNCHANGED <<signup, user, device, admin, adminCalls, changes>>

\* The link is checked and the password saved.
SetPassword(l) ==
    /\ LinkWorks(l)
    /\ changes < MaxChanges
    /\ changes' = changes + 1
    /\ user' = [user EXCEPT ![l.user].password = changes']
    /\ UNCHANGED <<signup, links, device, admin, adminCalls>>

\* A login needs a usable password; it updates last_login (here: the password it
\* was first made with) and registers the device.
Login(u) ==
    /\ user[u].active /\ user[u].password # 0
    /\ user' = [user EXCEPT ![u].login = user[u].password]
    /\ device' = [device EXCEPT ![u] = TRUE]
    /\ UNCHANGED <<signup, links, admin, adminCalls, changes>>

\* deactivate saves is_active, then switches the devices off; activate only saves.
ReadUser(a, u, stage) ==
    /\ stage = "activate" => ~user[u].active
    /\ BeginAdmin(a, [NoAdminCall EXCEPT !.stage = stage, !.u = u, !.copy = user[u]])
    /\ UNCHANGED <<signup, user, links, device, changes>>

SaveActive(a) ==
    LET r == admin[a] IN
    /\ r.stage \in {"deactivate", "activate"}
    /\ user' = [user EXCEPT ![r.u].active = (r.stage = "activate")]
    /\ IF r.stage = "deactivate" THEN ToStage(a, "devices") ELSE End(a)
    /\ UNCHANGED <<signup, links, device, adminCalls, changes>>

SwitchOffDevices(a) ==
    /\ admin[a].stage = "devices"
    /\ device' = [device EXCEPT ![admin[a].u] = FALSE]
    /\ End(a)
    /\ UNCHANGED <<signup, user, links, adminCalls, changes>>

\* PATCH users/<id>: every column of the copy is saved (roles are another table).
SaveUser(a) ==
    LET r == admin[a] IN
    /\ r.stage = "patch"
    /\ user' = [user EXCEPT ![r.u] = [r.copy EXCEPT !.roles = user[r.u].roles]]
    /\ End(a)
    /\ UNCHANGED <<signup, links, device, adminCalls, changes>>

AdminDies(a) ==
    /\ admin[a] # NoAdminCall
    /\ End(a)
    /\ UNCHANGED <<signup, user, links, device, adminCalls, changes>>

AdminStep(a) ==
    \/ CreateUser(a) \/ GrantRole(a) \/ SaveSignup(a) \/ MailLink(a)
    \/ SaveActive(a) \/ SwitchOffDevices(a) \/ SaveUser(a) \/ AdminDies(a)

AccountNext ==
    \/ \E e \in Emails : Submit(e)
    \/ \E a \in Admins, k \in DOMAIN signup :
          \/ ReadSignup(a, k, "rejected", "", NoRole)
          \/ \E n \in Names \cup {signup[k].email}, r \in Roles \cup {NoRole} :
                ReadSignup(a, k, "create", n, r)
    \/ \E a \in Admins : AdminStep(a)
    \/ \E a \in Admins, u \in DOMAIN user, stage \in {"deactivate", "activate", "patch"} :
          ReadUser(a, u, stage)
    \/ \E u \in DOMAIN user : RequestReset(u) \/ Login(u)
    \/ \E l \in links : SetPassword(l)

AccountSpec == AccountInit /\ [][AccountNext]_accountVars

-----------------------------------------------------------------------------
(* Properties *)

AccountTypeOK ==
    /\ \A k \in DOMAIN signup : signup[k].status \in {"pending", "approved", "rejected"}
    /\ Len(device) = Len(user)
    /\ \A u \in DOMAIN user : user[u].roles \subseteq Roles /\ user[u].active \in BOOLEAN
    /\ \A l \in links : l.user \in DOMAIN user
    /\ adminCalls \in 0..MaxAdminCalls /\ changes \in 0..MaxChanges

\* A request that names the account made for it names a whole one, and nobody
\* else's: approved means there is an account, it has the address of the request
\* and the role its approver chose, however approvals and rejections of one
\* request overlap, run into a username in use, or die half way.
ApprovedAccountsWhole ==
    \A k \in DOMAIN signup :
       LET r == signup[k] IN
       /\ r.status = "approved" => r.user # 0
       /\ r.user # 0 => /\ user[r.user].email = r.email
                        /\ {r.role} \ {NoRole} \subseteq user[r.user].roles
       /\ \A m \in DOMAIN signup : m # k /\ r.user # 0 => signup[m].user # r.user
=============================================================================
