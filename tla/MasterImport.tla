---------------------------- MODULE MasterImport ----------------------------
(***************************************************************************)
(* The import of master data from a sheet: backend/apps/dataio.  A row is  *)
(* an upsert by its key; every statement of a row commits by itself, a row *)
(* that fails is reported and the rest goes on, and the ImportJob is       *)
(* written after the last row.  Entities differ in what a row creates on   *)
(* the way (a category, a price list), what must exist before it is saved  *)
(* (a unit, a product, a manager) and what only after (a role).  The rows  *)
(* of the model have their required cells.                                 *)
(***************************************************************************)
EXTENDS Integers, FiniteSets, Sequences

CONSTANTS Importers,
          Sheets,      \* Sheets[f]: [entity, rows], a row [key, cells, role, code]
          ByHand,      \* rows <<table, key>> the office may create by hand
          Codes,       \* a unique column (employee_code)
          NoRoleCell, NoCode, NoSheet,
          MaxUploads, MaxByHand, MaxImportDeaths   \* bounds

ASSUME ImportAssumption ==
    /\ NoSheet \notin DOMAIN Sheets /\ NoCode \notin Codes
    /\ \A f \in DOMAIN Sheets :
          /\ Len(Sheets[f].rows) \in Nat
          /\ \A i \in 1..Len(Sheets[f].rows) : Sheets[f].rows[i].code \in Codes \cup {NoCode}

VARIABLES
    have,       \* rows that exist: <<table, key>>
    code,       \* code[x]: the row holding the unique value x, <<>> for none
    import,     \* import[m]: [sheet, next, made, errors, alone, repeats], or NoImport
    jobs,       \* the ImportJobs, oldest first: [sheet, made, changed, errors, repeats]
    still,      \* the sheet of the last job, if it ran alone and no row of another followed
    permitted,  \* permissions the uploader's role has
    uploads, byHand, importDeaths

importVars == <<have, code, import, jobs, still, permitted, uploads, byHand, importDeaths>>

\* The registered entities: what a row of one is saved as, the permission it takes,
\* the table each foreign key column refers to, and which of them are made if missing.
Entity(table, permission, fk, made) ==
    [table |-> table, permission |-> permission, fk |-> fk, made |-> made]

Registry ==
    [products  |-> Entity("item", "catalog", [category |-> "item_category", base_uom |-> "uom"], {"category"}),
     prices    |-> Entity("price", "catalog", [price_list |-> "price_list", sku |-> "item"], {"price_list"}),
     staff     |-> Entity("user", "users", [reporting_manager |-> "user"], {}),
     routes    |-> Entity("beat", "customers", [assigned_agent |-> "user"], {}),
     customers |-> Entity("customer", "customers", [category |-> "customer_category"], {"category"}),
     vehicles  |-> Entity("vehicle", "vehicles", [assigned_agent |-> "user"], {}),
     godowns   |-> Entity("godown", "inventory", [assigned_agent |-> "user"], {})]

Permissions == {Registry[e].permission : e \in DOMAIN Registry}

NoImport == [sheet |-> NoSheet, next |-> 0, made |-> 0, errors |-> {}, alone |-> FALSE, repeats |-> FALSE]

ImportInit ==
    /\ have = {}
    /\ code = [x \in Codes |-> <<>>]
    /\ import = [m \in Importers |-> NoImport]
    /\ jobs = <<>> /\ still = NoSheet
    /\ permitted = Permissions
    /\ uploads = 0 /\ byHand = 0 /\ importDeaths = 0

RowOf(f, i) ==
    LET raw == Sheets[f].rows[i]
    IN  [entity |-> Registry[Sheets[f].entity], key |-> raw.key, cells |-> raw.cells,
         role |-> raw.role, code |-> raw.code]

SheetLen(f) == Len(Sheets[f].rows)

Done(m) == import[m].next > SheetLen(import[m].sheet)

\* The row of the entity, and the rows its cells refer to, made on the way or not.
Target(row) == <<row.entity.table, row.key>>
Makes(row) == {<<row.entity.fk[c], row.cells[c]>> : c \in row.entity.made \cap DOMAIN row.cells}
Needs(row) == {<<row.entity.fk[c], row.cells[c]>> : c \in DOMAIN row.cells \ row.entity.made}

\* _check_permission of the entity of the sheet.
Upload(m, f) ==
    /\ uploads < MaxUploads /\ import[m] = NoImport
    /\ Registry[Sheets[f].entity].permission \in permitted
    /\ LET alone == \A n \in Importers : import[n] = NoImport
       IN  import' = [import EXCEPT ![m] = [sheet |-> f, next |-> 1, made |-> 0, errors |-> {},
                                            alone |-> alone, repeats |-> alone /\ still = f]]
    /\ uploads' = uploads + 1
    /\ UNCHANGED <<have, code, jobs, still, permitted, byHand, importDeaths>>

Unique(row) == row.code = NoCode \/ code[row.code] \in {<<>>, Target(row)}

\* Mutant of Saved: create instead of update_or_create.
Saved_Create(row) ==
    Needs(row) \subseteq have \cup Makes(row) /\ Unique(row) /\ Target(row) \notin have

\* _resolve_fk makes what may be made before it misses what must exist.
Saved(row) == Needs(row) \subseteq have \cup Makes(row) /\ Unique(row)

After(row) == have \cup Makes(row) \cup (IF Saved(row) THEN {Target(row)} ELSE {})

\* Mutant of Coded: the code is taken by a row that then fails.
Coded_Early(row) ==
    [x \in Codes |-> IF x = row.code THEN Target(row)
                     ELSE IF code[x] = Target(row) THEN <<>> ELSE code[x]]

\* update_or_create writes every column, a blank one too.
Coded(row) ==
    IF ~Saved(row) THEN code
    ELSE [x \in Codes |-> IF x = row.code THEN Target(row)
                          ELSE IF code[x] = Target(row) THEN <<>> ELSE code[x]]

\* A missing role fails the row after the user is saved.
Fails(row) == ~Saved(row) \/ (row.role # NoRoleCell /\ <<"role", row.role>> \notin have)

Disturbed(m) ==
    [n \in Importers |-> IF n = m THEN import[n]
                         ELSE [import[n] EXCEPT !.alone = FALSE, !.repeats = FALSE]]

ImportRow(m) ==
    /\ import[m] # NoImport /\ ~Done(m)
    /\ LET row == RowOf(import[m].sheet, import[m].next)
       IN  /\ have' = After(row)
           /\ code' = Coded(row)
           /\ import' = [Disturbed(m) EXCEPT
                 ![m].next = @ + 1,
                 ![m].made = IF ~Fails(row) /\ Target(row) \notin have THEN @ + 1 ELSE @,
                 ![m].errors = IF Fails(row) THEN @ \cup {import[m].next} ELSE @]
    /\ still' = IF still = import[m].sheet THEN still ELSE NoSheet
    /\ UNCHANGED <<jobs, permitted, uploads, byHand, importDeaths>>

WriteJob(m) ==
    /\ import[m] # NoImport /\ Done(m)
    /\ LET i == import[m]
       IN  jobs' = Append(jobs, [sheet |-> i.sheet, made |-> i.made, errors |-> i.errors, repeats |-> i.repeats,
                                 changed |-> SheetLen(i.sheet) - i.made - Cardinality(i.errors)])
    /\ still' = IF import[m].alone THEN import[m].sheet ELSE NoSheet
    /\ import' = [Disturbed(m) EXCEPT ![m] = NoImport]
    /\ UNCHANGED <<have, code, permitted, uploads, byHand, importDeaths>>

\* The worker dies: the rows so far stay, no job tells of them.
ImporterDies(m) ==
    /\ importDeaths < MaxImportDeaths /\ import[m] # NoImport
    /\ import' = [import EXCEPT ![m] = NoImport]
    /\ importDeaths' = importDeaths + 1
    /\ UNCHANGED <<have, code, jobs, still, permitted, uploads, byHand>>

CreateByHand(r) ==
    /\ byHand < MaxByHand /\ r \notin have
    /\ have' = have \cup {r}
    /\ byHand' = byHand + 1
    /\ UNCHANGED <<code, import, jobs, still, permitted, uploads, importDeaths>>

SetPermitted(granted) ==
    /\ byHand < MaxByHand
    /\ permitted' = granted /\ byHand' = byHand + 1
    /\ UNCHANGED <<have, code, import, jobs, still, uploads, importDeaths>>

ImportNext ==
    \/ \E m \in Importers : ImportRow(m) \/ WriteJob(m) \/ ImporterDies(m)
    \/ \E m \in Importers, f \in DOMAIN Sheets : Upload(m, f)
    \/ \E r \in ByHand : CreateByHand(r)
    \/ \E granted \in {Permissions \ {p} : p \in Permissions} : SetPermitted(granted)

ImportSpec == ImportInit /\ [][ImportNext]_importVars
-----------------------------------------------------------------------------
ImportTypeOK ==
    /\ permitted \subseteq Permissions
    /\ \A x \in Codes : code[x] = <<>> \/ code[x] \in have
    /\ \A m \in Importers : import[m] = NoImport \/ import[m].next \in 1..(SheetLen(import[m].sheet) + 1)
    /\ \A k \in 1..Len(jobs) : jobs[k].made \in Nat /\ jobs[k].changed \in Nat

\* The same sheet uploaded again, with no row of another import since, fails on no
\* row that went in the first time, whatever the office has created in between: the
\* operator repeats a sheet until nothing is left.  (In a sheet that lists a key twice
\* the second row may give up the unique value of the first, and a third take it.)
ErrorsOnlyShrink ==
    \A k \in 2..Len(jobs) : jobs[k].repeats => jobs[k].errors \subseteq jobs[k - 1].errors
=============================================================================
