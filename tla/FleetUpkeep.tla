---------------------------- MODULE FleetUpkeep ----------------------------
(***************************************************************************)
(* One vehicle of backend/apps/fleet: odometer readings of its trips, fuel *)
(* fill-ups with the pilferage flag, maintenance schedules, a vehicle      *)
(* document, and the fleet dashboard computed from them on every call.    *)
(* start_trip and end_trip save the trip and insert the reading in two     *)
(* statements; a call that answers an error is repeated.                   *)
(***************************************************************************)
EXTENDS Integers, Sequences, SequencesExt, FiniteSets, FiniteSetsExt, Functions

CONSTANTS Schedules,        \* maintenance schedules, and which vehicle document
          Deadlines,        \* dues of a schedule: [km, day], 0 for null
          Expiry,           \* the day a document of the vehicle expires
          Odometers, Litres,
          MinHistory, Baseline, \* fill-ups needed, and looked at, for the flag
          SoonKm, SoonDays,
          MaxDay, MaxUpkeepCalls \* bounds

ASSUME UpkeepAssumption == IsFiniteSet(Schedules)

VARIABLES
    day,
    due,      \* due[s]: what the schedule is due at
    run,      \* the vehicle's trip: [from, to] odometer, -1 for null
    pending,  \* pending[odo]: calls that have still to insert this reading
    readings, \* OdometerLog rows in the order of recorded_at
    fuel,     \* FuelLog rows: [odo, litres, tagged, flagged]
    returned, \* days with a damaged return
    unloaded, \* days with a completed van unload
    upkeepCalls

upkeepVars == <<day, due, run, pending, readings, fuel, returned, unloaded, upkeepCalls>>

UpkeepInit ==
    /\ day = 1
    /\ due = [s \in Schedules |-> [km |-> 0, day |-> 0]]
    /\ run = [from |-> -1, to |-> -1]
    /\ pending = [odo \in Odometers |-> 0] /\ readings = <<>> /\ fuel = <<>>
    /\ returned = {} /\ unloaded = {}
    /\ upkeepCalls = 0

UpkeepCall == upkeepCalls < MaxUpkeepCalls /\ upkeepCalls' = upkeepCalls + 1

UpkeepDay ==
    /\ day < MaxDay
    /\ day' = day + 1
    /\ UNCHANGED <<due, run, pending, readings, fuel, returned, unloaded, upkeepCalls>>

Plan(s, d) ==
    /\ UpkeepCall
    /\ due' = [due EXCEPT ![s] = d]
    /\ UNCHANGED <<day, run, pending, readings, fuel, returned, unloaded>>

\* start_trip and end_trip, whatever the state of the trip and of calls that have
\* not answered yet: the row first ...
SaveOdometer(column, odo) ==
    /\ UpkeepCall
    /\ run' = [run EXCEPT ![column] = odo]
    /\ pending' = [pending EXCEPT ![odo] = @ + 1]
    /\ UNCHANGED <<day, due, readings, fuel, returned, unloaded>>

\* ... then the reading, unless the process dies in between.
LogReading(odo) ==
    /\ pending[odo] > 0
    /\ pending' = [pending EXCEPT ![odo] = @ - 1]
    /\ readings' \in {readings, Append(readings, odo)}
    /\ UNCHANGED <<day, due, run, fuel, returned, unloaded, upkeepCalls>>

\* A trip pushed by the phone carries its odometers and inserts no reading.
PushTrip(from, to) ==
    /\ UpkeepCall
    /\ run' = [from |-> from, to |-> to]
    /\ UNCHANGED <<day, due, pending, readings, fuel, returned, unloaded>>

\* Fill-ups by descending odometer; equal ones in any order, here the later first.
ByOdometer(logs) ==
    LET before(i, j) == logs[i].odo > logs[j].odo \/ (logs[i].odo = logs[j].odo /\ i > j)
        at == SortSeq([k \in DOMAIN logs |-> k], before)
    IN [k \in DOMAIN logs |-> logs[at[k]]]

Efficiency(km, litres) == (100 * km) \div litres

\* Efficiencies between neighbours of a list of fill-ups.
Between(logs) ==
    LET good == SelectSeq([i \in 1..(Len(logs) - 1) |-> [km |-> logs[i].odo - logs[i + 1].odo,
                                                        litres |-> logs[i].litres]],
                          LAMBDA g : g.km > 0 /\ g.litres > 0)
    IN [i \in DOMAIN good |-> Efficiency(good[i].km, good[i].litres)]

\* evaluate_fuel_log: more than 35 % below the average of the last fill-ups.
Suspicious(log, others) ==
    LET sorted == ByOdometer(others)
        base == Between(SubSeq(sorted, 1, Min({Baseline, Len(sorted)}))) IN
    /\ Len(others) >= MinHistory
    /\ log.odo > sorted[1].odo /\ log.litres > 0
    /\ base # <<>>
    /\ 100 * Efficiency(log.odo - sorted[1].odo, log.litres) * Len(base) < 65 * FoldSeq(+, 0, base)

\* POST fuel-logs: the row is inserted, then evaluated against all others.
FillUp(odo, litres, tagged) ==
    LET log == [odo |-> odo, litres |-> litres, tagged |-> tagged, flagged |-> FALSE] IN
    /\ UpkeepCall
    /\ fuel' = Append(fuel, [log EXCEPT !.flagged = Suspicious(log, fuel)])
    /\ UNCHANGED <<day, due, run, pending, readings, returned, unloaded>>

ReturnDamaged ==
    /\ UpkeepCall
    /\ returned' = returned \cup {day}
    /\ UNCHANGED <<day, due, run, pending, readings, fuel, unloaded>>

UnloadVan ==
    /\ UpkeepCall
    /\ unloaded' = unloaded \cup {day}
    /\ UNCHANGED <<day, due, run, pending, readings, fuel, returned>>

UpkeepNext ==
    \/ UpkeepDay \/ ReturnDamaged \/ UnloadVan
    \/ \E s \in Schedules, d \in Deadlines : Plan(s, d)
    \/ \E odo \in Odometers :
          \/ SaveOdometer("from", odo) \/ SaveOdometer("to", odo) \/ LogReading(odo)
          \/ \E to \in Odometers : PushTrip(odo, to)
          \/ \E litres \in Litres, tagged \in BOOLEAN : FillUp(odo, litres, tagged)

UpkeepSpec == UpkeepInit /\ [][UpkeepNext]_upkeepVars

-----------------------------------------------------------------------------
(* The dashboard *)

Rank == [ok |-> 0, due_soon |-> 1, overdue |-> 2]
Worse(a, b) == IF Rank[a] >= Rank[b] THEN a ELSE b

Standing(remaining, soon) ==
    IF remaining < 0 THEN "overdue" ELSE IF remaining <= soon THEN "due_soon" ELSE "ok"

\* maintenance_status: by date, and by odometer when a reading is known.
MaintenanceStatus(s) ==
    LET byDay == IF due[s].day = 0 THEN "ok" ELSE Standing(due[s].day - day, SoonDays)
        byKm == IF due[s].km = 0 \/ readings = <<>> THEN "ok"
                ELSE Standing(due[s].km - Last(readings), SoonKm)
    IN Worse(byKm, byDay)

\* maintenance_due_alerts names the schedules that are not ok.
Alert(s) == MaintenanceStatus(s) # "ok"

\* Mutant of ShownStatus: the last alert's status.
ShownStatus_Last(p) ==
    LET shown[k \in 0..Len(p)] ==
            IF k = 0 THEN "ok" ELSE IF Alert(p[k]) THEN MaintenanceStatus(p[k]) ELSE shown[k - 1]
    IN shown[Len(p)]

\* FleetDashboardView, of schedules in some order: the last alert's status, stopping
\* at an overdue one.
ShownStatus(p) ==
    LET shown[k \in 0..Len(p)] ==
            IF k = 0 THEN "ok"
            ELSE IF shown[k - 1] # "overdue" /\ Alert(p[k]) THEN MaintenanceStatus(p[k])
            ELSE shown[k - 1]
    IN shown[Len(p)]

DocumentStatus == Standing(Expiry - day, SoonDays)

LitresOf(S) == SumFunctionOnSet([k \in S |-> fuel[k].litres], S)

\* _vehicle_fuel_cost_per_km (amounts are litres here), 0 when unknown: the first
\* fill-up of the history pays for no distance.
CostPerKm ==
    LET first == CHOOSE k \in DOMAIN fuel : \A j \in DOMAIN fuel : fuel[k].odo <= fuel[j].odo
        km == Max({fuel[k].odo : k \in DOMAIN fuel}) - fuel[first].odo IN
    IF Len(fuel) < 2 \/ km <= 0 THEN 0 ELSE (100 * LitresOf(DOMAIN fuel \ {first})) \div km

\* trip_profitability: tagged fill-ups, else distance by cost per km.
TripFuelCost ==
    LET tagged == {k \in DOMAIN fuel : fuel[k].tagged} IN
    IF tagged # {} THEN 100 * LitresOf(tagged) ELSE (run.to - run.from) * CostPerKm

\* Damaged returns without an unload that day.
Unreconciled == returned \ unloaded

-----------------------------------------------------------------------------
(* Properties *)

UpkeepTypeOK ==
    /\ day \in 1..MaxDay /\ upkeepCalls \in 0..MaxUpkeepCalls
    /\ {run.from, run.to} \subseteq Odometers \cup {-1}
    /\ Range(readings) \subseteq Odometers /\ pending \in [Odometers -> Nat]
    /\ \A k \in DOMAIN fuel : fuel[k].odo \in Odometers /\ fuel[k].flagged \in BOOLEAN
    /\ returned \cup unloaded \subseteq 1..MaxDay
    /\ CostPerKm >= 0 /\ (run.to > run.from => TripFuelCost >= 0)
    /\ DocumentStatus \in DOMAIN Rank /\ Unreconciled \subseteq 1..MaxDay

\* The status shown for the vehicle is that of its worst schedule in whatever
\* order the alerts come, though readings repeat, are missing or go back.
WorstShown ==
    \A p \in SetToSeqs(Schedules) : \A s \in Schedules :
       Rank[ShownStatus(p)] >= Rank[MaintenanceStatus(s)]
=============================================================================
