------------------------------ MODULE MCOffice ------------------------------
(***************************************************************************)
(* Instances for TLC of the components that share no state with others.    *)
(* A behaviour is one of a single component, named by focus; the rest of   *)
(* the variables keep their initial values.                                *)
(***************************************************************************)
EXTENDS SalesPosting, StockTransfer, BeatRoute, ChangeRequests, FieldDesk, Accounts, Payments, TripTracking,
        FleetUpkeep, ConnectorTraffic, FieldReports, Tenancy, MasterImport, Billing, PullCursor

CONSTANTS None, W1, W2

Pair == {W1, W2}
Symmetric == Permutations(Pair)

VARIABLE focus

\* SalesPosting: an invoice of a blocked customer with two part payments; one with an
\* override; a payment on account.
Sold(i, q) == [item |-> i, qty |-> q]
Sent(kind, amount, lines) ==
    [kind |-> kind, pushed |-> TRUE, override |-> FALSE, blocked |-> FALSE, amount |-> amount,
     allocated |-> 0, against |-> 1, lines |-> lines]
SerialMix ==
    <<[Sent("invoice", 3, <<Sold("A", -1), Sold("B", -2)>>) EXCEPT !.blocked = TRUE],
      [Sent("invoice", 2, <<Sold("B", -1), Sold("A", -1)>>) EXCEPT !.override = TRUE],
      [Sent("receipt", 2, <<>>) EXCEPT !.allocated = 2],
      [Sent("receipt", 2, <<>>) EXCEPT !.allocated = 1],
      Sent("receipt", 1, <<>>)>>
SerialDocs == 1..5
AB == {"A", "B"}

\* StockTransfer: a van load and an unload with their lines in opposite orders.
Moves(i, e, a) == [item |-> i, expected |-> e, actual |-> a]
LoadAndUnload ==
    <<[type |-> "van_load", from |-> "wh", to |-> "van", lines |-> <<Moves("A", 2, -1), Moves("B", 3, 1)>>],
      [type |-> "van_unload", from |-> "van", to |-> "wh", lines |-> <<Moves("B", 1, 2)>>]>>
NoQuantity == -1

\* BeatRoute: four stops, two of them with the same place in the template.
FourStops == 1..4
OnALine == [e \in {0, 1, 3} \X {0, 1, 3} |-> IF e[1] < e[2] THEN e[2] - e[1] ELSE e[1] - e[2]]
Template == <<1, 1, 3, 4>>

\* ChangeRequests: two roles that are targets themselves, and a webhook of which two fields change.
Change(t, c) == [target |-> t, changes |-> c]
Role == [ann |-> "super_admin", bob |-> "system_it_admin"]
Kind == [super_admin |-> "role", system_it_admin |-> "role", hook |-> "webhook"]
Proposed ==
    {Change("hook", [url |-> "a"]), Change("hook", [is_active |-> "no"]),
     Change("hook", [url |-> "b", is_active |-> "yes"]),
     Change("system_it_admin", [permissions |-> "approve"]),
     Change("super_admin", [permissions |-> "manage"])}

\* TripTracking: a restricted zone off the way, a depot on it.
Zone(at, radius, kind) == [at |-> at, radius |-> radius, kind |-> kind, active |-> TRUE]
TwoZones == {Zone(5, 0, "restricted"), Zone(2, 9, "depot")}
Ann == <<"ann">>
ShopAt == [shop |-> 0]
Nowhere == -9
Unfixed == -8

\* FleetUpkeep: a near deadline and a far one.
Dues == {[km |-> 10, day |-> 0], [km |-> 20, day |-> 2]}

\* MasterImport: a manager who comes later in the sheet and a role made by hand; the codes of
\* two users swapped; a product without its unit, and prices of it.
Cells(k, cells, role, x) == [key |-> k, cells |-> cells, role |-> role, code |-> x]
Uploaded(e, lines) == [entity |-> e, rows |-> lines]
ImportSheets ==
    [staff   |-> Uploaded("staff", <<Cells("ann", [reporting_manager |-> "bob"], "agent", "E1"),
                                   Cells("bob", <<>>, None, "E2")>>),
     swapped |-> Uploaded("staff", <<Cells("bob", <<>>, None, "E1"), Cells("ann", <<>>, None, "E2")>>),
     goods   |-> Uploaded("products", <<Cells("tea", [category |-> "drinks", base_uom |-> "kg"], None, None)>>),
     prices  |-> Uploaded("prices", <<Cells("std/tea", [price_list |-> "std", sku |-> "tea"], None, None)>>)]
MadeByHand == {<<"role", "agent">>, <<"uom", "kg">>}

\* Billing: two slabs, a percentage and a flat amount; a bonus of the item bought.
Slab(from, upto, kind, x) == [from |-> from, upto |-> upto, kind |-> kind, value |-> x]
Offer(kind, x, slabs) == [kind |-> kind, value |-> x, slabs |-> slabs]
TeaAndMilk == <<"tea", "milk">>
Rates == <<105, 90>>
GstRates == [tea |-> 5, milk |-> 18]
TeaScheme == [s |-> {"tea"}]
OfficeOffers ==
    {Offer("slab", 0, {Slab(1, 2, "flat", 3), Slab(2, 0, "percent", 10)}),
     Offer("percent", 5, {}), Offer("flat", 400, {})}
OneBonus == {[trigger |-> "tea", needed |-> 2, bonus |-> "tea", given |-> 1, cap |-> 1, rate |-> 100]}

\* Tenancy: slugs and databases are interchangeable, so let the first row be of these.
FirstRow == tenant # <<>> => <<"s1", 1, "d1">> \in known

Components == {"sales", "stock", "route", "gov", "field", "acc", "pay", "fleet", "upkeep", "traffic",
               "reports", "tenants", "import", "bills", "sync"}

officeVars ==
    <<focus, vars, transferVars, routeVars, changeVars, deskVars, accountVars, paymentVars, tripVars,
      upkeepVars, trafficVars, reportVars, tenancyVars, importVars, billingVars, pullVars>>

OfficeInit ==
    /\ focus \in Components
    /\ Init /\ StockInit /\ BeatInit /\ ReviewInit /\ DeskInit /\ AccountInit /\ PayInit
    /\ TripInit /\ UpkeepInit /\ TrafficInit /\ ReportInit /\ TenancyInit /\ ImportInit
    /\ BillInit /\ PullInit
    /\ focus # "field" => keyed

Others ==
    /\ UNCHANGED focus
    /\ IF focus = "sales" THEN TRUE ELSE UNCHANGED vars
    /\ IF focus = "stock" THEN TRUE ELSE UNCHANGED transferVars
    /\ IF focus = "route" THEN TRUE ELSE UNCHANGED routeVars
    /\ IF focus = "gov" THEN TRUE ELSE UNCHANGED changeVars
    /\ IF focus = "field" THEN TRUE ELSE UNCHANGED deskVars
    /\ IF focus = "acc" THEN TRUE ELSE UNCHANGED accountVars
    /\ IF focus = "pay" THEN TRUE ELSE UNCHANGED paymentVars
    /\ IF focus = "fleet" THEN TRUE ELSE UNCHANGED tripVars
    /\ IF focus = "upkeep" THEN TRUE ELSE UNCHANGED upkeepVars
    /\ IF focus = "traffic" THEN TRUE ELSE UNCHANGED trafficVars
    /\ IF focus = "reports" THEN TRUE ELSE UNCHANGED reportVars
    /\ IF focus = "tenants" THEN TRUE ELSE UNCHANGED tenancyVars
    /\ IF focus = "import" THEN TRUE ELSE UNCHANGED importVars
    /\ IF focus = "bills" THEN TRUE ELSE UNCHANGED billingVars
    /\ IF focus = "sync" THEN TRUE ELSE UNCHANGED pullVars

SalesStep   == focus = "sales"   /\ Next        /\ Others
StockStep   == focus = "stock"   /\ StockNext   /\ Others
RouteStep   == focus = "route"   /\ BeatNext    /\ Others
GovStep     == focus = "gov"     /\ ReviewNext  /\ Others
FieldStep   == focus = "field"   /\ DeskNext    /\ Others
AccStep     == focus = "acc"     /\ AccountNext /\ Others
PayStep     == focus = "pay"     /\ PayNext     /\ Others
FleetStep   == focus = "fleet"   /\ TripNext    /\ Others
UpkeepStep  == focus = "upkeep"  /\ UpkeepNext  /\ Others
TrafficStep == focus = "traffic" /\ TrafficNext /\ Others
ReportsStep == focus = "reports" /\ ReportNext  /\ Others
TenantsStep == focus = "tenants" /\ TenancyNext /\ Others /\ FirstRow'
ImportStep  == focus = "import"  /\ ImportNext  /\ Others
BillsStep   == focus = "bills"   /\ BillNext    /\ Others
SyncStep    == focus = "sync"    /\ PullNext    /\ Others

OfficeNext ==
    \/ SalesStep \/ StockStep \/ RouteStep \/ GovStep \/ FieldStep \/ AccStep \/ PayStep \/ FleetStep
    \/ UpkeepStep \/ TrafficStep \/ ReportsStep \/ TenantsStep \/ ImportStep \/ BillsStep \/ SyncStep

OfficeSpec == OfficeInit /\ [][OfficeNext]_officeVars
-----------------------------------------------------------------------------
\* The type invariants of the components.
AllTypesOK ==
    /\ focus = "sales"   => TypeOK
    /\ focus = "stock"   => StockTypeOK
    /\ focus = "route"   => BeatTypeOK
    /\ focus = "gov"     => ReviewTypeOK
    /\ focus = "field"   => DeskTypeOK
    /\ focus = "acc"     => AccountTypeOK
    /\ focus = "pay"     => PayTypeOK
    /\ focus = "fleet"   => TripTypeOK
    /\ focus = "upkeep"  => UpkeepTypeOK
    /\ focus = "traffic" => TrafficTypeOK
    /\ focus = "reports" => ReportTypeOK
    /\ focus = "tenants" => TenancyTypeOK
    /\ focus = "import"  => ImportTypeOK
    /\ focus = "bills"   => BillTypeOK
    /\ focus = "sync"    => PullTypeOK

=============================================================================
