---------------------------- MODULE FieldReports ----------------------------
(***************************************************************************)
(* The reports and alerts of backend/apps/reporting about sales, returns,  *)
(* stock and activity.  Nothing is stored: every call computes them from   *)
(* the rows that documents, adjustments and pings have left by then.       *)
(* Averages and standard deviations are compared without dividing.         *)
(***************************************************************************)
EXTENDS Integers, FiniteSets, FiniteSetsExt, Functions

CONSTANTS Salesmen, Wares,
          ReportDiscounts,      \* discounts of an invoice, per cent
          ReportQuantities,     \* of an adjustment
          PatternWindow,        \* days a pattern looks back
          MinInvoices, MinHistoryDays,
          UnusualDiscount, VarianceFloor, InactiveAfter, OverstockDays,
          MaxReportDay, MaxEvents     \* bounds

ASSUME ReportAssumption ==
    /\ IsFiniteSet(Salesmen)
    /\ IsFiniteSet(ReportDiscounts) /\ ReportDiscounts \subseteq Nat
    /\ {PatternWindow, MaxReportDay} \subseteq Nat

VARIABLES
    today,
    invoices,  \* invoices[<<a, d, p>>]: invoices of agent a on day d with discount p
    returns,   \* returns[<<a, sellable>>]: credit note lines of the window
    vanStock,  \* vanStock[i]: on hand on the vans
    sold,      \* sold[i]: quantity in 30 days
    adjusted,  \* adjustments: <<day, item, quantity>>
    lastSeen,  \* lastSeen[a]: the last trip or ping, 0 for none
    events

reportVars == <<today, invoices, returns, vanStock, sold, adjusted, lastSeen, events>>

Slots == Salesmen \X (1..MaxReportDay) \X ReportDiscounts

ReportInit ==
    /\ today = 1
    /\ invoices = [x \in Slots |-> 0]
    /\ returns = [x \in Salesmen \X BOOLEAN |-> 0]
    /\ vanStock = [i \in Wares |-> 2]
    /\ sold = [i \in Wares |-> 0]
    /\ adjusted = {}
    /\ lastSeen = [a \in Salesmen |-> 0]
    /\ events = 0

Event == events < MaxEvents /\ events' = events + 1

ReportDay ==
    /\ today < MaxReportDay
    /\ today' = today + 1
    /\ UNCHANGED <<invoices, returns, vanStock, sold, adjusted, lastSeen, events>>

Invoice(a, p, i) ==
    /\ Event
    /\ invoices' = [invoices EXCEPT ![<<a, today, p>>] = @ + 1]
    /\ vanStock' = [vanStock EXCEPT ![i] = @ - 1]
    /\ sold' = [sold EXCEPT ![i] = @ + 1]
    /\ UNCHANGED <<today, returns, adjusted, lastSeen>>

CreditNote(a, sellable) ==
    /\ Event
    /\ returns' = [returns EXCEPT ![<<a, sellable>>] = @ + 1]
    /\ UNCHANGED <<today, invoices, vanStock, sold, adjusted, lastSeen>>

Adjust(i, q) ==
    /\ Event
    /\ adjusted' = adjusted \cup {<<today, i, q>>}
    /\ vanStock' = [vanStock EXCEPT ![i] = @ + q]
    /\ UNCHANGED <<today, invoices, returns, sold, lastSeen>>

\* A trip is planned or a ping arrives.
Activity(a) ==
    /\ Event
    /\ lastSeen' = [lastSeen EXCEPT ![a] = today]
    /\ UNCHANGED <<today, invoices, returns, vanStock, sold, adjusted>>

ReportNext ==
    \/ ReportDay
    \/ \E a \in Salesmen :
          \/ Activity(a) \/ \E p \in ReportDiscounts, i \in Wares : Invoice(a, p, i)
          \/ \E s \in BOOLEAN : CreditNote(a, s)
    \/ \E i \in Wares, q \in ReportQuantities : Adjust(i, q)

ReportSpec == ReportInit /\ [][ReportNext]_reportVars

-----------------------------------------------------------------------------
(* Reports *)

Since(days) == today - days

Recent(S, days) == {x \in S : x[2] >= Since(days)}

Count(S) == SumFunctionOnSet(invoices, S)
Percents(S) == SumFunctionOnSet([x \in S |-> x[3] * invoices[x]], S)
Of(a, S) == {x \in S : x[1] = a}

\* Agents with an invoice in the window.
Selling == {a \in Salesmen : Count(Of(a, Recent(Slots, PatternWindow))) > 0}

\* Mutant of FleetCount: invoices of all time.
FleetCount_AllTime == Count(Slots)

\* How many invoices the average of the fleet is taken over.
FleetCount == Count(Recent(Slots, PatternWindow))

\* discount_pattern_alerts: an average half as high again as the fleet's.
DiscountPattern ==
    {a \in Selling :
        LET own == Of(a, Recent(Slots, PatternWindow)) IN
        /\ Percents(Recent(Slots, PatternWindow)) > 0
        /\ Count(own) >= MinInvoices
        /\ 2 * Percents(own) * FleetCount >= 3 * Percents(Recent(Slots, PatternWindow)) * Count(own)}

\* return_frequency_alerts: sellable returns are 15 % of the invoices or more.
SellableReturns ==
    {a \in Selling :
        LET n == Count(Of(a, Recent(Slots, PatternWindow))) IN
        n >= MinInvoices /\ returns[<<a, TRUE>>] > 0 /\ 100 * returns[<<a, TRUE>>] >= 15 * n}

\* unusual_discount_alerts and stock_variance_alerts: fixed thresholds.
UnusualDiscounts == {x \in Recent(Slots, PatternWindow) : invoices[x] > 0 /\ x[3] >= UnusualDiscount}
StockVariance ==
    {x \in adjusted : x[1] >= Since(PatternWindow) /\ (x[3] >= VarianceFloor \/ -x[3] >= VarianceFloor)}

\* inactive_agent_alerts: no invoice, trip or ping for some days.
LastActivity(a) == Max({lastSeen[a]} \cup {x[2] : x \in {y \in Of(a, Slots) : invoices[y] > 0}})
InactiveAgents ==
    {a \in Salesmen : LastActivity(a) = 0 \/ LastActivity(a) < today - InactiveAfter}

\* inventory_velocity_report: stock against sales of 30 days.
Pattern(i) ==
    IF vanStock[i] <= 0 /\ sold[i] > 0 THEN "Stock-out"
    ELSE IF sold[i] > 0 /\ 30 * vanStock[i] > OverstockDays * sold[i] THEN "Overstock"
    ELSE IF sold[i] = 0 THEN "Slow-moving"
    ELSE IF sold[i] >= 30 THEN "Fast-moving" ELSE "Normal"

\* _daily_values: invoices of each of the last days, 0 for a day without any.
OnDay(d) == Count({x \in Slots : x[2] = d})
History == Since(PatternWindow)..(today - 1)
Total == SumFunctionOnSet([d \in History |-> OnDay(d)], History)
Squares == SumFunctionOnSet([d \in History |-> OnDay(d) * OnDay(d)], History)

\* A value's distance from the mean, times the number of days, squared.
Far(v) == LET n == Cardinality(History) IN (n * v - Total) * (n * v - Total)
Spread == Cardinality(History) * Squares - Total * Total

\* _score: two standard deviations off, or half off a flat history.
Outlier ==
    /\ Cardinality({d \in History : OnDay(d) # 0}) >= MinHistoryDays
    /\ \/ Spread > 0 /\ Far(OnDay(today)) >= 4 * Spread
       \/ Spread = 0 /\ Total > 0 /\ 4 * Far(OnDay(today)) > Total * Total

\* DashboardView: figures of today.
Dashboard == [sales |-> OnDay(today), exceptions |-> Cardinality(UnusualDiscounts)]

-----------------------------------------------------------------------------
(* Properties *)

ReportTypeOK ==
    /\ today \in 1..MaxReportDay /\ events \in 0..MaxEvents
    /\ invoices \in [Slots -> Nat] /\ returns \in [Salesmen \X BOOLEAN -> Nat]
    /\ SellableReturns \subseteq Salesmen /\ InactiveAgents \subseteq Salesmen
    /\ StockVariance \subseteq adjusted
    /\ \A i \in Wares : Pattern(i) \in {"Stock-out", "Overstock", "Slow-moving", "Fast-moving", "Normal"}
    /\ Dashboard.sales \in Nat /\ Dashboard.exceptions \in Nat

\* An alert singles something out, whatever the rows: the discount pattern never
\* accuses every agent that sells, since not all can be above their own average;
\* and when today is called an outlier, at most a quarter of the days it is
\* compared with were as far off as today.
AlertsSingleOut ==
    /\ Selling # {} => DiscountPattern # Selling
    /\ Outlier => 4 * Cardinality({d \in History : Far(OnDay(d)) >= Far(OnDay(today))})
                      <= Cardinality(History)
=============================================================================
