---------------------------- MODULE Office_proofs ----------------------------
(***************************************************************************)
(* The components that share no state, together: a behaviour of MCOffice   *)
(* is one of every component, so that what is proved of each of them holds *)
(* in it, for any values of the constants.                                 *)
(***************************************************************************)
EXTENDS MCOffice, Requests_proofs, Goods_proofs, Reports_proofs, SalesPosting_proofs

\* A step is one of the component named by focus, and changes no other.
LEMMA OneComponentSteps ==
    ASSUME OfficeNext
    PROVE  /\ Others
           /\ focus = "sales" => Next
           /\ focus = "stock" => StockNext
           /\ focus = "route" => BeatNext
           /\ focus = "gov" => ReviewNext
           /\ focus = "field" => DeskNext
           /\ focus = "acc" => AccountNext
           /\ focus = "pay" => PayNext
           /\ focus = "fleet" => TripNext
           /\ focus = "upkeep" => UpkeepNext
           /\ focus = "traffic" => TrafficNext
           /\ focus = "reports" => ReportNext
           /\ focus = "tenants" => TenancyNext
           /\ focus = "import" => ImportNext
           /\ focus = "bills" => BillNext
           /\ focus = "sync" => PullNext
BY DEF OfficeNext, SalesStep, StockStep, RouteStep, GovStep, FieldStep, AccStep, PayStep,
       FleetStep, UpkeepStep, TrafficStep, ReportsStep, TenantsStep, ImportStep, BillsStep, SyncStep

\* What an office does is what each of its components may do.
LEMMA StepsOfAll ==
    ASSUME [OfficeNext]_officeVars
    PROVE  /\ [Next]_vars
           /\ [StockNext]_transferVars
           /\ [BeatNext]_routeVars
           /\ [ReviewNext]_changeVars
           /\ [DeskNext]_deskVars
           /\ [AccountNext]_accountVars
           /\ [PayNext]_paymentVars
           /\ [TripNext]_tripVars
           /\ [UpkeepNext]_upkeepVars
           /\ [TrafficNext]_trafficVars
           /\ [ReportNext]_reportVars
           /\ [TenancyNext]_tenancyVars
           /\ [ImportNext]_importVars
           /\ [BillNext]_billingVars
           /\ [PullNext]_pullVars
<1>1. CASE UNCHANGED officeVars
  BY <1>1 DEF officeVars
<1>2. CASE OfficeNext
  <2>1. [Next]_vars
    BY <1>2, OneComponentSteps DEF Others
  <2>2. [StockNext]_transferVars
    BY <1>2, OneComponentSteps DEF Others
  <2>3. [BeatNext]_routeVars
    BY <1>2, OneComponentSteps DEF Others
  <2>4. [ReviewNext]_changeVars
    BY <1>2, OneComponentSteps DEF Others
  <2>5. [DeskNext]_deskVars
    BY <1>2, OneComponentSteps DEF Others
  <2>6. [AccountNext]_accountVars
    BY <1>2, OneComponentSteps DEF Others
  <2>7. [PayNext]_paymentVars
    BY <1>2, OneComponentSteps DEF Others
  <2>8. [TripNext]_tripVars
    BY <1>2, OneComponentSteps DEF Others
  <2>9. [UpkeepNext]_upkeepVars
    BY <1>2, OneComponentSteps DEF Others
  <2>10. [TrafficNext]_trafficVars
    BY <1>2, OneComponentSteps DEF Others
  <2>11. [ReportNext]_reportVars
    BY <1>2, OneComponentSteps DEF Others
  <2>12. [TenancyNext]_tenancyVars
    BY <1>2, OneComponentSteps DEF Others
  <2>13. [ImportNext]_importVars
    BY <1>2, OneComponentSteps DEF Others
  <2>14. [BillNext]_billingVars
    BY <1>2, OneComponentSteps DEF Others
  <2>15. [PullNext]_pullVars
    BY <1>2, OneComponentSteps DEF Others
  <2> QED BY <2>1, <2>2, <2>3, <2>4, <2>5, <2>6, <2>7, <2>8, <2>9, <2>10, <2>11, <2>12, <2>13, <2>14, <2>15
<1> QED BY <1>1, <1>2

\* The requests, jobs and reports of the office (the apps of backend/apps that share no
\* tables) do not meet: seen from one component, a behaviour of all of them is one of
\* that component in which nothing happens while the others work.
THEOREM OfficeRunsEach ==
    OfficeSpec => /\ Spec
                  /\ StockSpec
                  /\ BeatSpec
                  /\ ReviewSpec
                  /\ DeskSpec
                  /\ AccountSpec
                  /\ PaySpec
                  /\ TripSpec
                  /\ UpkeepSpec
                  /\ TrafficSpec
                  /\ ReportSpec
                  /\ TenancySpec
                  /\ ImportSpec
                  /\ BillSpec
                  /\ PullSpec
<1>1. OfficeInit => /\ Init
                    /\ StockInit
                    /\ BeatInit
                    /\ ReviewInit
                    /\ DeskInit
                    /\ AccountInit
                    /\ PayInit
                    /\ TripInit
                    /\ UpkeepInit
                    /\ TrafficInit
                    /\ ReportInit
                    /\ TenancyInit
                    /\ ImportInit
                    /\ BillInit
                    /\ PullInit
  BY DEF OfficeInit
<1>2. [OfficeNext]_officeVars => /\ [Next]_vars
                                 /\ [StockNext]_transferVars
                                 /\ [BeatNext]_routeVars
                                 /\ [ReviewNext]_changeVars
                                 /\ [DeskNext]_deskVars
                                 /\ [AccountNext]_accountVars
                                 /\ [PayNext]_paymentVars
                                 /\ [TripNext]_tripVars
                                 /\ [UpkeepNext]_upkeepVars
                                 /\ [TrafficNext]_trafficVars
                                 /\ [ReportNext]_reportVars
                                 /\ [TenancyNext]_tenancyVars
                                 /\ [ImportNext]_importVars
                                 /\ [BillNext]_billingVars
                                 /\ [PullNext]_pullVars
  BY StepsOfAll
<1> QED BY <1>1, <1>2, PTL DEF OfficeSpec, Spec, StockSpec, BeatSpec, ReviewSpec, DeskSpec, AccountSpec, PaySpec, TripSpec,
                              UpkeepSpec, TrafficSpec, ReportSpec, TenancySpec, ImportSpec, BillSpec, PullSpec

\* The bounds of every component, as far as a type depends on them.
OfficeBounds ==
    /\ {MaxDeskCalls, MaxReviews, MaxPulls} \subseteq Nat
    /\ AccountBounds /\ TenantBounds /\ TrafficBounds /\ PayBounds
    /\ TripBounds /\ BeatBounds /\ ReportBounds /\ UpkeepBounds /\ OrdinaryEntries

\* Every component keeps its types, whatever the others do (AllTypesOK of the run
\* office): rows, requests, jobs and reports never hold what their code cannot read.
THEOREM OfficeTyped == OfficeBounds => (OfficeSpec => []AllTypesOK)
<1> SUFFICES ASSUME OfficeBounds PROVE OfficeSpec => []AllTypesOK
  OBVIOUS
<1>1. /\ MaxDeskCalls \in Nat /\ MaxReviews \in Nat /\ MaxPulls \in Nat
      /\ AccountBounds /\ TenantBounds /\ TrafficBounds /\ PayBounds
      /\ TripBounds /\ BeatBounds /\ ReportBounds /\ UpkeepBounds /\ OrdinaryEntries
  BY DEF OfficeBounds
<1>2. Spec => []TypeOK
  BY <1>1, TypeCorrect
<1>3. StockSpec => [](StockInv /\ StockTypeOK)
  BY <1>1, StockTyped
<1>4. BeatSpec => []BeatTypeOK
  BY <1>1, BeatsTyped
<1>5. ReviewSpec => []ReviewTypeOK
  BY <1>1, ReviewsTyped
<1>6. DeskSpec => []DeskTypeOK
  BY <1>1, DesksTyped
<1>7. AccountSpec => []AccountTypeOK
  BY <1>1, AccountsTyped
<1>8. PaySpec => []PayTypeOK
  BY <1>1, PaymentsTyped
<1>9. TripSpec => []TripTypeOK
  BY <1>1, TripsTyped
<1>10. UpkeepSpec => []UpkeepTypeOK
  BY <1>1, UpkeepsTyped
<1>11. TrafficSpec => []TrafficTypeOK
  BY <1>1, TrafficStaysTyped
<1>12. ReportSpec => []ReportTypeOK
  BY <1>1, ReportsTyped
<1>13. TenancySpec => []TenancyTypeOK
  BY <1>1, TenantsTyped
<1>14. ImportSpec => []ImportTypeOK
  BY <1>1, ImportsTyped
<1>15. BillSpec => []BillTypeOK
  BY <1>1, BillsTyped
<1>16. PullSpec => []PullTypeOK
  BY <1>1, PullsTyped
<1>17. TypeOK /\ StockTypeOK /\ BeatTypeOK /\ ReviewTypeOK /\ DeskTypeOK /\ AccountTypeOK /\ PayTypeOK /\ TripTypeOK
       /\ UpkeepTypeOK /\ TrafficTypeOK /\ ReportTypeOK /\ TenancyTypeOK /\ ImportTypeOK /\ BillTypeOK /\ PullTypeOK
       => AllTypesOK
  BY DEF AllTypesOK
<1> QED BY <1>2, <1>3, <1>4, <1>5, <1>6, <1>7, <1>8, <1>9,
           <1>10, <1>11, <1>12, <1>13, <1>14, <1>15, <1>16, <1>17, OfficeRunsEach, PTL
==============================================================================
