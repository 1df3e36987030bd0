\* Each of the components that share no state, one at a time.
SPECIFICATION OfficeSpec
CONSTANTS
    None = None
    W1 = W1
    W2 = W2
    \* SalesPosting
    Docs <- SerialDocs
    Doc <- SerialMix
    Items <- AB
    CreditLimit = 4
    Edits = {"approve"}
    MaxOpen = 1
    MaxAborts = 2
    MaxEdits = 1
    \* StockTransfer
    Transfers = {1, 2}
    Sheet <- LoadAndUnload
    Godowns = {"wh", "van"}
    Goods <- AB
    Opening = 5
    Callers <- Pair
    NoQty <- NoQuantity
    NoTransfer = 0
    MaxStockDeaths = 1
    MaxStockCalls = 3
    \* BeatRoute
    BeatStops <- FourStops
    Planned <- Template
    BeatPlaces = {0, 1, 3}
    Metres <- OnALine
    MaxTwoOptPasses = 3
    MaxStarts = 2
    \* ChangeRequests
    Users = {"ann", "bob"}
    RoleOf <- Role
    Targets = {"super_admin", "system_it_admin", "hook"}
    KindOf <- Kind
    Proposals <- Proposed
    Reviewers <- Pair
    NoUser = None
    NoRequest = 0
    MaxRequests = 2
    MaxReviews = 2
    \* FieldDesk
    Agents = {"ann"}
    Supervisors = {"sue", "sam"}
    Reasons = {"blurred"}
    Desks <- Pair
    Tokens = {"x"}
    NoOne = None
    NoReason = None
    MaxExpenses = 1
    MaxShifts = 2
    MaxDeskCalls = 3
    \* Accounts
    Emails = {"e"}
    Names = {"n"}
    Roles = {"r"}
    NoRole = None
    Admins <- Pair
    MaxSignups = 2
    MaxAdminCalls = 2
    MaxChanges = 1
    \* Payments
    Bills = {"b"}
    Amounts = {1}
    Secrets = {"s"}
    NoSecret = None
    PayHooks <- Pair
    MaxOrders = 2
    MaxHookCalls = 3
    MaxPayEdits = 2
    \* TripTracking
    Trips = {1}
    NoTrip = 0
    AgentOf <- Ann
    TripStops = {"shop"}
    StopPlace <- ShopAt
    TripPlaces = {0, 5}
    NoPlace <- Nowhere
    NoFix <- Unfixed
    Zones <- TwoZones
    SpeedLimit = 2
    ImpossibleSpeed = 2
    ImpossibleMinGap = 2
    IdleRadius = 0
    IdleAlert = 1
    DeviationLimit = 2
    SpoofDistance = 3
    PingMaxAge = 1
    MaxTime = 2
    MaxPings = 3
    MaxTripCalls = 1
    \* FleetUpkeep
    Schedules = {1, 2}
    Deadlines <- Dues
    Expiry = 2
    Odometers = {8, 15, 30}
    Litres = {1, 2}
    MinHistory = 2
    Baseline = 2
    SoonKm = 2
    SoonDays = 0
    MaxDay = 2
    MaxUpkeepCalls = 3
    \* ConnectorTraffic
    Nonces = {"n"}
    Window = 1
    NonceTTL = 3
    Skew = {0, 1}
    Documents = {"d"}
    Hooks = {"w", "x"}
    MaxClock = 4
    MaxHookChanges = 1
    \* FieldReports
    Salesmen = {"ann", "bob"}
    Wares = {"i"}
    ReportDiscounts = {0, 40}
    ReportQuantities = {2}
    PatternWindow = 2
    MinInvoices = 1
    MinHistoryDays = 2
    UnusualDiscount = 15
    VarianceFloor = 1
    InactiveAfter = 1
    OverstockDays = 21
    MaxReportDay = 4
    MaxEvents = 3
    \* Tenancy
    Slugs = {"s1", "s2"}
    Databases = {"d1", "d2"}
    Workers <- Pair
    NoDatabase = None
    MaxTenants = 2
    MaxTenantEdits = 1
    MaxRestarts = 1
    \* MasterImport
    Importers <- Pair
    Sheets <- ImportSheets
    ByHand <- MadeByHand
    Codes = {"E1", "E2"}
    NoRoleCell = None
    NoCode = None
    NoSheet = None
    MaxUploads = 3
    MaxByHand = 1
    MaxImportDeaths = 1
    \* Billing
    Lines = {1, 2}
    ItemOf <- TeaAndMilk
    Rate <- Rates
    GstRate <- GstRates
    Schemes = {"s"}
    SchemeItems <- TeaScheme
    Offers <- OfficeOffers
    Bonuses <- OneBonus
    Quantities = {1, 4}
    Discounts = {0, 7}
    MaxLineEdits = 2
    MaxOffers = 2
    \* PullCursor
    SyncRows = {"customer"}
    Pulls <- Pair
    MaxWrites = 2
    MaxPulls = 3
    MaxPhoneFaults = 1
SYMMETRY Symmetric
INVARIANTS
    AllTypesOK BalanceExact PaymentStatusExact ItemsConserved RouteKept ApprovedChangesStand
    DecisionsWhole  OrdersSettleOnce WorstShown AtMostOnce
    AlertsSingleOut TenantsApart ErrorsOnlyShrink RecomputeStable NothingElseMissed
PROPERTIES BreachFlagged SpeedingStays
CHECK_DEADLOCK FALSE
