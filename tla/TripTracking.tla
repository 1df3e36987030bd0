---------------------------- MODULE TripTracking ----------------------------
(***************************************************************************)
(* Trips, outlet check-ins and location pings (backend/apps/fleet), and    *)
(* what the reports read off them on every call: live map, geofence,       *)
(* speeding and idle time (fleet/services.py), spoofed check-ins,          *)
(* impossible travel and missed visits (apps/reporting).  Phones push      *)
(* pings when they are online again, so pings arrive in any order, of any  *)
(* moment of the phone's clock and also several of the same moment, which  *)
(* order_by("recorded_at") leaves in whatever order the database likes.    *)
(* Places are points of a line; time is counted in ticks.                  *)
(***************************************************************************)
EXTENDS Integers, FiniteSets, FiniteSetsExt, Functions

CONSTANTS Trips, NoTrip,
          AgentOf,               \* AgentOf[t]: the agent of the trip
          TripStops, StopPlace,  \* customers of the beat and their addresses
          TripPlaces, NoPlace, NoFix, \* NoFix: a check-in without coordinates
          Zones,                 \* geofences: [at, radius, kind, active]
          SpeedLimit, ImpossibleSpeed, \* places per tick
          ImpossibleMinGap, IdleRadius, IdleAlert, DeviationLimit, SpoofDistance, PingMaxAge,
          MaxTime, MaxPings, MaxTripCalls \* bounds

ASSUME TripAssumption ==
    /\ NoTrip \notin Trips
    /\ TripPlaces \subseteq Int
    /\ SpeedLimit \in Int /\ MaxPings \in Nat

VARIABLES
    now,
    trip,   \* trip[t]: the Trip row [status, from, to], times -1 for null
    copy,   \* copy[t]: the row a PATCH has read, <<>> for none
    visit,  \* visit[t]: where the agent was when checking in at each stop
    left,   \* left[t]: stops checked out of
    ping,   \* the LocationPing rows: [trip, agent, at, place, n]; n tells ties apart
    tripCalls

tripVars == <<now, trip, copy, visit, left, ping, tripCalls>>

NewTrip == [status |-> "planned", from |-> -1, to |-> -1]
Gone == [NewTrip EXCEPT !.status = "gone"]

Drivers == {AgentOf[t] : t \in Trips}

TripInit ==
    /\ now = 0
    /\ trip = [t \in Trips |-> NewTrip]
    /\ copy = [t \in Trips |-> <<>>]
    /\ visit = [t \in Trips |-> [s \in TripStops |-> NoPlace]]
    /\ left = [t \in Trips |-> {}]
    /\ ping = {}
    /\ tripCalls = 0

TripTick ==
    /\ now < MaxTime
    /\ now' = now + 1
    /\ UNCHANGED <<trip, copy, visit, left, ping, tripCalls>>

TripCall(t) ==
    /\ trip[t] # Gone
    /\ tripCalls < MaxTripCalls
    /\ tripCalls' = tripCalls + 1

\* start and end do not look at the status; only their columns are saved.
StartTrip(t) ==
    /\ TripCall(t)
    /\ trip' = [trip EXCEPT ![t].status = "in_progress", ![t].from = now]
    /\ UNCHANGED <<now, copy, visit, left, ping>>

EndTrip(t) ==
    /\ TripCall(t)
    /\ trip' = [trip EXCEPT ![t].status = "completed", ![t].to = now]
    /\ UNCHANGED <<now, copy, visit, left, ping>>

\* A push or PATCH of the phone's own record: every column of the copy is saved.
ReadTrip(t) ==
    /\ copy[t] = <<>>
    /\ TripCall(t)
    /\ copy' = [copy EXCEPT ![t] = <<trip[t]>>]
    /\ UNCHANGED <<now, trip, visit, left, ping>>

SaveTrip(t) ==
    /\ copy[t] # <<>>
    /\ \E status \in {"in_progress", "completed"}, from, to \in {-1, 0, now} :
          trip' = [trip EXCEPT ![t] = [status |-> status,
                      from |-> IF from = -1 THEN copy[t][1].from ELSE from,
                      to |-> IF to = -1 THEN copy[t][1].to ELSE to]]
    /\ copy' = [copy EXCEPT ![t] = <<>>]
    /\ UNCHANGED <<now, visit, left, ping, tripCalls>>

\* DELETE: the checkpoints go with the trip, the pings stay without one.
DestroyTrip(t) ==
    /\ TripCall(t)
    /\ trip' = [trip EXCEPT ![t] = Gone]
    /\ copy' = [copy EXCEPT ![t] = <<>>]
    /\ visit' = [visit EXCEPT ![t] = [s \in TripStops |-> NoPlace]]
    /\ left' = [left EXCEPT ![t] = {}]
    /\ ping' = {IF p.trip = t THEN [p EXCEPT !.trip = NoTrip] ELSE p : p \in ping}
    /\ UNCHANGED now

CheckInVisit(t, s, place) ==
    /\ TripCall(t)
    /\ visit' = [visit EXCEPT ![t][s] = place]
    /\ UNCHANGED <<now, trip, copy, left, ping>>

\* check_out does not ask for a check-in.
CheckOut(t, s) ==
    /\ TripCall(t)
    /\ left' = [left EXCEPT ![t] = @ \cup {s}]
    /\ UNCHANGED <<now, trip, copy, visit, ping>>

\* A pushed ping, perhaps of an earlier moment or of one there is a ping of already,
\* perhaps without a trip; it is the n-th of its agent and moment.
PushPing(t, agent, at, place) ==
    LET ties == {p \in ping : p.agent = agent /\ p.at = at}
        n == Cardinality(ties) + 1 IN
    /\ t # NoTrip => trip[t] # Gone /\ agent = AgentOf[t]
    /\ Cardinality(ping) < MaxPings
    /\ ping' = ping \cup {[trip |-> t, agent |-> agent, at |-> at, place |-> place, n |-> n]}
    /\ UNCHANGED <<now, trip, copy, visit, left, tripCalls>>

TripNext ==
    \/ TripTick
    \/ \E t \in Trips :
          \/ StartTrip(t) \/ EndTrip(t) \/ ReadTrip(t) \/ SaveTrip(t) \/ DestroyTrip(t)
          \/ \E s \in TripStops : CheckOut(t, s) \/ \E p \in TripPlaces \cup {NoFix} : CheckInVisit(t, s, p)
    \/ \E t \in Trips \cup {NoTrip}, a \in Drivers, at \in 0..MaxTime, p \in TripPlaces :
          PushPing(t, a, at, p)

TripSpec == TripInit /\ [][TripNext]_tripVars

-----------------------------------------------------------------------------
(* The reports, computed from the rows whenever they are asked for.  f is  *)
(* the order in which the database hands the pings of a report over.       *)

Dist(a, b) == IF a < b THEN b - a ELSE a - b

PingsOf(t) == {p \in ping : p.trip = t}
PingsBy(a) == {p \in ping : p.agent = a}

\* order_by("recorded_at"): the place of each ping in the list; ties in any order.
Orders(S) == {f \in Injection(S, 1..MaxPings) : \A p, q \in S : p.at < q.at => f[p] < f[q]}

Latest(S, f) == CHOOSE p \in S : \A q \in S : f[q] <= f[p]

\* zip(pings, pings[1:])
Hops(S, f) == {h \in S \X S : f[h[1]] < f[h[2]] /\ ~ \E q \in S : f[h[1]] < f[q] /\ f[q] < f[h[2]]}

Gap(h) == h[2].at - h[1].at
Length(h) == Dist(h[1].place, h[2].place)

\* Mutant of SpeedingEvents: hops of one tick are too short to be judged.
SpeedingEvents_Coarse(S, f) == {h \in Hops(S, f) : Gap(h) > 1 /\ Length(h) > SpeedLimit * Gap(h)}

\* trip_speeding_events: the average speed of a hop is above the limit; a hop that
\* took no time is passed over, however long it is.
SpeedingEvents(S, f) == {h \in Hops(S, f) : Gap(h) > 0 /\ Length(h) > SpeedLimit * Gap(h)}

\* trip_idle_minutes: hops that stay within a small radius.
Stays(S, f) == {h \in Hops(S, f) : Length(h) <= IdleRadius}

IdleTime(t, f) ==
    LET stays == Stays(PingsOf(t), f) IN SumFunctionOnSet([h \in stays |-> Gap(h)], stays)

\* trip_safety_score: -1 without a duration; 5 for an event, 5 for a tenth idle.
SafetyScore(t, f) ==
    LET duration == trip[t].to - trip[t].from
        idle == Min({IdleTime(t, f), duration})
        score == 100 - 5 * Cardinality(SpeedingEvents(PingsOf(t), f)) - 5 * ((10 * idle) \div duration) IN
    IF -1 \in {trip[t].from, trip[t].to} \/ duration <= 0 THEN -1
    ELSE Max({0, score})

\* driver_safety_scores: completed trips that have a score, and what is shown of an
\* agent who has any.
Scored(a, f) == {t \in Trips : AgentOf[t] = a /\ trip[t].status = "completed" /\ SafetyScore(t, f) # -1}

DriverScore(a, f) ==
    LET scored == Scored(a, f)
        n == Cardinality(scored)
        total(x) == SumFunctionOnSet(x, scored) IN
    [trips    |-> n,
     average  |-> IF n = 0 THEN -1 ELSE total([t \in scored |-> SafetyScore(t, f)]) \div n,
     speeding |-> total([t \in scored |-> Cardinality(SpeedingEvents(PingsOf(t), f))]),
     idle     |-> total([t \in scored |-> IdleTime(t, f)])]

\* route_deviation_points: far from every stop of the beat.
Deviations(t) == {p \in PingsOf(t) : \A s \in TripStops : Dist(p.place, StopPlace[s]) > DeviationLimit}

\* trip_route_analytics: completed trips with something notable.
Notable(f) ==
    {t \in Trips : trip[t].status = "completed" /\ trip[t].from # -1
                      /\ (IdleTime(t, f) >= IdleAlert \/ Deviations(t) # {})}

\* The last ping of the trip, or else of its agent; the live map takes any age.
LastPings(t, since, f) ==
    LET own == {p \in PingsOf(t) : p.at >= since}
        any == {p \in PingsBy(AgentOf[t]) : p.at >= since} IN
    IF own # {} THEN {Latest(own, f)} ELSE IF any # {} THEN {Latest(any, f)} ELSE {}

LiveMap(f) ==
    {<<t, LastPings(t, 0, f), {s \in TripStops : visit[t][s] # NoPlace}>> :
        t \in {u \in Trips : trip[u].status = "in_progress"}}

\* geofence_alerts: of trips in progress, by their last fresh ping.
Restricted == {z \in Zones : z.active /\ z.kind = "restricted"}

GeofenceAlerts(f) ==
    {x \in Trips \X Restricted :
        /\ trip[x[1]].status = "in_progress"
        /\ \E p \in LastPings(x[1], now - PingMaxAge, f) : Dist(p.place, x[2].at) <= x[2].radius}

SpoofedCheckIns ==
    {x \in Trips \X TripStops :
        LET place == visit[x[1]][x[2]] IN
        place \in TripPlaces /\ Dist(place, StopPlace[x[2]]) >= SpoofDistance}

\* impossible_travel_alerts: hops of all pings of an agent.
ImpossibleTravel(a, f) ==
    {h \in Hops(PingsBy(a), f) : Gap(h) >= ImpossibleMinGap /\ Length(h) >= ImpossibleSpeed * Gap(h)}

\* missed_visit_alerts: stops of a started trip without a check-in.
MissedVisits ==
    {x \in Trips \X TripStops : trip[x[1]].from # -1 /\ visit[x[1]][x[2]] = NoPlace}

-----------------------------------------------------------------------------
(* Properties *)

TripTypeOK ==
    /\ now \in 0..MaxTime /\ tripCalls \in 0..MaxTripCalls
    /\ \A t \in Trips :
          /\ trip[t].status \in {"planned", "in_progress", "completed", "gone"}
          /\ {trip[t].from, trip[t].to} \subseteq -1..MaxTime
          /\ Deviations(t) \subseteq ping
    /\ visit \in [Trips -> [TripStops -> TripPlaces \cup {NoPlace, NoFix}]]
    /\ \A p \in ping : p.trip \in Trips \cup {NoTrip} /\ p.agent \in Drivers
    /\ \A x \in SpoofedCheckIns : x \notin MissedVisits
    /\ \A f \in Orders(ping) :
          /\ \A t \in Trips : SafetyScore(t, f) \in -1..100 /\ IdleTime(t, f) \in 0..MaxTime
          /\ \A x \in LiveMap(f) : x[2] \subseteq ping /\ x[3] \subseteq TripStops
          /\ GeofenceAlerts(f) \subseteq Trips \X Zones /\ Notable(f) \subseteq Trips
          /\ \A a \in Drivers :
                DriverScore(a, f).average \in -1..100 /\ ImpossibleTravel(a, f) \subseteq ping \X ping

\* No other ping of S is of the moment of p.
OnlyOfItsMoment(p, S) == \A q \in S : q.at = p.at => q = p

\* Lateness alone does not whitewash: a trip that has speeding events in whatever
\* order its pings are read keeps having some when a ping of a moment of its own
\* arrives late and splits a hop between the others, whatever else happens to the
\* trip short of its deletion, and a score it has by then is never the spotless one.
SpeedingStays ==
    [][\A t \in Trips :
          /\ PingsOf(t) \subseteq PingsOf(t)'
          /\ \A p \in PingsOf(t)' \ PingsOf(t) : OnlyOfItsMoment(p, PingsOf(t)')
          /\ \A f \in Orders(PingsOf(t)) : SpeedingEvents(PingsOf(t), f) # {}
          => \A f \in Orders(PingsOf(t)') :
                SpeedingEvents(PingsOf(t)', f) # {} /\ SafetyScore(t, f)' < 100]_tripVars
=============================================================================
