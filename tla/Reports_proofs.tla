--------------------------- MODULE Reports_proofs ---------------------------
(***************************************************************************)
(* Theorems about what is worked out from recorded rows, for any pings,    *)
(* orders of arrival, stops, distances, agents, discounts, days, invoices, *)
(* schedules and bounds: late pings do not clear a trip of its speeding    *)
(* events, a beat keeps its stops and start and gets no longer, an alert   *)
(* singles somebody or something out, a vehicle is shown at its worst, and *)
(* rows and figures keep their types: no trip stands still for longer than *)
(* time has passed, no fuel costs less than nothing.                       *)
(***************************************************************************)
EXTENDS TripTracking, BeatRoute, FieldReports, FleetUpkeep, Sums, TLAPS

-----------------------------------------------------------------------------
(* TripTracking: pings that arrive late.  Hops of a set of pings first.      *)

LEMMA MinMaxOf ==
    ASSUME NEW a \in Int, NEW b \in Int
    PROVE  /\ Min({a, b}) \in {a, b} /\ Min({a, b}) <= a /\ Min({a, b}) <= b
           /\ Max({a, b}) \in {a, b} /\ Max({a, b}) >= a /\ Max({a, b}) >= b
<1>1. \E x \in {a, b} : \A y \in {a, b} : x <= y
  OBVIOUS
<1>2. \E x \in {a, b} : \A y \in {a, b} : x >= y
  OBVIOUS
<1>3. Min({a, b}) \in {a, b} /\ \A y \in {a, b} : Min({a, b}) <= y
  BY <1>1 DEF Min
<1>4. Max({a, b}) \in {a, b} /\ \A y \in {a, b} : Max({a, b}) >= y
  BY <1>2 DEF Max
<1> QED BY <1>3, <1>4

\* Pings with a time and a place, and an order of them that follows the time and puts
\* the pings of a moment one after the other.
Pings(S) == \A p \in S : p.at \in Int /\ p.place \in Int

Ordering(S, f) ==
    /\ \A p \in S : f[p] \in Int
    /\ \A p, q \in S : (p.at < q.at => f[p] < f[q]) /\ (f[p] = f[q] => p = q)

LEMMA OrderingOf ==
    ASSUME NEW T, NEW f \in Orders(T), NEW S, S \subseteq T
    PROVE  Ordering(S, f)
<1>1. f \in [T -> 1..MaxPings] /\ IsInjective(f) /\ \A p, q \in T : p.at < q.at => f[p] < f[q]
  BY DEF Orders, Injection
<1>2. \A p \in T : f[p] \in Int
  BY <1>1, TripAssumption
<1> QED BY <1>1, <1>2 DEF Ordering, IsInjective

\* An order of pings is one of some of them.
LEMMA OrderOfSome ==
    ASSUME NEW T, NEW f \in Orders(T), NEW S, S \subseteq T
    PROVE  \E g \in Orders(S) : \A p \in S : g[p] = f[p]
<1> DEFINE g == [p \in S |-> f[p]]
<1>1. f \in [T -> 1..MaxPings] /\ IsInjective(f) /\ \A p, q \in T : p.at < q.at => f[p] < f[q]
  BY DEF Orders, Injection
<1>2. g \in [S -> 1..MaxPings] /\ \A p \in S : g[p] = f[p]
  BY <1>1
<1>3. IsInjective(g)
  BY <1>1 DEF IsInjective
<1> HIDE DEF g
<1>4. g \in Orders(S)
  BY <1>1, <1>2, <1>3 DEF Orders, Injection
<1> QED BY <1>2, <1>4

LEMMA SameHops ==
    ASSUME NEW S, NEW f, NEW g, \A p \in S : g[p] = f[p]
    PROVE  SpeedingEvents(S, g) = SpeedingEvents(S, f)
<1>1. Hops(S, g) = Hops(S, f)
  BY DEF Hops
<1> QED BY <1>1 DEF SpeedingEvents

LEMMA HopsOf ==
    ASSUME NEW S, Pings(S), NEW f, Ordering(S, f), NEW h \in Hops(S, f)
    PROVE  /\ h[1] \in S /\ h[2] \in S /\ h = <<h[1], h[2]>> /\ Gap(h) \in Nat /\ Length(h) \in Nat
           /\ f[h[1]] < f[h[2]] /\ \A q \in S : ~(f[h[1]] < f[q] /\ f[q] < f[h[2]])
<1>1. h \in S \X S /\ f[h[1]] < f[h[2]] /\ ~ \E q \in S : f[h[1]] < f[q] /\ f[q] < f[h[2]]
  BY DEF Hops
<1>2. h[1] \in S /\ h[2] \in S /\ h = <<h[1], h[2]>>
  BY <1>1
<1>3. h[1].at \in Int /\ h[2].at \in Int /\ h[1].place \in Int /\ h[2].place \in Int
  BY <1>2 DEF Pings
<1>4. ~(h[2].at < h[1].at)
  BY <1>1, <1>2 DEF Ordering
<1> QED BY <1>1, <1>2, <1>3, <1>4 DEF Gap, Length, Dist

LEMMA HopsFinite ==
    ASSUME NEW S, IsFiniteSet(S), NEW f
    PROVE  IsFiniteSet(Hops(S, f))
<1>1. IsFiniteSet(S \X S) /\ Hops(S, f) \subseteq S \X S
  BY FS_Product DEF Hops
<1> QED BY <1>1, FS_Subset

\* A hop that is split is too fast in one of its halves.
LEMMA Halved ==
    ASSUME NEW L \in Int, NEW g \in Int, NEW k \in Int, NEW m \in Int, NEW n \in Int,
           m <= L * g, n <= L * k
    PROVE  m + n <= L * (g + k)
<1>1. L * (g + k) = L * g + L * k
  OBVIOUS
<1>2. L * g \in Int /\ L * k \in Int
  OBVIOUS
<1> QED BY <1>1, <1>2

LEMMA SplitHop ==
    ASSUME SpeedLimit \in Int, NEW S, NEW r, Pings(S \cup {r}), \A p \in S : p.at # r.at,
           NEW f, Ordering(S \cup {r}, f), SpeedingEvents(S, f) # {}
    PROVE  SpeedingEvents(S \cup {r}, f) # {}
<1> DEFINE T == S \cup {r}
<1>1. PICK h \in Hops(S, f) : Gap(h) > 0 /\ Length(h) > SpeedLimit * Gap(h)
  BY DEF SpeedingEvents
<1> DEFINE a == h[1]
           b == h[2]
<1>2. Pings(S) /\ Ordering(S, f)
  BY DEF Pings, Ordering
<1>3. /\ a \in S /\ b \in S /\ h = <<a, b>> /\ f[a] < f[b]
      /\ \A q \in S : ~(f[a] < f[q] /\ f[q] < f[b])
  BY <1>2, HopsOf
<1>4. /\ a.at \in Int /\ b.at \in Int /\ r.at \in Int /\ a.place \in Int /\ b.place \in Int /\ r.place \in Int
      /\ a.at # r.at /\ b.at # r.at
  BY <1>3 DEF Pings
<1>5. b.at - a.at > 0 /\ Dist(a.place, b.place) > SpeedLimit * (b.at - a.at)
  BY <1>1 DEF Gap, Length
<1>6. \A q \in T : f[q] \in Int
  BY DEF Ordering
<1>9. (r.at < a.at => f[r] < f[a]) /\ (b.at < r.at => f[b] < f[r])
  BY <1>3 DEF Ordering
<1> HIDE DEF a, b
<1>7. CASE f[a] < f[r] /\ f[r] < f[b]
  <2>0. a.at < r.at /\ r.at < b.at
    BY <1>3, <1>4, <1>6, <1>7, <1>9
  <2>1. <<a, r>> \in Hops(T, f)
    <3>1. \A q \in T : ~(f[a] < f[q] /\ f[q] < f[r])
      BY <1>3, <1>6, <1>7
    <3>2. <<a, r>> \in T \X T /\ <<a, r>>[1] = a /\ <<a, r>>[2] = r
      BY <1>3
    <3> QED BY <1>7, <3>1, <3>2 DEF Hops
  <2>2. <<r, b>> \in Hops(T, f)
    <3>1. \A q \in T : ~(f[r] < f[q] /\ f[q] < f[b])
      BY <1>3, <1>6, <1>7
    <3>2. <<r, b>> \in T \X T /\ <<r, b>>[1] = r /\ <<r, b>>[2] = b
      BY <1>3
    <3> QED BY <1>7, <3>1, <3>2 DEF Hops
  <2> DEFINE g == r.at - a.at
             k == b.at - r.at
             m == Dist(a.place, r.place)
             n == Dist(r.place, b.place)
  <2>3. g \in Int /\ k \in Int /\ g > 0 /\ k > 0 /\ m \in Int /\ n \in Int
        /\ g + k = b.at - a.at /\ Dist(a.place, b.place) <= m + n /\ Dist(a.place, b.place) \in Int
    BY <1>4, <2>0 DEF Dist
  <2>4. Gap(<<a, r>>) = g /\ Length(<<a, r>>) = m /\ Gap(<<r, b>>) = k /\ Length(<<r, b>>) = n
    BY DEF Gap, Length
  <2> HIDE DEF g, k, m, n
  <2>5. m > SpeedLimit * g \/ n > SpeedLimit * k
    <3> SUFFICES ASSUME ~(m > SpeedLimit * g), ~(n > SpeedLimit * k) PROVE FALSE
      OBVIOUS
    <3>1. SpeedLimit * g \in Int /\ SpeedLimit * k \in Int /\ SpeedLimit * (g + k) \in Int
      BY <2>3
    <3>2. m <= SpeedLimit * g /\ n <= SpeedLimit * k
      BY <2>3, <3>1
    <3>3. m + n <= SpeedLimit * (g + k)
      BY <2>3, <3>2, Halved
    <3>4. Dist(a.place, b.place) > SpeedLimit * (g + k)
      BY <1>5, <2>3
    <3> QED BY <2>3, <3>1, <3>3, <3>4
  <2> QED BY <2>1, <2>2, <2>3, <2>4, <2>5 DEF SpeedingEvents
<1>8. CASE ~(f[a] < f[r] /\ f[r] < f[b])
  <2>1. \A q \in T : ~(f[a] < f[q] /\ f[q] < f[b])
    BY <1>3, <1>8
  <2>2. h \in T \X T /\ h[1] = a /\ h[2] = b
    BY <1>3 DEF a, b
  <2>3. h \in Hops(T, f)
    BY <1>3, <2>1, <2>2 DEF Hops
  <2> QED BY <1>1, <2>3 DEF SpeedingEvents
<1> QED BY <1>7, <1>8

\* A score is a percentage or missing, and with a speeding event not the spotless one.
LEMMA Quotient == ASSUME NEW i \in Nat, NEW d \in Nat \ {0} PROVE (10 * i) \div d \in Nat
OBVIOUS

LEMMA ScoreRange ==
    ASSUME NEW t \in Trips, trip[t].from \in Int, trip[t].to \in Int,
           IsFiniteSet(ping), Pings(ping), NEW f, Ordering(PingsOf(t), f)
    PROVE  /\ IdleTime(t, f) \in Nat /\ SafetyScore(t, f) \in -1..100
           /\ SpeedingEvents(PingsOf(t), f) # {} => SafetyScore(t, f) < 100
<1> DEFINE S == PingsOf(t)
           n == Cardinality(SpeedingEvents(S, f))
           duration == trip[t].to - trip[t].from
           idle == Min({IdleTime(t, f), duration})
           score == 100 - 5 * n - 5 * ((10 * idle) \div duration)
<1>1. S \subseteq ping /\ IsFiniteSet(S) /\ Pings(S) /\ Ordering(S, f)
  BY FS_Subset DEF PingsOf, Pings
<1>2. IsFiniteSet(Hops(S, f))
  BY <1>1, HopsFinite
<1>3. n \in Nat /\ (SpeedingEvents(S, f) # {} => n > 0)
  <2>1. IsFiniteSet(SpeedingEvents(S, f))
    BY <1>2, FS_Subset DEF SpeedingEvents
  <2>2. n \in Nat
    BY <2>1, FS_CardinalityType
  <2>3. SpeedingEvents(S, f) # {} => n # 0
    BY <2>1, FS_EmptySet
  <2> HIDE DEF n
  <2> QED BY <2>2, <2>3
<1>4. IdleTime(t, f) \in Nat
  <2> DEFINE Q == Stays(S, f)
             w == [h \in Q |-> Gap(h)]
  <2>1. IsFiniteSet(Q) /\ Q \subseteq Hops(S, f)
    BY <1>2, FS_Subset DEF Stays
  <2>2. \A h \in Q : w[h] \in Nat
    BY <1>1, <2>1, HopsOf
  <2>3. IdleTime(t, f) = SumFunctionOnSet(w, Q)
    BY DEF IdleTime
  <2> HIDE DEF w, Q
  <2>4. SumFunctionOnSet(w, {}) <= SumFunctionOnSet(w, Q) /\ SumFunctionOnSet(w, Q) \in Int
    BY <2>1, <2>2, SumSubset, SumType
  <2>5. SumFunctionOnSet(w, {}) = 0
    BY SumEmpty
  <2> QED BY <2>3, <2>4, <2>5
<1>5. duration \in Int
  OBVIOUS
<1>6. SafetyScore(t, f) = IF -1 \in {trip[t].from, trip[t].to} \/ duration <= 0 THEN -1
                       ELSE Max({0, score})
  BY DEF SafetyScore
<1> DEFINE E == SpeedingEvents(S, f)
<1>9. E = SpeedingEvents(PingsOf(t), f) /\ (E # {} => n > 0)
  BY <1>3
<1> HIDE DEF S, n, E
<1>7. CASE -1 \in {trip[t].from, trip[t].to} \/ duration <= 0
  BY <1>4, <1>6, <1>7
<1>8. CASE ~(-1 \in {trip[t].from, trip[t].to} \/ duration <= 0)
  <2>1. duration \in Nat \ {0}
    BY <1>5, <1>8
  <2> HIDE DEF duration
  <2>2. idle \in Nat
    <3> DEFINE i == IdleTime(t, f)
    <3>1. i \in Nat /\ duration \in Nat
      BY <1>4, <2>1
    <3> HIDE DEF i
    <3>2. Min({i, duration}) \in {i, duration}
      <4>1. \A a, b \in Int : Min({a, b}) \in {a, b}
        BY MinMaxOf
      <4>2. i \in Int /\ duration \in Int
        BY <3>1
      <4> QED BY <4>1, <4>2, Zenon
    <3>3. Min({i, duration}) \in Nat
      BY <3>1, <3>2, Zenon
    <3>4. idle = Min({i, duration})
      BY Zenon DEF i
    <3> QED BY <3>3, <3>4, Zenon
  <2> HIDE DEF idle
  <2>3. (10 * idle) \div duration \in Nat
    BY <2>1, <2>2, Quotient
  <2> DEFINE k == (10 * idle) \div duration
  <2> HIDE DEF k
  <2>4. score \in Int /\ score <= 100 /\ (n > 0 => score <= 95)
    <3>1. k \in Nat /\ score = 100 - 5 * n - 5 * k
      BY <2>3 DEF k
    <3> HIDE DEF score
    <3> QED BY <1>3, <3>1
  <2> HIDE DEF score
  <2> DEFINE m == Max({0, score})
  <2>5. m \in {0, score} /\ m >= 0
    <3>1. \A a, b \in Int : Max({a, b}) \in {a, b} /\ Max({a, b}) >= a
      BY MinMaxOf
    <3> QED BY <2>4, <3>1
  <2>6. SafetyScore(t, f) = m
    BY <1>6, <1>8
  <2> HIDE DEF m
  <2>7. m \in 0..100 /\ (n > 0 => m < 100)
    BY <2>4, <2>5
  <2> QED BY <1>4, <1>9, <2>6, <2>7
<1> QED BY <1>7, <1>8, <1>9

-----------------------------------------------------------------------------
(* The invariant: what the rows hold, and that the pings of a trip are its agent's. *)

TripRows == [status : {"planned", "in_progress", "completed", "gone"}, from : Int, to : Int]
PingRows == [trip : Trips \cup {NoTrip}, agent : Drivers, at : Int, place : Int, n : Nat]

PingInv ==
    /\ now \in Int
    /\ trip \in [Trips -> TripRows]
    /\ copy \in [Trips -> {<<>>} \cup {<<row>> : row \in TripRows}]
    /\ IsFiniteSet(ping) /\ ping \subseteq PingRows
    /\ \A p \in ping : p.trip # NoTrip => p.agent = AgentOf[p.trip]

LEMMA PingInvInit == TripInit => PingInv
<1> SUFFICES ASSUME TripInit PROVE PingInv
  OBVIOUS
<1>1. NewTrip \in TripRows
  BY DEF NewTrip, TripRows
<1>2. IsFiniteSet({})
  BY FS_EmptySet
<1> QED BY <1>1, <1>2 DEF TripInit, PingInv

\* A ping that may have lost its trip.
Detached(p, t) == IF p.trip = t THEN [p EXCEPT !.trip = NoTrip] ELSE p

\* Steps that leave the pings alone.
LEMMA RowsStep ==
    ASSUME PingInv, ping' = ping, now' \in Int, trip' \in [Trips -> TripRows],
           copy' \in [Trips -> {<<>>} \cup {<<row>> : row \in TripRows}]
    PROVE  PingInv'
BY DEF PingInv, PingRows, TripRows, Drivers

LEMMA PingInvStep == PingInv /\ [TripNext]_tripVars => PingInv'
<1> SUFFICES ASSUME PingInv, [TripNext]_tripVars PROVE PingInv'
  OBVIOUS
<1> USE TripAssumption
<1> DEFINE Copies == {<<>>} \cup {<<row>> : row \in TripRows}
<1>0. now \in Int /\ trip \in [Trips -> TripRows] /\ copy \in [Trips -> Copies]
  BY DEF PingInv
<1>1. CASE UNCHANGED tripVars
  BY <1>0, <1>1, RowsStep DEF tripVars
<1>2. CASE TripTick
  <2>1. now' \in Int
    BY <1>0, <1>2 DEF TripTick
  <2> QED BY <1>0, <1>2, <2>1, RowsStep DEF TripTick
<1>3. ASSUME NEW t \in Trips, StartTrip(t) PROVE PingInv'
  <2>1. trip' \in [Trips -> TripRows]
    BY <1>0, <1>3 DEF StartTrip, TripRows
  <2> QED BY <1>0, <1>3, <2>1, RowsStep DEF StartTrip
<1>4. ASSUME NEW t \in Trips, EndTrip(t) PROVE PingInv'
  <2>1. trip' \in [Trips -> TripRows]
    BY <1>0, <1>4 DEF EndTrip, TripRows
  <2> QED BY <1>0, <1>4, <2>1, RowsStep DEF EndTrip
<1>5. ASSUME NEW t \in Trips, ReadTrip(t) PROVE PingInv'
  <2>1. copy' \in [Trips -> Copies]
    BY <1>0, <1>5 DEF ReadTrip
  <2> QED BY <1>0, <1>5, <2>1, RowsStep DEF ReadTrip
<1>6. ASSUME NEW t \in Trips, SaveTrip(t) PROVE PingInv'
  <2>1. copy' \in [Trips -> Copies]
    BY <1>0, <1>6 DEF SaveTrip
  <2>2. PICK row \in TripRows : copy[t] = <<row>>
    BY <1>0, <1>6 DEF SaveTrip
  <2>3. copy[t][1] = row /\ row.from \in Int /\ row.to \in Int
    BY <2>2 DEF TripRows
  <2>4. PICK status \in {"in_progress", "completed"}, from \in {-1, 0, now}, to \in {-1, 0, now} :
          trip' = [trip EXCEPT ![t] = [status |-> status,
                      from |-> IF from = -1 THEN copy[t][1].from ELSE from,
                      to |-> IF to = -1 THEN copy[t][1].to ELSE to]]
    BY <1>6 DEF SaveTrip
  <2> DEFINE new == [status |-> status,
                     from |-> IF from = -1 THEN copy[t][1].from ELSE from,
                     to |-> IF to = -1 THEN copy[t][1].to ELSE to]
  <2>5. new \in TripRows
    BY <1>0, <2>3 DEF TripRows
  <2> HIDE DEF new
  <2>6. trip' \in [Trips -> TripRows]
    BY <1>0, <2>4, <2>5 DEF new
  <2> QED BY <1>0, <1>6, <2>1, <2>6, RowsStep DEF SaveTrip
<1>7. ASSUME NEW t \in Trips, DestroyTrip(t) PROVE PingInv'
  <2>1. trip' \in [Trips -> TripRows]
    BY <1>0, <1>7 DEF DestroyTrip, Gone, NewTrip, TripRows
  <2>2. copy' \in [Trips -> Copies]
    BY <1>0, <1>7 DEF DestroyTrip
  <2>3. ping' = {Detached(p, t) : p \in ping}
    BY <1>7 DEF DestroyTrip, Detached
  <2>4. IsFiniteSet(ping')
    <3> DEFINE moved == [p \in ping |-> Detached(p, t)]
    <3>1. IsFiniteSet(ping)
      BY DEF PingInv
    <3>2. moved \in Surjection(ping, ping')
      BY <2>3 DEF Surjection
    <3> QED BY <3>1, <3>2, FS_Surjection, Zenon
  <2>5. \A p \in ping : /\ Detached(p, t) \in PingRows
                        /\ Detached(p, t).trip # NoTrip => Detached(p, t).agent = AgentOf[Detached(p, t).trip]
    <3> SUFFICES ASSUME NEW p \in ping
                 PROVE  /\ Detached(p, t) \in PingRows
                        /\ Detached(p, t).trip # NoTrip => Detached(p, t).agent = AgentOf[Detached(p, t).trip]
      OBVIOUS
    <3>1. p \in PingRows /\ (p.trip # NoTrip => p.agent = AgentOf[p.trip])
      BY DEF PingInv
    <3> QED BY <3>1 DEF PingRows, Detached
  <2>6. now' \in Int
    BY <1>0, <1>7 DEF DestroyTrip
  <2>7. \A p \in ping' : p \in PingRows /\ (p.trip # NoTrip => p.agent = AgentOf[p.trip])
    <3> SUFFICES ASSUME NEW q \in ping'
                 PROVE  q \in PingRows /\ (q.trip # NoTrip => q.agent = AgentOf[q.trip])
      BY Zenon
    <3>1. PICK p \in ping : q = Detached(p, t)
      BY <2>3, Zenon
    <3> QED BY <2>5, <3>1
  <2> QED BY <2>1, <2>2, <2>4, <2>6, <2>7 DEF PingInv, PingRows, TripRows, Drivers
<1>8. ASSUME NEW t \in Trips, NEW s, NEW spot, CheckInVisit(t, s, spot) PROVE PingInv'
  BY <1>0, <1>8, RowsStep DEF CheckInVisit
<1>9. ASSUME NEW t \in Trips, NEW s, CheckOut(t, s) PROVE PingInv'
  BY <1>0, <1>9, RowsStep DEF CheckOut
<1>10. ASSUME NEW t \in Trips \cup {NoTrip}, NEW a \in Drivers, NEW at \in 0..MaxTime,
              NEW spot \in TripPlaces, PushPing(t, a, at, spot)
       PROVE  PingInv'
  <2> DEFINE n == Cardinality({p \in ping : p.agent = a /\ p.at = at}) + 1
             r == [trip |-> t, agent |-> a, at |-> at, place |-> spot, n |-> n]
  <2>1. n \in Nat
    <3>1. IsFiniteSet({p \in ping : p.agent = a /\ p.at = at})
      BY FS_Subset DEF PingInv
    <3> QED BY <3>1, FS_CardinalityType
  <2>2. ping' = ping \cup {r} /\ UNCHANGED <<now, trip, copy>>
    BY <1>10 DEF PushPing
  <2> HIDE DEF n
  <2>3. at \in Int /\ spot \in Int /\ (t # NoTrip => a = AgentOf[t])
    <3>1. at \in Int
      OBVIOUS
    <3>2. spot \in Int
      OBVIOUS
    <3> QED BY <1>10, <3>1, <3>2 DEF PushPing
  <2>4. r \in PingRows /\ (r.trip # NoTrip => r.agent = AgentOf[r.trip])
    BY <2>3, <2>1 DEF PingRows
  <2>5. ping' = ping \cup {r} /\ UNCHANGED <<now, trip, copy>>
    BY <2>2
  <2> HIDE DEF r
  <2>6. IsFiniteSet(ping')
    BY <2>5, FS_AddElement DEF PingInv
  <2> QED BY <2>4, <2>5, <2>6 DEF PingInv, PingRows, TripRows, Drivers
<1> QED BY <1>1, <1>2, <1>3, <1>4, <1>5, <1>6, <1>7, <1>8, <1>9, <1>10 DEF TripNext

LEMMA PingInvHolds == TripSpec => []PingInv
BY PingInvInit, PingInvStep, PTL DEF TripSpec

-----------------------------------------------------------------------------

\* A trip with a speeding event, in the order f, has no spotless score.
Spotted ==
    \A t \in Trips : \A f :
        Ordering(PingsOf(t), f) /\ SpeedingEvents(PingsOf(t), f) # {} => SafetyScore(t, f) < 100

LEMMA SpottedAlways == PingInv => Spotted
<1> SUFFICES ASSUME PingInv, NEW t \in Trips, NEW f, Ordering(PingsOf(t), f), SpeedingEvents(PingsOf(t), f) # {}
             PROVE  SafetyScore(t, f) < 100
  BY DEF Spotted
<1>1. trip[t].from \in Int /\ trip[t].to \in Int
  BY DEF PingInv, TripRows
<1>2. Pings(ping) /\ IsFiniteSet(ping)
  BY DEF PingInv, PingRows, Pings
<1> QED BY <1>1, <1>2, ScoreRange

LEMMA NoPingNoEvent == \A f : SpeedingEvents({}, f) = {}
BY DEF SpeedingEvents, Hops

\* What the property says of the pings a trip had, S, and has, T.
Speeding(S, T) ==
    /\ S \subseteq T /\ \A p \in T \ S : OnlyOfItsMoment(p, T)
    /\ \A f \in Orders(S) : SpeedingEvents(S, f) # {}

LEMMA NothingNew ==
    ASSUME NEW S, NEW T, T = S \/ T = {}, Speeding(S, T), NEW f \in Orders(T)
    PROVE  SpeedingEvents(T, f) # {}
BY NoPingNoEvent DEF Speeding

LEMMA EventsStay ==
    ASSUME PingInv, TripNext, NEW t \in Trips, Speeding(PingsOf(t), PingsOf(t)'),
           NEW f \in Orders(PingsOf(t)')
    PROVE  SpeedingEvents(PingsOf(t)', f) # {}
<1>1. CASE ping' = ping
  <2>1. PingsOf(t)' = PingsOf(t)
    BY <1>1 DEF PingsOf
  <2> QED BY <2>1, NothingNew
<1>2. ASSUME NEW u \in Trips, DestroyTrip(u) PROVE SpeedingEvents(PingsOf(t)', f) # {}
  <2>1. ping' = {IF p.trip = u THEN [p EXCEPT !.trip = NoTrip] ELSE p : p \in ping}
    BY <1>2 DEF DestroyTrip
  <2>2. CASE u = t
    <3>1. PingsOf(t)' = {}
      BY <2>1, <2>2, TripAssumption DEF PingsOf, PingInv, PingRows
    <3> QED BY <3>1, NothingNew
  <2>3. CASE u # t
    <3>1. PingsOf(t)' = PingsOf(t)
      BY <2>1, <2>3, TripAssumption DEF PingsOf, PingInv, PingRows
    <3> QED BY <3>1, NothingNew
  <2> QED BY <2>2, <2>3
<1>3. ASSUME NEW u \in Trips \cup {NoTrip}, NEW a \in Drivers, NEW at \in 0..MaxTime,
             NEW spot \in TripPlaces, PushPing(u, a, at, spot)
      PROVE  SpeedingEvents(PingsOf(t)', f) # {}
  <2> DEFINE n == Cardinality({p \in ping : p.agent = a /\ p.at = at}) + 1
             r == [trip |-> u, agent |-> a, at |-> at, place |-> spot, n |-> n]
             S == PingsOf(t)
  <2>1. ping' = ping \cup {r}
    BY <1>3 DEF PushPing
  <2> HIDE DEF n
  <2>2. CASE u # t
    <3>1. PingsOf(t)' = PingsOf(t)
      BY <2>1, <2>2 DEF PingsOf
    <3> QED BY <3>1, NothingNew
  <2>3. CASE u = t
    <3>1. PingsOf(t)' = S \cup {r}
      BY <2>1, <2>3 DEF PingsOf
    <3>2. Pings(S \cup {r})
      BY TripAssumption DEF Pings, PingInv, PingRows, PingsOf
    <3> HIDE DEF r, S
    <3>3. CASE r \in S
      <4>1. PingsOf(t)' = S
        BY <3>1, <3>3
      <4> QED BY <4>1, NothingNew DEF S
    <3>4. CASE r \notin S
      <4>1. \A p \in S : p.at # r.at
        BY <3>1, <3>4 DEF Speeding, OnlyOfItsMoment, S
      <4>2. f \in Orders(S \cup {r})
        BY <3>1
      <4>3. Ordering(S \cup {r}, f)
        BY <4>2, OrderingOf
      <4>4. PICK g \in Orders(S) : \A p \in S : g[p] = f[p]
        BY <4>2, OrderOfSome
      <4>5. SpeedingEvents(S, g) # {}
        BY DEF Speeding, S
      <4>6. SpeedingEvents(S, f) # {}
        BY <4>4, <4>5, SameHops
      <4>7. SpeedingEvents(S \cup {r}, f) # {}
        BY <3>2, <4>1, <4>3, <4>6, SplitHop, TripAssumption
      <4> QED BY <3>1, <4>7
    <3> QED BY <3>3, <3>4
  <2> QED BY <2>2, <2>3
<1>4. TripTick \/ (\E u \in Trips : StartTrip(u) \/ EndTrip(u) \/ ReadTrip(u) \/ SaveTrip(u)
          \/ \E s \in TripStops : CheckOut(u, s) \/ \E p \in TripPlaces \cup {NoFix} : CheckInVisit(u, s, p))
      => ping' = ping
  BY DEF TripTick, StartTrip, EndTrip, ReadTrip, SaveTrip, CheckOut, CheckInVisit
<1> QED BY <1>1, <1>2, <1>3, <1>4 DEF TripNext

\* A trip that was driven too fast stays so when pings of moments of their own come in
\* late: they split a hop into two of which one is too fast, or leave it whole.  Of
\* trip_speeding_events and trip_safety_score (fleet/services.py), for every number
\* of trips, pings, places and moments, several pings of one moment among the others,
\* and whatever order the database reads those in.
THEOREM LatePingsDoNotWhitewash == TripSpec => SpeedingStays
<1> DEFINE Stay == \A t \in Trips :
              /\ PingsOf(t) \subseteq PingsOf(t)'
              /\ \A p \in PingsOf(t)' \ PingsOf(t) : OnlyOfItsMoment(p, PingsOf(t)')
              /\ \A f \in Orders(PingsOf(t)) : SpeedingEvents(PingsOf(t), f) # {}
              => \A f \in Orders(PingsOf(t)') :
                    SpeedingEvents(PingsOf(t)', f) # {} /\ SafetyScore(t, f)' < 100
<1>1. PingInv /\ Spotted' /\ [TripNext]_tripVars => [Stay]_tripVars
  <2> SUFFICES ASSUME PingInv, Spotted', TripNext, NEW t \in Trips, Speeding(PingsOf(t), PingsOf(t)'),
                      NEW f \in Orders(PingsOf(t)')
               PROVE  SpeedingEvents(PingsOf(t)', f) # {} /\ SafetyScore(t, f)' < 100
    BY DEF Speeding
  <2>1. SpeedingEvents(PingsOf(t)', f) # {}
    BY EventsStay
  <2>2. Ordering(PingsOf(t)', f)
    BY OrderingOf
  <2>3. SafetyScore(t, f)' < 100
    BY <2>1, <2>2 DEF Spotted
  <2> QED BY <2>1, <2>3
<1>2. TripSpec => []Spotted
  BY PingInvHolds, SpottedAlways, PTL
<1> QED BY <1>1, <1>2, PingInvHolds, PTL DEF TripSpec, SpeedingStays

-----------------------------------------------------------------------------
(* BeatRoute: the order of a beat's stops *)

\* Lengths for given addresses.
Leg(at, s, t) == Metres[<<at[s], at[t]>>]
LegsAt(at, p) == [k \in 1..(Len(p) - 1) |-> Leg(at, p[k], p[k + 1])]
PathAt(at, p) == SumFunctionOnSet(LegsAt(at, p), 1..(Len(p) - 1))

LEMMA PathIs == \A p : PathLength(p) = PathAt(place, p)
BY Zenon DEF PathLength, Legs, Distance, PathAt, LegsAt, Leg

LEMMA LegsOf ==
    ASSUME NEW at \in [BeatStops -> BeatPlaces]
    PROVE  \A s, t \in BeatStops : Leg(at, s, t) \in Nat /\ Leg(at, s, t) = Leg(at, t, s)
<1> SUFFICES ASSUME NEW s \in BeatStops, NEW t \in BeatStops
             PROVE  Leg(at, s, t) \in Nat /\ Leg(at, s, t) = Leg(at, t, s)
  OBVIOUS
<1>1. at[s] \in BeatPlaces /\ at[t] \in BeatPlaces
  OBVIOUS
<1> QED BY <1>1, BeatAssumption DEF Leg

\* Lists that hold each element of S once.
LEMMA ListOf ==
    ASSUME NEW S, IsFiniteSet(S), NEW p \in SetToSeqs(S)
    PROVE  /\ Cardinality(S) \in Nat /\ Len(p) = Cardinality(S)
           /\ p \in [1..Len(p) -> S] /\ p \in Seq(S)
           /\ \A k, l \in 1..Len(p) : p[k] = p[l] => k = l
           /\ \A s \in S : \E k \in 1..Len(p) : p[k] = s
<1> DEFINE n == Cardinality(S)
<1>1. n \in Nat
  BY FS_CardinalityType
<1>2. p \in [1..n -> S] /\ \A i, j \in 1..n : i # j => p[i] # p[j]
  BY DEF SetToSeqs
<1>3. Len(p) = n /\ p \in Seq(S)
  BY <1>1, <1>2
<1>4. Cardinality(1..n) = n
  BY <1>1, FS_Interval
<1>5. p \in Injection(1..n, S)
  BY <1>2 DEF Injection, IsInjective
<1>6. p \in Surjection(1..n, S)
  BY <1>1, <1>4, <1>5, FS_Injection
<1>7. \A s \in S : \E k \in 1..n : p[k] = s
  BY <1>6 DEF Surjection
<1> HIDE DEF n
<1> QED BY <1>1, <1>2, <1>3, <1>7 DEF n

\* A sequence of the right length without repetitions is one.
LEMMA ListFrom ==
    ASSUME NEW S, NEW p \in [1..Cardinality(S) -> S],
           \A k, l \in 1..Cardinality(S) : p[k] = p[l] => k = l
    PROVE  p \in SetToSeqs(S)
BY DEF SetToSeqs

-----------------------------------------------------------------------------
(* A reversal *)

LEMMA SumReversed ==
    ASSUME NEW a \in Int, NEW b \in Int, NEW w, NEW v,
           \A k \in a..b : w[k] \in Int /\ v[k] = w[a + b - k]
    PROVE  SumFunctionOnSet(v, a..b) = SumFunctionOnSet(w, a..b)
<1> DEFINE S == a..b
           f == [k \in S |-> a + b - k]
           u == [k \in S |-> w[f[k]]]
<1>1. IsFiniteSet(S)
  BY FS_Interval
<1>2. f \in Bijection(S, S)
  <2>1. f \in [S -> S] /\ \A k, l \in S : f[k] = f[l] => k = l
    OBVIOUS
  <2>2. \A l \in S : a + b - l \in S /\ f[a + b - l] = l
    OBVIOUS
  <2> HIDE DEF f, S
  <2>3. f \in Injection(S, S)
    BY <2>1 DEF Injection, IsInjective
  <2>4. f \in Surjection(S, S)
    BY <2>1, <2>2 DEF Surjection
  <2> QED BY <2>3, <2>4 DEF Bijection
<1>3. \A k \in S : w[k] \in Int /\ u[k] = v[k] /\ v[k] \in Int
  <2>1. \A k \in S : a + b - k \in S
    OBVIOUS
  <2> QED BY <2>1
<1> HIDE DEF S, f
<1>4. SumFunctionOnSet(u, S) = SumFunctionOnSet(w, S)
  BY <1>1, <1>2, <1>3, SumImage
<1>5. SumFunctionOnSet(v, S) = SumFunctionOnSet(u, S)
  <2> HIDE DEF u
  <2> QED BY <1>1, <1>3, SumSame
<1> QED BY <1>4, <1>5 DEF S

\* A reversal 2-opt keeps makes the path shorter.
LEMMA FlipShortens ==
    ASSUME NEW at \in [BeatStops -> BeatPlaces], NEW n \in Nat, NEW p \in [1..n -> BeatStops]
    PROVE  \A i, j \in 2..(n - 1) :
              /\ i < j
              /\ Leg(at, p[i - 1], p[i]) + Leg(at, p[j], p[j + 1])
                    > Leg(at, p[i - 1], p[j]) + Leg(at, p[i], p[j + 1])
              => PathAt(at, Flip(p, i, j)) <= PathAt(at, p)
<1> SUFFICES ASSUME NEW i \in 2..(n - 1), NEW j \in 2..(n - 1), i < j,
                    Leg(at, p[i - 1], p[i]) + Leg(at, p[j], p[j + 1])
                       > Leg(at, p[i - 1], p[j]) + Leg(at, p[i], p[j + 1])
             PROVE  PathAt(at, Flip(p, i, j)) <= PathAt(at, p)
  OBVIOUS
<1> DEFINE q == Flip(p, i, j)
           w == LegsAt(at, p)
           v == LegsAt(at, q)
           mid == i..(j - 1)
           out == 1..(i - 2) \cup (j + 1)..(n - 1)
           two == {i - 1, j}
<1>1. q \in [1..n -> BeatStops] /\ Len(p) = n /\ Len(q) = n
  <2>1. DOMAIN p = 1..n /\ \A k \in i..j : i + j - k \in 1..n
    OBVIOUS
  <2>2. q = [k \in 1..n |-> IF k \in i..j THEN p[i + j - k] ELSE p[k]]
    BY <2>1 DEF Flip
  <2> HIDE DEF q
  <2>3. q \in [1..n -> BeatStops]
    BY <2>1, <2>2
  <2> QED BY <2>3
<1>2. \A k \in 1..n : q[k] = IF k \in i..j THEN p[i + j - k] ELSE p[k]
  BY DEF Flip
<1> HIDE DEF q
<1>3. \A k \in 1..(n - 1) : w[k] = Leg(at, p[k], p[k + 1]) /\ v[k] = Leg(at, q[k], q[k + 1])
  BY <1>1 DEF LegsAt
<1>4. \A k \in 1..(n - 1) : w[k] \in Nat /\ v[k] \in Nat
  <2>1. \A k \in 1..(n - 1) : k + 1 \in 1..n /\ k \in 1..n
    OBVIOUS
  <2> HIDE DEF w, v
  <2> TAKE k \in 1..(n - 1)
  <2>2. p[k] \in BeatStops /\ p[k + 1] \in BeatStops /\ q[k] \in BeatStops /\ q[k + 1] \in BeatStops
    BY <1>1, <2>1
  <2>5. \A s, t \in BeatStops : Leg(at, s, t) \in Nat
    BY LegsOf
  <2>6. w[k] = Leg(at, p[k], p[k + 1]) /\ v[k] = Leg(at, q[k], q[k + 1])
    BY <1>3
  <2>3. w[k] \in Nat
    BY <2>6, <2>2, <2>5, Zenon
  <2>4. v[k] \in Nat
    BY <2>6, <2>2, <2>5, Zenon
  <2> QED BY <2>3, <2>4
<1> HIDE DEF w, v
<1>5. \A k \in out : v[k] = w[k]
  <2>1. \A k \in out : k \in 1..(n - 1) /\ k \in 1..n /\ k + 1 \in 1..n /\ k \notin i..j /\ k + 1 \notin i..j
    OBVIOUS
  <2> HIDE DEF out
  <2> QED BY <1>2, <1>3, <2>1
<1>6. \A k \in mid : v[k] = w[i + (j - 1) - k]
  <2> SUFFICES ASSUME NEW k \in mid PROVE v[k] = w[i + (j - 1) - k]
    OBVIOUS
  <2> DEFINE m == i + (j - 1) - k
  <2>1. k \in 1..(n - 1) /\ k \in 1..n /\ k + 1 \in 1..n /\ k \in i..j /\ k + 1 \in i..j
    OBVIOUS
  <2>2. m \in 1..(n - 1) /\ m \in 1..n /\ m + 1 \in 1..n /\ i + j - k = m + 1 /\ i + j - (k + 1) = m
    OBVIOUS
  <2> HIDE DEF m, mid
  <2>3. q[k] = p[m + 1] /\ q[k + 1] = p[m]
    BY <1>2, <2>1, <2>2
  <2>4. v[k] = Leg(at, p[m + 1], p[m]) /\ w[m] = Leg(at, p[m], p[m + 1])
    BY <1>3, <2>1, <2>2, <2>3
  <2>5. p[m] \in BeatStops /\ p[m + 1] \in BeatStops
    BY <2>2
  <2>6. v[k] = w[m]
    BY <2>4, <2>5, LegsOf
  <2> QED BY <2>6 DEF m
<1>7. v[i - 1] = Leg(at, p[i - 1], p[j]) /\ v[j] = Leg(at, p[i], p[j + 1])
  <2>1. i - 1 \in 1..(n - 1) /\ j \in 1..(n - 1) /\ (i - 1) + 1 = i
    OBVIOUS
  <2>2. q[i - 1] = p[i - 1] /\ q[i] = p[j] /\ q[j] = p[i] /\ q[j + 1] = p[j + 1]
    BY <1>2
  <2> QED BY <1>3, <2>1, <2>2
<1>8. w[i - 1] = Leg(at, p[i - 1], p[i]) /\ w[j] = Leg(at, p[j], p[j + 1])
  <2>1. i - 1 \in 1..(n - 1) /\ j \in 1..(n - 1) /\ (i - 1) + 1 = i
    OBVIOUS
  <2> QED BY <1>3, <2>1
<1>9. /\ IsFiniteSet(mid) /\ IsFiniteSet(out) /\ IsFiniteSet(mid \cup out)
      /\ i - 1 \notin mid \cup out /\ j \notin (mid \cup out) \cup {i - 1} /\ mid \cap out = {}
      /\ 1..(n - 1) = ((mid \cup out) \cup {i - 1}) \cup {j}
  <2>0. \A a, b \in Int : IsFiniteSet(a..b)
    BY FS_Interval
  <2>1. IsFiniteSet(i..(j - 1)) /\ IsFiniteSet(1..(i - 2)) /\ IsFiniteSet((j + 1)..(n - 1))
    <3>1. i \in Int /\ j - 1 \in Int /\ 1 \in Int /\ i - 2 \in Int /\ j + 1 \in Int /\ n - 1 \in Int
      OBVIOUS
    <3> QED BY <2>0, <3>1, Zenon
  <2>2. IsFiniteSet(mid) /\ IsFiniteSet(out)
    BY <2>1, FS_Union
  <2>3. IsFiniteSet(mid \cup out)
    BY <2>2, FS_Union
  <2>4. i - 1 \notin mid \cup out /\ j \notin (mid \cup out) \cup {i - 1} /\ mid \cap out = {}
    OBVIOUS
  <2>5. 1..(n - 1) = ((mid \cup out) \cup {i - 1}) \cup {j}
    OBVIOUS
  <2> QED BY <2>2, <2>3, <2>4, <2>5
<1>10. \A k \in mid \cup out \cup two : w[k] \in Int /\ v[k] \in Int
  <2>1. \A k \in mid \cup out \cup two : k \in 1..(n - 1)
    OBVIOUS
  <2> HIDE DEF mid, out, two
  <2>2. \A x \in Nat : x \in Int
    OBVIOUS
  <2> QED BY <1>4, <2>1, <2>2, Zenon
<1>11. IsFiniteSet((mid \cup out) \cup {i - 1})
  <2> HIDE DEF mid, out
  <2> QED BY <1>9, FS_AddElement
<1>12. SumFunctionOnSet(v, mid) = SumFunctionOnSet(w, mid)
  <2>1. \A k \in i..(j - 1) : w[k] \in Int /\ v[k] = w[i + (j - 1) - k]
    BY <1>6, <1>10
  <2> HIDE DEF out, two
  <2> QED BY <2>1, SumReversed
<1> HIDE DEF mid, out
<1>13. SumFunctionOnSet(v, out) = SumFunctionOnSet(w, out)
  BY <1>5, <1>9, <1>10, SumSame
<1>14. ASSUME NEW u, \A k \in mid \cup out \cup two : u[k] \in Int
       PROVE  /\ SumFunctionOnSet(u, 1..(n - 1))
                    = SumFunctionOnSet(u, mid) + SumFunctionOnSet(u, out) + u[i - 1] + u[j]
              /\ SumFunctionOnSet(u, mid) \in Int /\ SumFunctionOnSet(u, out) \in Int
  <2>1. SumFunctionOnSet(u, mid \cup out) = SumFunctionOnSet(u, mid) + SumFunctionOnSet(u, out)
    BY <1>9, <1>14, SumUnion
  <2>2. SumFunctionOnSet(u, (mid \cup out) \cup {i - 1}) = SumFunctionOnSet(u, mid \cup out) + u[i - 1]
    BY <1>9, <1>14, SumAdd
  <2>3. SumFunctionOnSet(u, ((mid \cup out) \cup {i - 1}) \cup {j})
           = SumFunctionOnSet(u, (mid \cup out) \cup {i - 1}) + u[j]
    BY <1>9, <1>11, <1>14, SumAdd
  <2>4. SumFunctionOnSet(u, mid) \in Int /\ SumFunctionOnSet(u, out) \in Int
    BY <1>9, <1>14, SumType
  <2> QED BY <1>9, <2>1, <2>2, <2>3, <2>4
<1>15. PathAt(at, p) = SumFunctionOnSet(w, 1..(n - 1)) /\ PathAt(at, q) = SumFunctionOnSet(v, 1..(n - 1))
  BY <1>1 DEF PathAt, w, v
<1> DEFINE a == SumFunctionOnSet(w, mid)
           b == SumFunctionOnSet(w, out)
<1>16. /\ PathAt(at, p) = a + b + w[i - 1] + w[j] /\ PathAt(at, q) = a + b + v[i - 1] + v[j]
       /\ a \in Int /\ b \in Int
  BY <1>10, <1>12, <1>13, <1>14, <1>15
<1>17. w[i - 1] \in Int /\ w[j] \in Int /\ v[i - 1] \in Int /\ v[j] \in Int
       /\ w[i - 1] + w[j] > v[i - 1] + v[j]
  BY <1>7, <1>8, <1>10
<1> HIDE DEF a, b
<1> QED BY <1>16, <1>17 DEF q

-----------------------------------------------------------------------------
(* Nearest neighbour *)

LEMMA LeastOf == ASSUME NEW S, S \subseteq Nat, S # {} PROVE \E m \in S : \A k \in S : m <= k
<1>1. PICK x \in S : \A y \in S : <<y, x>> \notin Less
  BY LessWellFounded, WFMin
<1>2. \A y \in S : x <= y
  <2> SUFFICES ASSUME NEW y \in S PROVE x <= y
    OBVIOUS
  <2>1. <<y, x>> \notin Less
    BY <1>1
  <2>2. x \in Nat /\ y \in Nat /\ ~(y < x)
    BY <2>1 DEF Less
  <2> QED BY <2>2
<1> QED BY <1>2, Zenon

LEMMA MinIs == ASSUME NEW S, S \subseteq Nat, S # {} PROVE Min(S) \in S
<1>1. PICK m \in S : \A k \in S : m <= k
  BY LeastOf
<1> QED BY <1>1 DEF Min

\* The next point is one that was not visited yet.
LEMMA NearestIs ==
    ASSUME place \in [BeatStops -> BeatPlaces],
           NEW n \in Nat, NEW points \in [1..n -> BeatStops],
           NEW visited \in Seq(BeatStops), Len(visited) > 0,
           \E k \in 1..n : points[k] \notin ToSet(visited)
    PROVE  \E k \in 1..n : Nearest(visited, points) = points[k] /\ points[k] \notin ToSet(visited)
<1> DEFINE ahead == {k \in DOMAIN points : points[k] \notin ToSet(visited)}
           d(k) == Distance(Last(visited), points[k])
           near == {k \in ahead : \A m \in ahead : d(k) <= d(m)}
<1>1. ahead \subseteq Nat /\ ahead # {} /\ ahead \subseteq 1..n
  OBVIOUS
<1>2. \A k \in ahead : d(k) \in Nat
  <2>1. Last(visited) \in BeatStops
    BY DEF Last
  <2>2. \A s, t \in BeatStops : Distance(s, t) \in Nat
    <3> TAKE s, t \in BeatStops
    <3>1. place[s] \in BeatPlaces /\ place[t] \in BeatPlaces
      OBVIOUS
    <3> QED BY <3>1, BeatAssumption DEF Distance
  <2>3. \A k \in ahead : points[k] \in BeatStops
    OBVIOUS
  <2> HIDE DEF ahead
  <2> QED BY <2>1, <2>2, <2>3
<1>3. near \subseteq Nat /\ near # {}
  <2> DEFINE D == {d(k) : k \in ahead}
  <2>1. D \subseteq Nat /\ D # {}
    <3> HIDE DEF ahead, d
    <3> QED BY <1>1, <1>2
  <2>2. PICK m \in D : \A e \in D : m <= e
    <3> HIDE DEF D
    <3> QED BY <2>1, LeastOf
  <2> HIDE DEF ahead, d
  <2>3. PICK k \in ahead : d(k) = m
    BY <2>2
  <2>4. k \in near
    BY <2>2, <2>3
  <2> QED BY <1>1, <2>4
<1> HIDE DEF near
<1>4. Min(near) \in near
  BY <1>3, MinIs
<1>5. Min(near) \in ahead
  BY <1>4 DEF near
<1>6. Nearest(visited, points) = points[Min(near)]
  BY DEF Nearest, near
<1> QED BY <1>1, <1>5, <1>6

\* The n-th part of the way.
Onward(f, points, n) == IF n = 1 THEN <<points[1]>> ELSE Append(f[n - 1], Nearest(f[n - 1], points))

Ways(f, points) == f = [n \in 1..Len(points) |-> Onward(f, points, n)]

WayTo(f, points, m) == \A n \in 1..m : f[n] = Onward(f, points, n)

LEMMA NearestNeighborIs ==
    \A points : NearestNeighbor(points) = (CHOOSE f : Ways(f, points))[Len(points)]
BY Zenon DEF NearestNeighbor, Ways, Onward

LEMMA WayExists ==
    ASSUME NEW points, Len(points) \in Nat
    PROVE  \E f : Ways(f, points)
<1> DEFINE R == {m \in Nat : \E f : WayTo(f, points, m)}
<1>1. 0 \in R
  BY DEF WayTo
<1>2. \A m \in Nat : m \in R => m + 1 \in R
  <2> SUFFICES ASSUME NEW m \in Nat, m \in R PROVE \E f : WayTo(f, points, m + 1)
    OBVIOUS
  <2>1. PICK g : \A n \in 1..m : g[n] = Onward(g, points, n)
    BY DEF WayTo
  <2> DEFINE f == [n \in 1..(m + 1) |-> IF n = m + 1 THEN Onward(g, points, n) ELSE g[n]]
  <2>2. f[m + 1] = Onward(g, points, m + 1) /\ \A n \in 1..m : f[n] = g[n]
    OBVIOUS
  <2> HIDE DEF f
  <2>3. \A n \in 1..(m + 1) : n = 1 \/ n - 1 \in 1..m
    OBVIOUS
  <2>4. \A n \in 1..(m + 1) : Onward(f, points, n) = Onward(g, points, n)
    BY <2>2, <2>3, Zenon DEF Onward
  <2>5. \A n \in 1..(m + 1) : n = m + 1 \/ n \in 1..m
    OBVIOUS
  <2>6. WayTo(f, points, m + 1)
    BY <2>1, <2>2, <2>4, <2>5, Zenon DEF WayTo
  <2> QED BY <2>6
<1> HIDE DEF R
<1>3. Len(points) \in R
  BY <1>1, <1>2, SetInduction
<1>4. PICK f : \A n \in 1..Len(points) : f[n] = Onward(f, points, n)
  BY <1>3 DEF R, WayTo
<1> DEFINE g == [n \in 1..Len(points) |-> f[n]]
<1>5. \A n \in 1..Len(points) : n = 1 \/ n - 1 \in 1..Len(points)
  OBVIOUS
<1>6. \A n \in 1..Len(points) : g[n] = f[n]
  OBVIOUS
<1>7. \A n \in 1..Len(points) : Onward(g, points, n) = Onward(f, points, n)
  <2> HIDE DEF g
  <2> QED BY <1>5, <1>6, Zenon DEF Onward
<1>8. g = [n \in 1..Len(points) |-> Onward(g, points, n)]
  BY <1>4, <1>7
<1> QED BY <1>8 DEF Ways

\* From the first point the way visits every point once.
LEMMA NearestNeighborVisits ==
    ASSUME place \in [BeatStops -> BeatPlaces], IsFiniteSet(located), located \subseteq BeatStops,
           NEW points \in SetToSeqs(located), Len(points) > 0
    PROVE  NearestNeighbor(points) \in SetToSeqs(located)
<1> DEFINE n == Len(points)
           f == CHOOSE g : Ways(g, points)
           Visit(m) == /\ f[m] \in Seq(located) /\ Len(f[m]) = m
                       /\ \A k, l \in 1..m : f[m][k] = f[m][l] => k = l
           R == {m \in Nat : m + 1 <= n => Visit(m + 1)}
<1>1. /\ n \in Nat /\ n = Cardinality(located)
      /\ points \in [1..n -> located] /\ points \in [1..n -> BeatStops]
      /\ \A k, l \in 1..n : points[k] = points[l] => k = l
  BY ListOf
<1>2. Ways(f, points)
  BY <1>1, WayExists
<1>3. NearestNeighbor(points) = f[n]
  BY NearestNeighborIs, Zenon
<1> HIDE DEF f, n
<1>4. \A m \in 1..n : f[m] = Onward(f, points, m)
  BY <1>2 DEF Ways, n
<1>5. 0 \in R
  <2> SUFFICES ASSUME 1 <= n PROVE Visit(1)
    OBVIOUS
  <2>1. f[1] = <<points[1]>>
    BY <1>1, <1>4 DEF Onward
  <2>2. points[1] \in located
    BY <1>1
  <2> QED BY <2>1, <2>2
<1>6. \A m \in Nat : m \in R => m + 1 \in R
  <2> SUFFICES ASSUME NEW m \in Nat, m \in R, (m + 1) + 1 <= n PROVE Visit((m + 1) + 1)
    OBVIOUS
  <2>0. m + 2 <= n /\ (m + 1) + 1 = m + 2
    BY <1>1
  <2> DEFINE v == f[m + 1]
             x == Nearest(v, points)
  <2>1. /\ v \in Seq(located) /\ Len(v) = m + 1
        /\ \A k, l \in 1..(m + 1) : v[k] = v[l] => k = l
    BY <1>1, <2>0
  <2>2. f[m + 2] = Append(v, x)
    <3>1. m + 2 \in 1..n /\ m + 2 # 1 /\ (m + 2) - 1 = m + 1
      BY <1>1, <2>0
    <3> QED BY <1>4, <3>1 DEF Onward
  <2> HIDE DEF v, x
  <2>3. ToSet(v) = {v[k] : k \in 1..(m + 1)}
    BY <2>1 DEF ToSet
  <2>4. \E k \in 1..n : points[k] \notin ToSet(v)
    <3> SUFFICES ASSUME \A k \in 1..n : points[k] \in ToSet(v) PROVE FALSE
      OBVIOUS
    <3> DEFINE g == [k \in 1..n |-> CHOOSE l \in 1..(m + 1) : v[l] = points[k]]
    <3>1. \A k \in 1..n : \E l \in 1..(m + 1) : v[l] = points[k]
      BY <2>3
    <3>2. \A k \in 1..n : g[k] \in 1..(m + 1) /\ v[g[k]] = points[k]
      BY <3>1
    <3>3. g \in [1..n -> 1..(m + 1)]
      BY <3>2
    <3> HIDE DEF g
    <3>4. /\ IsFiniteSet(1..n) /\ IsFiniteSet(1..(m + 1))
          /\ Cardinality(1..n) = n /\ Cardinality(1..(m + 1)) = m + 1
      BY <1>1, FS_Interval
    <3>5. Cardinality(1..(m + 1)) < Cardinality(1..n)
      BY <1>1, <2>0, <3>4
    <3>6. PICK k \in 1..n, l \in 1..n : k # l /\ g[k] = g[l]
      <4> DEFINE S == 1..n
                 T == 1..(m + 1)
      <4>1. IsFiniteSet(S) /\ IsFiniteSet(T) /\ Cardinality(T) < Cardinality(S) /\ g \in [S -> T]
        BY <3>3, <3>4, <3>5
      <4> HIDE DEF S, T
      <4>2. \E k, l \in S : k # l /\ g[k] = g[l]
        BY <4>1, FS_PigeonHole
      <4> QED BY <4>2 DEF S
    <3>7. points[k] = points[l]
      BY <3>2, <3>6
    <3> QED BY <1>1, <3>6, <3>7
  <2>5. v \in Seq(BeatStops) /\ Len(v) > 0
    BY <2>1
  <2>6. x \in located /\ x \notin ToSet(v)
    <3>1. PICK k \in 1..n : Nearest(v, points) = points[k] /\ points[k] \notin ToSet(v)
      BY <1>1, <2>4, <2>5, NearestIs
    <3> QED BY <1>1, <3>1 DEF x
  <2>7. \A k \in 1..(m + 1) : v[k] # x
    BY <2>3, <2>6
  <2>8. /\ Append(v, x) \in Seq(located) /\ Len(Append(v, x)) = m + 2
        /\ \A k \in 1..(m + 1) : Append(v, x)[k] = v[k]
        /\ Append(v, x)[m + 2] = x
    BY <2>1, <2>6
  <2>9. \A k \in 1..(m + 2) : k \in 1..(m + 1) \/ k = m + 2
    OBVIOUS
  <2>10. Visit(m + 2)
    BY <2>1, <2>2, <2>7, <2>8, <2>9
  <2> QED BY <2>0, <2>10
<1> HIDE DEF R
<1>7. Nat \subseteq R
  BY <1>5, <1>6, SetInduction
<1>8. Visit(n)
  <2>1. n - 1 \in R /\ (n - 1) + 1 = n
    BY <1>1, <1>7 DEF n
  <2> QED BY <1>1, <2>1 DEF R
<1>9. f[n] \in [1..n -> located]
  BY <1>1, <1>8
<1> QED BY <1>1, <1>3, <1>8, <1>9, ListFrom

-----------------------------------------------------------------------------
(* The request *)

\* The lists of a request: stops with an address, in the order found and as the search
\* set out; the others.
Found(L, at, ord, rst, out) ==
    /\ ord \in SetToSeqs(L) /\ out \in SetToSeqs(L) /\ rst \in SetToSeqs(BeatStops \ L)
    /\ ord # <<>> => ord[1] = out[1]
    /\ PathAt(at, ord) <= PathAt(at, out)

EdgeOK(e, n) == e = <<e[1], e[2]>> /\ e[1] \in 2..(n - 2) /\ e[2] \in (e[1] + 1)..(n - 1)

Covers(all) == \A s \in BeatStops : \E k \in 1..Len(all) : all[k] = s

NumberedUpTo(seq, all, m) == m \in 0..Len(all) /\ \A k \in 1..m : seq[all[k]] = k

BeatInv ==
    /\ sequence \in [BeatStops -> Nat] /\ place \in [BeatStops -> BeatPlaces]
    /\ located \subseteq BeatStops
    /\ stage \in {"template", "idle", "pass", "passed", "saving", "answered"}
    /\ stage \notin {"template", "idle"} => Found(located, place, order, rest, outset)
    /\ stage = "pass" => EdgeOK(edge, Len(order))
    /\ stage \in {"pass", "passed"} => saved = 0 /\ Len(order) >= 4
    /\ stage \in {"saving", "answered"} => NumberedUpTo(sequence, order \o rest, saved)
    /\ stage = "answered" => saved = Len(order \o rest)

LEMMA StopsFinite ==
    ASSUME NEW L, L \subseteq BeatStops
    PROVE  IsFiniteSet(BeatStops) /\ IsFiniteSet(L) /\ IsFiniteSet(BeatStops \ L)
BY BeatAssumption, FS_Subset

LEMMA PathType ==
    ASSUME NEW at \in [BeatStops -> BeatPlaces], NEW L, L \subseteq BeatStops, NEW p \in SetToSeqs(L)
    PROVE  PathAt(at, p) \in Int
<1> DEFINE n == Len(p)
           w == LegsAt(at, p)
<1>1. n \in Nat /\ p \in [1..n -> L]
  BY StopsFinite, ListOf
<1>2. \A s, t \in BeatStops : Leg(at, s, t) \in Nat
  BY LegsOf
<1> HIDE DEF n
<1>3. \A k \in 1..(n - 1) : w[k] \in Int
  <2> SUFFICES ASSUME NEW k \in 1..(n - 1) PROVE w[k] \in Int
    OBVIOUS
  <2>1. k \in 1..n /\ k + 1 \in 1..n
    BY <1>1
  <2>2. p[k] \in BeatStops /\ p[k + 1] \in BeatStops
    BY <1>1, <2>1
  <2>3. w[k] = Leg(at, p[k], p[k + 1])
    BY DEF LegsAt, n
  <2>4. Leg(at, p[k], p[k + 1]) \in Nat
    BY <1>2, <2>2
  <2> QED BY <2>3, <2>4
<1>4. IsFiniteSet(1..(n - 1))
  BY <1>1, FS_Interval
<1> HIDE DEF w
<1>5. SumFunctionOnSet(w, 1..(n - 1)) \in Int
  BY <1>3, <1>4, SumType
<1> QED BY <1>5 DEF PathAt, n, w

\* The list that is saved holds every stop once, those with an address first.
LEMMA AllOf ==
    ASSUME NEW L, L \subseteq BeatStops,
           NEW p \in SetToSeqs(L), NEW q \in SetToSeqs(BeatStops \ L)
    PROVE  /\ Len(p) \in Nat /\ Len(p \o q) = Cardinality(BeatStops) /\ Cardinality(BeatStops) \in Nat
           /\ Len(p \o q) >= Len(p)
           /\ \A k \in 1..Len(p) : (p \o q)[k] \in L
           /\ \A k \in (Len(p) + 1)..Len(p \o q) : (p \o q)[k] \in BeatStops \ L
           /\ \A k, l \in 1..Len(p \o q) : (p \o q)[k] = (p \o q)[l] => k = l
           /\ Covers(p \o q)
<1> DEFINE m == Len(p)
           n == Len(q)
           all == p \o q
<1>1. /\ m \in Nat /\ m = Cardinality(L) /\ p \in [1..m -> L] /\ p \in Seq(L)
      /\ \A k, l \in 1..m : p[k] = p[l] => k = l
      /\ \A s \in L : \E k \in 1..m : p[k] = s
  BY StopsFinite, ListOf
<1>2. /\ n \in Nat /\ n = Cardinality(BeatStops \ L) /\ q \in [1..n -> BeatStops \ L] /\ q \in Seq(BeatStops \ L)
      /\ \A k, l \in 1..n : q[k] = q[l] => k = l
      /\ \A s \in BeatStops \ L : \E k \in 1..n : q[k] = s
  <2> DEFINE S == BeatStops \ L
  <2>1. IsFiniteSet(S) /\ q \in SetToSeqs(S)
    BY StopsFinite
  <2> HIDE DEF S
  <2>2. /\ Cardinality(S) \in Nat /\ Len(q) = Cardinality(S)
        /\ q \in [1..Len(q) -> S] /\ q \in Seq(S)
        /\ \A k, l \in 1..Len(q) : q[k] = q[l] => k = l
        /\ \A s \in S : \E k \in 1..Len(q) : q[k] = s
    BY <2>1, ListOf
  <2> QED BY <2>2 DEF S
<1>3. /\ Len(all) = m + n
      /\ \A k \in 1..m : all[k] = p[k]
      /\ \A k \in (m + 1)..(m + n) : all[k] = q[k - m]
  <2>1. p \in Seq(BeatStops) /\ q \in Seq(BeatStops)
    BY <1>1, <1>2
  <2> QED BY <2>1
<1>4. Cardinality(BeatStops) = m + n
  <2>1. Cardinality(BeatStops \ L) = Cardinality(BeatStops) - Cardinality(BeatStops \cap L)
    BY StopsFinite, FS_Difference
  <2>2. BeatStops \cap L = L
    OBVIOUS
  <2>3. Cardinality(BeatStops) \in Nat
    BY StopsFinite, FS_CardinalityType
  <2> DEFINE b == Cardinality(BeatStops)
             c == Cardinality(L)
             d == Cardinality(BeatStops \ L)
  <2>4. d = b - c /\ b \in Nat /\ m = c /\ n = d /\ c \in Nat
    <3> HIDE DEF m, n
    <3> QED BY <1>1, <1>2, <2>1, <2>2, <2>3
  <2> HIDE DEF m, n, b, c, d
  <2>5. b = m + n
    BY <2>4
  <2> QED BY <2>5 DEF b
<1> HIDE DEF m, n, all
<1>5. \A k \in 1..m : all[k] \in L
  BY <1>1, <1>3
<1>6. \A k \in (m + 1)..(m + n) : all[k] \in BeatStops \ L /\ k - m \in 1..n
  <2> SUFFICES ASSUME NEW k \in (m + 1)..(m + n) PROVE all[k] \in BeatStops \ L /\ k - m \in 1..n
    OBVIOUS
  <2>1. k - m \in 1..n
    BY <1>1, <1>2
  <2>2. all[k] = q[k - m] /\ q[k - m] \in BeatStops \ L
    BY <1>2, <1>3, <2>1
  <2> QED BY <2>1, <2>2
<1>7. \A k \in 1..(m + n) : k \in 1..m \/ k \in (m + 1)..(m + n)
  BY <1>1, <1>2
<1>8. \A k, l \in 1..(m + n) : all[k] = all[l] => k = l
  <2> SUFFICES ASSUME NEW k \in 1..(m + n), NEW l \in 1..(m + n), all[k] = all[l] PROVE k = l
    OBVIOUS
  <2>1. CASE k \in 1..m /\ l \in 1..m
    BY <1>1, <1>3, <2>1
  <2>2. CASE k \in (m + 1)..(m + n) /\ l \in (m + 1)..(m + n)
    <3>1. q[k - m] = q[l - m] /\ k - m \in 1..n /\ l - m \in 1..n
      BY <1>3, <1>6, <2>2
    <3>2. k - m = l - m
      BY <1>2, <3>1
    <3> QED BY <1>1, <1>2, <3>2
  <2>3. CASE k \in 1..m /\ l \in (m + 1)..(m + n)
    BY <1>5, <1>6, <2>3
  <2>4. CASE l \in 1..m /\ k \in (m + 1)..(m + n)
    BY <1>5, <1>6, <2>4
  <2> QED BY <1>7, <2>1, <2>2, <2>3, <2>4
<1>9. \A s \in BeatStops : \E k \in 1..(m + n) : all[k] = s
  <2> SUFFICES ASSUME NEW s \in BeatStops PROVE \E k \in 1..(m + n) : all[k] = s
    OBVIOUS
  <2>1. CASE s \in L
    <3>1. PICK k \in 1..m : p[k] = s
      BY <1>1, <2>1
    <3>2. k \in 1..(m + n)
      BY <1>1, <1>2
    <3> QED BY <1>3, <3>1, <3>2
  <2>2. CASE s \notin L
    <3>1. PICK k \in 1..n : q[k] = s
      BY <1>2, <2>2
    <3>2. k + m \in (m + 1)..(m + n) /\ k + m \in 1..(m + n) /\ (k + m) - m = k
      BY <1>1, <1>2
    <3>3. all[k + m] = s
      BY <1>3, <3>1, <3>2
    <3> QED BY <3>2, <3>3
  <2> QED BY <2>1, <2>2
<1>10. m + n \in Nat /\ m + n >= m
  BY <1>1, <1>2
<1> QED BY <1>1, <1>3, <1>4, <1>5, <1>6, <1>8, <1>9, <1>10 DEF m, all, Covers

LEMMA BeatInvInit == BeatInit => BeatInv
<1> SUFFICES ASSUME BeatInit PROVE BeatInv
  OBVIOUS
<1>1. (CHOOSE p \in BeatPlaces : TRUE) \in BeatPlaces
  BY BeatAssumption
<1>2. sequence \in [BeatStops -> Nat] /\ place \in [BeatStops -> BeatPlaces]
  BY <1>1 DEF BeatInit
<1> QED BY <1>2 DEF BeatInit, BeatInv

LEMMA ReadStopsKeeps == BeatInv /\ ReadStops => BeatInv'
<1> SUFFICES ASSUME BeatInv, ReadStops PROVE BeatInv'
  OBVIOUS
<1>0. sequence \in [BeatStops -> Nat] /\ place \in [BeatStops -> BeatPlaces] /\ located \subseteq BeatStops
  BY DEF BeatInv
<1>1. PICK p \in SetToSeqs(located), q \in SetToSeqs(BeatStops \ located) :
         /\ order' = IF Len(p) <= 2 THEN p ELSE NearestNeighbor(p)
         /\ rest' = q /\ outset' = order'
  BY DEF ReadStops, Ordered
<1>2. /\ stage' = IF Cardinality(located) < 4 THEN "saving" ELSE "pass"
      /\ edge' = <<2, 3>> /\ saved' = 0 /\ sequence' = sequence /\ located' = located /\ place' = place
  BY DEF ReadStops
<1>3. order' \in SetToSeqs(located)
  <2>1. CASE Len(p) <= 2
    BY <1>1, <2>1
  <2>2. CASE ~(Len(p) <= 2)
    <3>1. Len(p) \in Nat
      BY <1>0, StopsFinite, ListOf
    <3>2. Len(p) > 0
      BY <2>2, <3>1
    <3> QED BY <1>0, <1>1, <2>2, <3>2, StopsFinite, NearestNeighborVisits
  <2> QED BY <2>1, <2>2
<1>4. Len(order') = Cardinality(located) /\ Cardinality(located) \in Nat
  BY <1>0, <1>3, StopsFinite, ListOf
<1>5. PathAt(place, order') \in Int
  BY <1>0, <1>3, PathType
<1>6. Found(located, place, order', rest', outset')
  BY <1>1, <1>3, <1>5 DEF Found
<1>7. stage' = "pass" => EdgeOK(edge', Len(order')) /\ Len(order') >= 4
  BY <1>2, <1>4 DEF EdgeOK
<1>8. NumberedUpTo(sequence', order' \o rest', 0)
  <2>1. Len(order' \o rest') \in Nat
    BY <1>0, <1>1, <1>3, AllOf
  <2> HIDE DEF NumberedUpTo
  <2>2. \A all : Len(all) \in Nat => NumberedUpTo(sequence', all, 0)
    BY DEF NumberedUpTo
  <2> QED BY <2>1, <2>2
<1> QED BY <1>0, <1>2, <1>6, <1>7, <1>8 DEF BeatInv

LEMMA TryReversalKeeps == BeatInv /\ TryReversal => BeatInv'
<1> SUFFICES ASSUME BeatInv, TryReversal PROVE BeatInv'
  OBVIOUS
<1> DEFINE i == edge[1]
           j == edge[2]
           n == Len(order)
<1>0. /\ sequence \in [BeatStops -> Nat] /\ place \in [BeatStops -> BeatPlaces] /\ located \subseteq BeatStops
      /\ Found(located, place, order, rest, outset) /\ EdgeOK(edge, n)
      /\ saved = 0 /\ n >= 4
  BY DEF BeatInv, TryReversal
<1>1. /\ order' = IF Shortens(order, i, j) THEN Flip(order, i, j) ELSE order
      /\ edge' = IF j + 1 < n THEN <<i, j + 1>> ELSE <<i + 1, i + 2>>
      /\ stage' = IF j + 1 < n \/ i + 1 < n - 1 THEN "pass" ELSE "passed"
      /\ UNCHANGED <<sequence, located, place, rest, outset, saved>>
  BY DEF TryReversal, N
<1>2. /\ n \in Nat /\ n = Cardinality(located)
      /\ order \in [1..n -> located] /\ order \in [1..n -> BeatStops]
      /\ \A k, l \in 1..n : order[k] = order[l] => k = l
  <2>1. order \in SetToSeqs(located) /\ IsFiniteSet(located)
    BY <1>0, StopsFinite DEF Found
  <2>2. /\ n \in Nat /\ n = Cardinality(located) /\ order \in [1..n -> located]
        /\ \A k, l \in 1..n : order[k] = order[l] => k = l
    BY <2>1, ListOf
  <2> QED BY <1>0, <2>2
<1>3. i \in 2..(n - 2) /\ j \in 2..(n - 1) /\ i \in 2..(n - 1) /\ i < j
  BY <1>0, <1>2 DEF EdgeOK
<1>4. CASE ~Shortens(order, i, j)
  <2>1. order' = order
    BY <1>1, <1>4
  <2>2. stage' = "pass" => EdgeOK(edge', n)
    <3> HIDE DEF i, j, n
    <3> QED BY <1>1, <1>2, <1>3 DEF EdgeOK
  <2> QED BY <1>0, <1>1, <2>1, <2>2 DEF BeatInv
<1>5. CASE Shortens(order, i, j)
  <2> DEFINE q == Flip(order, i, j)
  <2>1. order' = q
    BY <1>1, <1>5
  <2> HIDE DEF i, j, n
  <2>2. q = [k \in 1..n |-> IF k \in i..j THEN order[i + j - k] ELSE order[k]]
    BY <1>2 DEF Flip
  <2> HIDE DEF q
  <2>3. \A k \in 1..n : (IF k \in i..j THEN i + j - k ELSE k) \in 1..n
    BY <1>2, <1>3
  <2>4. q \in [1..n -> located] /\ q[1] = order[1] /\ Len(q) = n
    <3>1. q \in [1..n -> located]
      BY <1>2, <2>2, <2>3
    <3>2. q[1] = order[1]
      BY <1>2, <1>3, <2>2
    <3> QED BY <1>2, <3>1, <3>2
  <2>5. \A k, l \in 1..n : q[k] = q[l] => k = l
    <3> DEFINE s(k) == IF k \in i..j THEN i + j - k ELSE k
    <3>1. \A k \in 1..n : q[k] = order[s(k)] /\ s(k) \in 1..n
      BY <2>2, <2>3
    <3>2. \A k, l \in 1..n : s(k) = s(l) => k = l
      BY <1>2, <1>3
    <3> HIDE DEF s
    <3> QED BY <1>2, <3>1, <3>2
  <2>6. q \in SetToSeqs(located)
    BY <1>2, <2>4, <2>5, ListFrom
  <2>7. PathAt(place, q) <= PathAt(place, order)
    <3>1. Leg(place, order[i - 1], order[i]) + Leg(place, order[j], order[j + 1])
             > Leg(place, order[i - 1], order[j]) + Leg(place, order[i], order[j + 1])
      BY <1>5, Zenon DEF Shortens, Distance, Leg
    <3> QED BY <1>0, <1>2, <1>3, <3>1, FlipShortens DEF q
  <2>8. PathAt(place, q) \in Int /\ PathAt(place, order) \in Int /\ PathAt(place, outset) \in Int
    BY <1>0, <2>6, PathType DEF Found
  <2>9. PathAt(place, q) <= PathAt(place, outset)
    BY <1>0, <2>7, <2>8 DEF Found
  <2>10. order # <<>>
    BY <1>0, <1>2 DEF n
  <2>11. Found(located, place, q, rest, outset)
    BY <1>0, <2>4, <2>6, <2>9, <2>10 DEF Found
  <2>12. stage' = "pass" => EdgeOK(edge', n)
    BY <1>1, <1>2, <1>3 DEF EdgeOK
  <2> QED BY <1>0, <1>1, <2>1, <2>4, <2>11, <2>12 DEF BeatInv
<1> QED BY <1>4, <1>5

LEMMA SaveStopKeeps == BeatInv /\ SaveStop => BeatInv'
<1> SUFFICES ASSUME BeatInv, SaveStop PROVE BeatInv'
  OBVIOUS
<1> DEFINE all == order \o rest
           m == saved + 1
<1>0. /\ sequence \in [BeatStops -> Nat] /\ place \in [BeatStops -> BeatPlaces] /\ located \subseteq BeatStops
      /\ Found(located, place, order, rest, outset) /\ NumberedUpTo(sequence, all, saved)
      /\ stage = "saving"
  BY DEF BeatInv, SaveStop
<1>1. /\ saved < Len(all) /\ saved' = m /\ sequence' = [sequence EXCEPT ![all[m]] = m]
      /\ UNCHANGED <<located, place, stage, order, rest, outset>>
  BY DEF SaveStop
<1>2. /\ Len(all) \in Nat /\ \A k, l \in 1..Len(all) : all[k] = all[l] => k = l
      /\ \A k \in 1..Len(all) : all[k] \in BeatStops
  <2>1. order \in SetToSeqs(located) /\ rest \in SetToSeqs(BeatStops \ located)
    BY <1>0 DEF Found
  <2>2. /\ Len(order) \in Nat /\ Len(all) = Cardinality(BeatStops) /\ Cardinality(BeatStops) \in Nat
        /\ \A k \in 1..Len(order) : all[k] \in located
        /\ \A k \in (Len(order) + 1)..Len(all) : all[k] \in BeatStops \ located
        /\ \A k, l \in 1..Len(all) : all[k] = all[l] => k = l
    BY <1>0, <2>1, AllOf
  <2> HIDE DEF all
  <2>3. \A k \in 1..Len(all) : k \in 1..Len(order) \/ k \in (Len(order) + 1)..Len(all)
    BY <2>2
  <2> QED BY <1>0, <2>2, <2>3
<1>3. /\ saved \in 0..Len(all) /\ \A k \in 1..saved : sequence[all[k]] = k
  BY <1>0 DEF NumberedUpTo
<1> HIDE DEF all
<1>4. m \in Nat /\ m \in 1..Len(all) /\ \A k \in 1..m : k \in 1..Len(all) /\ (k = m \/ k \in 1..saved)
  BY <1>1, <1>2, <1>3
<1> HIDE DEF m
<1>5. sequence' \in [BeatStops -> Nat]
  BY <1>0, <1>1, <1>2, <1>4
<1>6. \A k \in 1..m : sequence'[all[k]] = k
  <2> SUFFICES ASSUME NEW k \in 1..m PROVE sequence'[all[k]] = k
    OBVIOUS
  <2>1. all[k] \in BeatStops /\ all[m] \in BeatStops
    BY <1>2, <1>4
  <2>2. CASE k = m
    BY <1>0, <1>1, <2>1, <2>2
  <2>3. CASE k # m
    <3>1. all[k] # all[m]
      BY <1>2, <1>4, <2>3
    <3> QED BY <1>0, <1>1, <1>3, <1>4, <2>1, <2>3, <3>1
  <2> QED BY <2>2, <2>3
<1>7. NumberedUpTo(sequence', all, m)
  BY <1>4, <1>6 DEF NumberedUpTo
<1> QED BY <1>0, <1>1, <1>5, <1>7 DEF BeatInv, all

LEMMA BeatInvHolds == BeatSpec => []BeatInv
<1>1. BeatInv /\ [BeatNext]_routeVars => BeatInv'
  <2> SUFFICES ASSUME BeatInv, [BeatNext]_routeVars PROVE BeatInv'
    OBVIOUS
  <2>1. CASE Instantiate
    BY <2>1, BeatAssumption DEF Instantiate, BeatInv
  <2>2. CASE Geocode
    <3>1. stage = "idle" /\ stage' = "idle" /\ sequence' = sequence
      BY <2>2 DEF Geocode
    <3>2. PICK found \in SUBSET BeatStops : \E at \in [found -> BeatPlaces] :
             /\ located' = found
             /\ place' = [s \in BeatStops |-> IF s \in found THEN at[s] ELSE place[s]]
      BY <2>2 DEF Geocode
    <3>3. place' \in [BeatStops -> BeatPlaces] /\ located' \subseteq BeatStops
      BY <3>2 DEF BeatInv
    <3> QED BY <3>1, <3>3 DEF BeatInv
  <2>3. CASE ReadStops
    BY <2>3, ReadStopsKeeps
  <2>4. CASE TryReversal
    BY <2>4, TryReversalKeeps
  <2>5. CASE EndPass
    <3>1. /\ stage = "passed" /\ stage' \in {"pass", "saving"} /\ edge' = <<2, 3>>
          /\ UNCHANGED <<sequence, located, place, order, rest, outset, saved>>
      BY <2>5 DEF EndPass
    <3>2. Found(located, place, order, rest, outset) /\ saved = 0 /\ Len(order) >= 4 /\ located \subseteq BeatStops
      BY <3>1 DEF BeatInv
    <3>3. Len(order) \in Nat /\ Len(order \o rest) \in Nat
      BY <3>2, AllOf DEF Found
    <3>4. EdgeOK(edge', Len(order'))
      BY <3>1, <3>2, <3>3 DEF EdgeOK
    <3>5. NumberedUpTo(sequence, order \o rest, 0)
      <4> DEFINE all == order \o rest
      <4>1. Len(all) \in Nat
        BY <3>3
      <4> HIDE DEF all
      <4>2. NumberedUpTo(sequence, all, 0)
        BY <4>1 DEF NumberedUpTo
      <4> QED BY <4>2 DEF all
    <3> QED BY <3>1, <3>2, <3>4, <3>5 DEF BeatInv
  <2>6. CASE SaveStop
    BY <2>6, SaveStopKeeps
  <2>7. CASE Respond
    BY <2>7 DEF Respond, BeatInv
  <2>8. CASE PlannerDies
    BY <2>8 DEF PlannerDies, BeatInv
  <2>9. CASE UNCHANGED routeVars
    BY <2>9 DEF routeVars, BeatInv
  <2> QED BY <2>1, <2>2, <2>3, <2>4, <2>5, <2>6, <2>7, <2>8, <2>9 DEF BeatNext
<1> QED BY <1>1, BeatInvInit, PTL DEF BeatSpec

\* Search and saving keep the route (optimize_order and BeatViewSet.optimize_route), for
\* any stops, addresses, symmetric distances, numbers in the template, passes and deaths.
THEOREM RouteStaysWhole == BeatSpec => []RouteKept
<1>1. BeatInv => RouteKept
  <2> SUFFICES ASSUME BeatInv, stage \notin {"template", "idle"} PROVE RouteKept
    BY DEF RouteKept
  <2> DEFINE all == order \o rest
             n == Len(order)
  <2>1. /\ order \in SetToSeqs(located) /\ rest \in SetToSeqs(BeatStops \ located)
        /\ located \subseteq BeatStops
        /\ order # <<>> => order[1] = outset[1]
        /\ PathAt(place, order) <= PathAt(place, outset)
    BY DEF BeatInv, Found
  <2>2. ToSet(order) = located /\ ToSet(rest) = BeatStops \ located
    <3>1. \A S, p : IsFiniteSet(S) /\ p \in SetToSeqs(S) => ToSet(p) = S
      <4> SUFFICES ASSUME NEW S, NEW p \in SetToSeqs(S), IsFiniteSet(S) PROVE ToSet(p) = S
        OBVIOUS
      <4>1. p \in [1..Len(p) -> S] /\ \A s \in S : \E k \in 1..Len(p) : p[k] = s
        BY ListOf
      <4> QED BY <4>1 DEF ToSet
    <3>2. IsFiniteSet(located) /\ IsFiniteSet(BeatStops \ located)
      BY <2>1, StopsFinite
    <3> QED BY <2>1, <3>1, <3>2
  <2>3. PathLength(order) <= PathLength(outset)
    BY <2>1, PathIs
  <2>4. /\ n \in Nat /\ Len(all) = Cardinality(BeatStops) /\ Cardinality(BeatStops) \in Nat
        /\ Len(all) >= n
        /\ \A k \in 1..n : all[k] \in located
        /\ \A k \in (n + 1)..Len(all) : all[k] \in BeatStops \ located
        /\ \A k, l \in 1..Len(all) : all[k] = all[l] => k = l
        /\ \A s \in BeatStops : \E k \in 1..Len(all) : all[k] = s
    <3>1. /\ Len(order) \in Nat /\ Len(order \o rest) = Cardinality(BeatStops)
          /\ Cardinality(BeatStops) \in Nat /\ Len(order \o rest) >= Len(order)
          /\ \A k \in 1..Len(order) : (order \o rest)[k] \in located
      BY <2>1, AllOf
    <3>2. \A k \in (Len(order) + 1)..Len(order \o rest) : (order \o rest)[k] \in BeatStops \ located
      BY <2>1, AllOf
    <3>3. \A k, l \in 1..Len(order \o rest) : (order \o rest)[k] = (order \o rest)[l] => k = l
      BY <2>1, AllOf
    <3>4. Covers(order \o rest)
      BY <2>1, AllOf
    <3> QED BY <3>1, <3>2, <3>3, <3>4 DEF Covers
  <2>5. ASSUME stage = "answered"
        PROVE  /\ {sequence[s] : s \in BeatStops} = 1..Cardinality(BeatStops)
               /\ \A s \in located, t \in BeatStops \ located : sequence[s] < sequence[t]
    <3>1. \A k \in 1..Len(all) : sequence[all[k]] = k
      BY <2>5 DEF BeatInv, NumberedUpTo
    <3> HIDE DEF all, n
    <3>2. \A k \in 1..Len(all) : k \in 1..n \/ k \in (n + 1)..Len(all)
      BY <2>4
    <3>3. \A k \in 1..Len(all) : all[k] \in BeatStops
      BY <2>1, <2>4, <3>2
    <3>4. {sequence[s] : s \in BeatStops} = 1..Len(all)
      BY <2>4, <3>1, <3>3
    <3>5. \A s \in located, t \in BeatStops \ located : sequence[s] < sequence[t]
      <4> SUFFICES ASSUME NEW s \in located, NEW t \in BeatStops \ located PROVE sequence[s] < sequence[t]
        OBVIOUS
      <4>1. PICK k \in 1..Len(all) : all[k] = s
        BY <2>1, <2>4
      <4>2. PICK l \in 1..Len(all) : all[l] = t
        BY <2>4
      <4>3. k \in 1..n /\ l \in (n + 1)..Len(all)
        BY <2>4, <3>2, <4>1, <4>2
      <4>4. sequence[s] = k /\ sequence[t] = l
        BY <3>1, <4>1, <4>2
      <4> QED BY <2>4, <4>3, <4>4
    <3> QED BY <2>4, <3>4, <3>5
  <2> QED BY <2>1, <2>2, <2>3, <2>4, <2>5 DEF RouteKept
<1> QED BY <1>1, BeatInvHolds, PTL

-----------------------------------------------------------------------------
(* FieldReports: alerts from sums *)

ReportInv == today \in Nat /\ invoices \in [Slots -> Nat]

LEMMA ReportInvHolds == ReportSpec => []ReportInv
<1>1. ReportInit => ReportInv
  BY DEF ReportInit, ReportInv
<1>2. ReportInv /\ [ReportNext]_reportVars => ReportInv'
  <2> SUFFICES ASSUME ReportInv, [ReportNext]_reportVars PROVE ReportInv'
    OBVIOUS
  <2>1. ASSUME NEW a \in Salesmen, NEW p \in ReportDiscounts, NEW i \in Wares, Invoice(a, p, i)
        PROVE  ReportInv'
    <3> DEFINE s == <<a, today, p>>
    <3>1. invoices' = [invoices EXCEPT ![s] = @ + 1] /\ today' = today
      BY <2>1 DEF Invoice
    <3> HIDE DEF s
    <3>2. invoices \in [Slots -> Nat] /\ today \in Nat
      BY DEF ReportInv
    <3>3. \A x \in Slots : [invoices EXCEPT ![s] = @ + 1][x] \in Nat
      BY <3>2
    <3>4. invoices' \in [Slots -> Nat]
      BY <3>1, <3>2, <3>3
    <3> QED BY <3>1, <3>2, <3>4 DEF ReportInv
  <2>2. CASE UNCHANGED <<today, invoices>>
    BY <2>2 DEF ReportInv
  <2>3. CASE ReportDay
    BY <2>3 DEF ReportDay, ReportInv
  <2>4. ASSUME NEW a \in Salesmen, Activity(a) \/ \E b \in BOOLEAN : CreditNote(a, b)
        PROVE  UNCHANGED <<today, invoices>>
    BY <2>4 DEF Activity, CreditNote
  <2>5. ASSUME NEW i \in Wares, NEW q \in ReportQuantities, Adjust(i, q)
        PROVE  UNCHANGED <<today, invoices>>
    BY <2>5 DEF Adjust
  <2> QED BY <2>1, <2>2, <2>3, <2>4, <2>5 DEF ReportNext, reportVars
<1> QED BY <1>1, <1>2, PTL DEF ReportSpec

LEMMA SlotsFinite ==
    /\ IsFiniteSet(Slots)
    /\ \A x \in Slots : x[1] \in Salesmen /\ x[2] \in Nat /\ x[3] \in Nat
<1>1. IsFiniteSet(1..MaxReportDay)
  BY ReportAssumption, FS_Interval
<1>2. IsFiniteSet(Salesmen \X (1..MaxReportDay))
  BY <1>1, ReportAssumption, FS_Product
<1> DEFINE S == (Salesmen \X (1..MaxReportDay)) \X ReportDiscounts
<1>3. IsFiniteSet(S)
  BY <1>2, ReportAssumption, FS_Product
<1> DEFINE f == [y \in S |-> <<y[1][1], y[1][2], y[2]>>]
<1>4. f \in Surjection(S, Slots)
  <2>1. f \in [S -> Slots]
    BY DEF Slots
  <2>2. \A x \in Slots : <<<<x[1], x[2]>>, x[3]>> \in S /\ f[<<<<x[1], x[2]>>, x[3]>>] = x
    BY DEF Slots
  <2> HIDE DEF S, f
  <2>3. \A x \in Slots : \E y \in S : f[y] = x
    BY <2>2
  <2> QED BY <2>1, <2>3, Zenon DEF Surjection
<1> HIDE DEF S, f
<1>5. IsFiniteSet(Slots)
  BY <1>3, <1>4, FS_Surjection, Zenon
<1>6. ASSUME NEW x \in Slots PROVE x[1] \in Salesmen /\ x[2] \in Nat /\ x[3] \in Nat
  <2>1. x[1] \in Salesmen /\ x[2] \in 1..MaxReportDay /\ x[3] \in ReportDiscounts
    BY DEF Slots
  <2>2. x[2] \in Nat
    BY <2>1
  <2>3. x[3] \in Nat
    BY <2>1, ReportAssumption
  <2> QED BY <2>1, <2>2, <2>3
<1> QED BY <1>5, <1>6

-----------------------------------------------------------------------------
(* Not every agent is above the fleet. *)

LEMMA NotEveryone ==
    ASSUME ReportInv, Selling # {}
    PROVE  DiscountPattern # Selling
<1> DEFINE R == Recent(Slots, PatternWindow)
           weight == [x \in R |-> x[3] * invoices[x]]
           F == SumFunctionOnSet(invoices, R)
           D == SumFunctionOnSet(weight, R)
           In(T) == {x \in R : x[1] \in T}
<1> SUFFICES ASSUME DiscountPattern = Selling PROVE FALSE
  OBVIOUS
<1>1. /\ IsFiniteSet(R) /\ R \subseteq Slots
      /\ \A x \in R : invoices[x] \in Nat /\ weight[x] \in Nat /\ x[1] \in Salesmen
                      /\ (invoices[x] = 0 => weight[x] = 0)
  <2>1. IsFiniteSet(R) /\ R \subseteq Slots
    BY SlotsFinite, FS_Subset DEF Recent
  <2>2. \A x \in R : invoices[x] \in Nat /\ x[3] \in Nat /\ x[1] \in Salesmen
    BY <2>1, SlotsFinite DEF ReportInv
  <2> HIDE DEF R
  <2>3. \A x \in R : weight[x] = x[3] * invoices[x]
    OBVIOUS
  <2> HIDE DEF weight
  <2>4. \A i, j \in Nat : i * j \in Nat /\ (j = 0 => i * j = 0)
    OBVIOUS
  <2>5. \A x \in R : weight[x] \in Nat /\ (invoices[x] = 0 => weight[x] = 0)
    BY <2>2, <2>3, <2>4, Zenon
  <2> QED BY <2>1, <2>2, <2>5
<1>2. \A S \in SUBSET R : /\ IsFiniteSet(S)
                          /\ Count(S) = SumFunctionOnSet(invoices, S)
                          /\ Percents(S) = SumFunctionOnSet(weight, S)
                          /\ SumFunctionOnSet(invoices, S) \in Int
                          /\ SumFunctionOnSet(weight, S) \in Int
  <2> SUFFICES ASSUME NEW S \in SUBSET R
               PROVE  /\ IsFiniteSet(S)
                      /\ Count(S) = SumFunctionOnSet(invoices, S)
                      /\ Percents(S) = SumFunctionOnSet(weight, S)
                      /\ SumFunctionOnSet(invoices, S) \in Int
                      /\ SumFunctionOnSet(weight, S) \in Int
    OBVIOUS
  <2> DEFINE own == [x \in S |-> x[3] * invoices[x]]
  <2>1. IsFiniteSet(S)
    BY <1>1, FS_Subset
  <2>2. \A x \in S : weight[x] \in Int /\ own[x] = weight[x]
    BY <1>1
  <2>3. Percents(S) = SumFunctionOnSet(own, S)
    BY DEF Percents
  <2> HIDE DEF own, weight, R
  <2>4. SumFunctionOnSet(own, S) = SumFunctionOnSet(weight, S)
    BY <2>1, <2>2, SumSame
  <2>5. SumFunctionOnSet(invoices, S) \in Int /\ SumFunctionOnSet(weight, S) \in Int
    BY <1>1, <2>1, SumType
  <2> QED BY <2>1, <2>3, <2>4, <2>5 DEF Count
<1>3. Selling \subseteq Salesmen /\ IsFiniteSet(Selling)
  BY ReportAssumption, FS_Subset DEF Selling
<1>4. FleetCount = F /\ Percents(R) = D /\ F \in Int /\ D \in Int
  BY <1>2 DEF FleetCount
<1>5. \A a \in Selling : LET own == Of(a, R) IN
        /\ own \in SUBSET R /\ D > 0
        /\ SumFunctionOnSet(invoices, own) > 0
        /\ 2 * SumFunctionOnSet(weight, own) * F >= 3 * D * SumFunctionOnSet(invoices, own)
  <2> SUFFICES ASSUME NEW a \in Selling
               PROVE  LET own == Of(a, R) IN
                      /\ own \in SUBSET R /\ D > 0
                      /\ SumFunctionOnSet(invoices, own) > 0
                      /\ 2 * SumFunctionOnSet(weight, own) * F >= 3 * D * SumFunctionOnSet(invoices, own)
    OBVIOUS
  <2> DEFINE own == Of(a, R)
  <2>1. own \in SUBSET R
    BY DEF Of
  <2>2. Count(own) > 0
    BY DEF Selling
  <2>3. /\ Percents(R) > 0
        /\ 2 * Percents(own) * FleetCount >= 3 * Percents(R) * Count(own)
    BY DEF DiscountPattern
  <2>4. Count(own) = SumFunctionOnSet(invoices, own) /\ Percents(own) = SumFunctionOnSet(weight, own)
    BY <1>2, <2>1
  <2> HIDE DEF own, weight, R, F, D
  <2> QED BY <1>4, <2>1, <2>2, <2>3, <2>4 DEF own
<1> HIDE DEF R, weight, F, D
\* What holds of each holds of all of them together.
<1>6. 2 * SumFunctionOnSet(weight, In(Selling)) * F >= 3 * D * SumFunctionOnSet(invoices, In(Selling))
  <2> DEFINE P == {T \in SUBSET Selling :
                     2 * SumFunctionOnSet(weight, In(T)) * F >= 3 * D * SumFunctionOnSet(invoices, In(T))}
  <2>1. {} \in P
    <3>1. In({}) = {}
      OBVIOUS
    <3>2. SumFunctionOnSet(weight, {}) = 0 /\ SumFunctionOnSet(invoices, {}) = 0
      BY SumEmpty
    <3>3. 2 * 0 * F >= 3 * D * 0
      BY <1>4
    <3> QED BY <3>1, <3>2, <3>3
  <2>2. ASSUME NEW T \in SUBSET Selling, NEW a \in Selling \ T, T \in P PROVE T \cup {a} \in P
    <3>1. In(T \cup {a}) = In(T) \cup Of(a, R) /\ In(T) \cap Of(a, R) = {}
          /\ In(T) \in SUBSET R /\ Of(a, R) \in SUBSET R
      BY DEF Of
    <3> DEFINE A == In(T)
               B == Of(a, R)
               pa == SumFunctionOnSet(weight, A)
               pb == SumFunctionOnSet(weight, B)
               ca == SumFunctionOnSet(invoices, A)
               cb == SumFunctionOnSet(invoices, B)
    <3>2. IsFiniteSet(A) /\ IsFiniteSet(B) /\ pa \in Int /\ pb \in Int /\ ca \in Int /\ cb \in Int
      BY <1>2, <3>1
    <3>3. SumFunctionOnSet(weight, A \cup B) = pa + pb /\ SumFunctionOnSet(invoices, A \cup B) = ca + cb
      <4>1. A \cap B = {} /\ \A x \in A \cup B : weight[x] \in Int /\ invoices[x] \in Int
        BY <1>1, <3>1
      <4> HIDE DEF A, B
      <4> QED BY <3>2, <4>1, SumUnion
    <3>4. 2 * pa * F >= 3 * D * ca
      BY <2>2
    <3>5. 2 * pb * F >= 3 * D * cb
      BY <1>5
    <3>6. T \cup {a} \in SUBSET Selling /\ In(T \cup {a}) = A \cup B
      BY <3>1
    <3> HIDE DEF A, B, pa, pb, ca, cb
    <3>7. 2 * (pa + pb) * F >= 3 * D * (ca + cb)
      <4>1. 2 * (pa + pb) * F = 2 * pa * F + 2 * pb * F
        BY <1>4, <3>2
      <4>2. 3 * D * (ca + cb) = 3 * D * ca + 3 * D * cb
        BY <1>4, <3>2
      <4> DEFINE x1 == 2 * pa * F
                 x2 == 2 * pb * F
                 y1 == 3 * D * ca
                 y2 == 3 * D * cb
      <4>3. x1 \in Int /\ x2 \in Int /\ y1 \in Int /\ y2 \in Int
        BY <1>4, <3>2
      <4>4. x1 >= y1 /\ x2 >= y2
        BY <3>4, <3>5
      <4> HIDE DEF x1, x2, y1, y2
      <4>5. x1 + x2 >= y1 + y2
        BY <4>3, <4>4
      <4> QED BY <4>1, <4>2, <4>5, Zenon DEF x1, x2, y1, y2
    <3> QED BY <3>3, <3>6, <3>7
  <2> HIDE DEF P
  <2>3. Selling \in P
    BY <1>3, <2>1, <2>2, SubsetInduction
  <2> QED BY <2>3 DEF P
\* The agents that do not sell add nothing.
<1>7. SumFunctionOnSet(invoices, In(Selling)) = F /\ SumFunctionOnSet(weight, In(Selling)) = D
  <2> DEFINE A == In(Selling)
             B == R \ A
  <2>1. A \in SUBSET R /\ B \in SUBSET R /\ A \cap B = {} /\ A \cup B = R
    OBVIOUS
  <2>2. \A x \in B : invoices[x] = 0
    <3> SUFFICES ASSUME NEW x \in B, invoices[x] # 0 PROVE FALSE
      OBVIOUS
    <3> DEFINE own == Of(x[1], R)
    <3>1. own \in SUBSET R /\ {x} \in SUBSET own /\ x[1] \in Salesmen /\ invoices[x] \in Nat
      BY <1>1, <2>1 DEF Of
    <3>2. IsFiniteSet(own) /\ Count(own) = SumFunctionOnSet(invoices, own) /\ SumFunctionOnSet(invoices, own) \in Int
      BY <1>2, <3>1
    <3>3. SumFunctionOnSet(invoices, {x}) <= SumFunctionOnSet(invoices, own)
      <4>1. \A y \in own : invoices[y] \in Nat
        BY <1>1, <3>1
      <4> HIDE DEF own
      <4> QED BY <3>1, <3>2, <4>1, SumSubset
    <3>4. SumFunctionOnSet(invoices, {x}) = invoices[x]
      <4>1. SumFunctionOnSet(invoices, {} \cup {x}) = SumFunctionOnSet(invoices, {}) + invoices[x]
        BY <3>1, FS_EmptySet, SumAdd
      <4>2. {} \cup {x} = {x} /\ SumFunctionOnSet(invoices, {}) = 0
        BY SumEmpty
      <4> QED BY <3>1, <4>1, <4>2
    <3>5. Count(own) > 0
      BY <3>1, <3>2, <3>3, <3>4
    <3>6. x[1] \in Selling
      BY <3>1, <3>5 DEF Selling, R
    <3> QED BY <2>1, <3>6
  <2>3. /\ IsFiniteSet(A) /\ IsFiniteSet(B)
        /\ SumFunctionOnSet(invoices, A) \in Int /\ SumFunctionOnSet(weight, A) \in Int
    BY <1>2, <2>1
  <2>4. /\ \A x \in A \cup B : invoices[x] \in Int /\ weight[x] \in Int
        /\ \A x \in B : weight[x] = 0
    BY <1>1, <2>1, <2>2
  <2> HIDE DEF A, B
  <2>5. SumFunctionOnSet(invoices, B) = 0 /\ SumFunctionOnSet(weight, B) = 0
    BY <2>2, <2>3, <2>4, SumZero
  <2>6. /\ SumFunctionOnSet(invoices, A \cup B) = SumFunctionOnSet(invoices, A) + SumFunctionOnSet(invoices, B)
        /\ SumFunctionOnSet(weight, A \cup B) = SumFunctionOnSet(weight, A) + SumFunctionOnSet(weight, B)
    BY <2>1, <2>3, <2>4, SumUnion
  <2>7. SumFunctionOnSet(invoices, A \cup B) = SumFunctionOnSet(invoices, A)
        /\ SumFunctionOnSet(weight, A \cup B) = SumFunctionOnSet(weight, A)
    BY <2>3, <2>5, <2>6
  <2>8. SumFunctionOnSet(invoices, A) = F /\ SumFunctionOnSet(weight, A) = D
    BY <2>1, <2>7, Zenon DEF F, D
  <2> QED BY <2>8, Zenon DEF A
<1>8. D > 0 /\ F > 0
  <2>1. PICK a \in Selling : TRUE
    OBVIOUS
  <2>2. /\ Of(a, R) \in SUBSET R /\ D > 0 /\ SumFunctionOnSet(invoices, Of(a, R)) > 0
    BY <1>5
  <2>3. SumFunctionOnSet(invoices, Of(a, R)) <= F /\ SumFunctionOnSet(invoices, Of(a, R)) \in Int
    BY <1>1, <1>2, <2>2, SumSubset DEF F
  <2> QED BY <1>4, <2>2, <2>3
<1>9. 2 * D * F >= 3 * D * F
  BY <1>6, <1>7
<1>10. D * F > 0 /\ 2 * D * F = 2 * (D * F) /\ 3 * D * F = 3 * (D * F) /\ D * F \in Int
  BY <1>4, <1>8
<1> DEFINE x == D * F
<1> HIDE DEF x
<1>11. x > 0 /\ x \in Int /\ 2 * x >= 3 * x
  BY <1>9, <1>10 DEF x
<1> QED BY <1>11

-----------------------------------------------------------------------------
(* Few days are as far from the mean as an outlier. *)

LEMMA Times ==
    /\ \A i, j \in Int : \A k \in Nat : i <= j => i * k <= j * k
    /\ \A i, j \in Int : \A k \in Nat \ {0} : i * k <= j * k => i <= j
    /\ \A i \in Int : i * i \in Nat /\ (i > 0 => i * i > 0)
<1>1. ASSUME NEW i \in Int, NEW j \in Int, NEW k \in Nat, i <= j PROVE i * k <= j * k
  BY <1>1
<1>2. ASSUME NEW i \in Int, NEW j \in Int, NEW k \in Nat \ {0}, i * k <= j * k PROVE i <= j
  <2> SUFFICES ASSUME j + 1 <= i PROVE FALSE
    OBVIOUS
  <2>1. (j + 1) * k <= i * k
    BY <1>1
  <2>2. (j + 1) * k = j * k + k /\ j * k \in Int /\ i * k \in Int
    OBVIOUS
  <2> QED BY <1>2, <2>1, <2>2
<1>3. ASSUME NEW i \in Int PROVE i * i \in Nat /\ (i > 0 => i * i > 0)
  BY <1>3
<1> QED BY <1>1, <1>2, <1>3

LEMMA FewFar ==
    ASSUME ReportInv, Outlier
    PROVE  4 * Cardinality({d \in History : Far(OnDay(d)) >= Far(OnDay(today))}) <= Cardinality(History)
<1> DEFINE H == History
           n == Cardinality(H)
           v == [d \in H |-> OnDay(d)]
           q == [d \in H |-> OnDay(d) * OnDay(d)]
           f == [d \in H |-> Far(OnDay(d))]
           K == Far(OnDay(today))
           B == {d \in H : Far(OnDay(d)) >= K}
           b == Cardinality(B)
<1>1. IsFiniteSet(H) /\ n \in Nat
  <2>1. today - PatternWindow \in Int /\ today - 1 \in Int
    BY ReportAssumption DEF ReportInv
  <2>2. IsFiniteSet(H)
    BY <2>1, FS_Interval DEF History, Since
  <2> QED BY <2>2, FS_CardinalityType
<1>2. ASSUME NEW d PROVE OnDay(d) \in Int
  <2> DEFINE S == {x \in Slots : x[2] = d}
  <2>1. IsFiniteSet(S)
    BY SlotsFinite, FS_Subset
  <2>2. \A x \in S : invoices[x] \in Int
    BY DEF ReportInv
  <2>3. OnDay(d) = SumFunctionOnSet(invoices, S)
    BY DEF OnDay, Count
  <2> HIDE DEF S
  <2> QED BY <2>1, <2>2, <2>3, SumType
<1>3. Total = SumFunctionOnSet(v, H) /\ Squares = SumFunctionOnSet(q, H)
  BY DEF Total, Squares
<1>4. \A x : Far(x) = (n * x - Total) * (n * x - Total)
  BY DEF Far
<1>5. Spread = n * Squares - Total * Total
  BY DEF Spread
<1> HIDE DEF H, n
<1>6. Total \in Int /\ Squares \in Int
  <2>1. \A d \in H : v[d] \in Int /\ q[d] \in Int
    BY <1>2
  <2> HIDE DEF v, q
  <2> QED BY <1>1, <1>3, <2>1, SumType
<1>7. \A x \in Int : Far(x) \in Nat
  <2>1. \A x \in Int : n * x - Total \in Int
    BY <1>1, <1>6
  <2> QED BY <1>4, <2>1, Times
<1>8. \A d \in H : f[d] \in Nat /\ f[d] = Far(OnDay(d))
  BY <1>2, <1>7
<1>9. K \in Nat
  BY <1>2, <1>7
<1>10. SumFunctionOnSet(f, H) = n * Spread
  <2>1. \A d \in H : /\ v[d] \in Int /\ q[d] = v[d] * v[d]
                      /\ f[d] = (n * v[d] - Total) * (n * v[d] - Total)
    BY <1>2, <1>4
  <2> HIDE DEF v, q, f
  <2>2. SumFunctionOnSet(f, H) = (n * n) * SumFunctionOnSet(q, H)
                - (2 * n * Total) * SumFunctionOnSet(v, H) + (Total * Total) * Cardinality(H)
    <3>1. (\A d \in H : v[d] \in Int) /\ (\A d \in H : q[d] = v[d] * v[d])
      BY <2>1
    <3>2. \A i, t \in Int : (\A d \in H : f[d] = (i * v[d] - t) * (i * v[d] - t)) =>
             SumFunctionOnSet(f, H) = (i * i) * SumFunctionOnSet(q, H)
                - (2 * i * t) * SumFunctionOnSet(v, H) + (t * t) * Cardinality(H)
      BY <1>1, <3>1, SumSquares
    <3>3. n \in Int /\ Total \in Int
      BY <1>1, <1>6
    <3> QED BY <2>1, <3>2, <3>3, Zenon
  <2>3. SumFunctionOnSet(f, H) = (n * n) * Squares - (2 * n * Total) * Total + (Total * Total) * n
    BY <1>3, <2>2 DEF n
  <2>4. ASSUME NEW i \in Int, NEW s \in Int, NEW t \in Int
        PROVE  (i * i) * s - (2 * i * t) * t + (t * t) * i = i * (i * s - t * t)
    <3> DEFINE w == i * (i * s)
               u == i * (t * t)
    <3>1. (i * i) * s = w /\ w \in Int
      OBVIOUS
    <3>2. (2 * i * t) * t = 2 * u /\ (t * t) * i = u /\ u \in Int
      OBVIOUS
    <3>3. i * (i * s - t * t) = w - u
      <4>1. \A x, y \in Int : i * (x - y) = i * x - i * y
        OBVIOUS
      <4>2. i * s \in Int /\ t * t \in Int
        OBVIOUS
      <4> QED BY <4>1, <4>2, Zenon
    <3> HIDE DEF w, u
    <3>4. w - 2 * u + u = w - u
      BY <3>1, <3>2
    <3> QED BY <3>1, <3>2, <3>3, <3>4, Zenon
  <2> QED BY <1>1, <1>5, <1>6, <2>3, <2>4
<1>11. IsFiniteSet(B) /\ b \in Nat /\ B \subseteq H
  <2>1. IsFiniteSet(B) /\ B \subseteq H
    BY <1>1, FS_Subset
  <2> HIDE DEF B
  <2> QED BY <2>1, FS_CardinalityType
<1>12. K * b <= n * Spread
  <2>1. \A d \in B : f[d] \in Int /\ f[d] >= K
    BY <1>8
  <2> HIDE DEF f, B, K
  <2>2. SumFunctionOnSet(f, B) >= K * Cardinality(B)
    BY <1>9, <1>11, <2>1, SumAtLeast
  <2>3. SumFunctionOnSet(f, B) <= SumFunctionOnSet(f, H)
    BY <1>1, <1>8, <1>11, SumSubset
  <2>4. SumFunctionOnSet(f, B) \in Int /\ n * Spread \in Int /\ K * b \in Int
    <3>1. SumFunctionOnSet(f, B) \in Int
      BY <1>11, <2>1, SumType
    <3> QED BY <1>1, <1>5, <1>6, <1>9, <1>11, <3>1
  <2> QED BY <1>10, <2>2, <2>3, <2>4
<1> HIDE DEF v, q, f, B, b, K
<1>13. Spread \in Int
  BY <1>1, <1>5, <1>6
<1>14. CASE Spread > 0 /\ K >= 4 * Spread
  <2>1. (4 * Spread) * b <= K * b
    BY <1>9, <1>11, <1>13, <1>14, Times
  <2>2. (4 * b) * Spread <= n * Spread
    <3>1. (4 * Spread) * b = (4 * b) * Spread /\ (4 * b) * Spread \in Int /\ K * b \in Int /\ n * Spread \in Int
      BY <1>1, <1>9, <1>11, <1>13
    <3> QED BY <1>12, <2>1, <3>1
  <2>3. 4 * b <= n
    BY <1>1, <1>11, <1>13, <1>14, <2>2, Times
  <2> QED BY <2>3 DEF b, B, K, n, H
<1>15. CASE Spread = 0 /\ Total > 0 /\ 4 * K > Total * Total
  <2>1. K > 0
    <3>1. Total * Total > 0 /\ Total * Total \in Int
      BY <1>6, <1>15, Times
    <3> QED BY <1>9, <1>15, <3>1
  <2>2. b * K <= 0 * K
    <3>1. n * Spread = 0
      BY <1>1, <1>15
    <3>2. 0 * K = 0 /\ b * K = K * b
      BY <1>9, <1>11
    <3> QED BY <1>12, <3>1, <3>2, Zenon
  <2>3. b <= 0
    BY <1>9, <1>11, <2>1, <2>2, Times
  <2>4. 4 * b <= n
    BY <1>1, <1>11, <2>3
  <2> QED BY <2>4 DEF b, B, K, n, H
<1> QED BY <1>14, <1>15 DEF Outlier, K

\* An alert of the reports singles somebody or something out: the agents with an
\* unusual discount pattern are never all that sell (fraud_alerts.py), and at most a
\* quarter of the days behind a business insight are as far off as its outlier
\* (anomaly_insights.py), for any agents, discounts, days and rows.
THEOREM AlertsAreForFew == ReportSpec => []AlertsSingleOut
<1>1. ReportInv => AlertsSingleOut
  BY NotEveryone, FewFar DEF AlertsSingleOut
<1> QED BY <1>1, ReportInvHolds, PTL

-----------------------------------------------------------------------------
(* FleetUpkeep: the status the dashboard shows *)

Standings == {"ok", "due_soon", "overdue"}

LEMMA RankOf ==
    /\ Rank["ok"] = 0 /\ Rank["due_soon"] = 1 /\ Rank["overdue"] = 2
    /\ \A a \in Standings : Rank[a] \in 0..2
BY DEF Rank, Standings

\* Whatever a schedule is due at and whatever was read, its status is one of three.
LEMMA StatusOf == \A s : MaintenanceStatus(s) \in Standings
<1>1. \A r, soon : Standing(r, soon) \in Standings
  BY DEF Standing, Standings
<1>2. \A a, b \in Standings : Worse(a, b) \in Standings
  BY DEF Worse
<1>3. "ok" \in Standings
  BY DEF Standings
<1> QED BY <1>1, <1>2, <1>3 DEF MaintenanceStatus

\* The loop of the dashboard over schedules p, and what one round of it shows.
Showing(f, p, k) ==
    IF k = 0 THEN "ok"
    ELSE IF f[k - 1] # "overdue" /\ Alert(p[k]) THEN MaintenanceStatus(p[k]) ELSE f[k - 1]

Shows(f, p) == f = [k \in 0..Len(p) |-> Showing(f, p, k)]

\* The first rounds of the loop, up to m.
Filled(f, p, m) == DOMAIN f = 0..Len(p) /\ \A k \in 0..m : f[k] = Showing(f, p, k)

LEMMA ShownIs == \A p : ShownStatus(p) = (CHOOSE f : Shows(f, p))[Len(p)]
BY Zenon DEF ShownStatus, Shows, Showing

\* The loop can be run: the rounds are filled in one after the other.
LEMMA ShowsExists ==
    ASSUME NEW p, Len(p) \in Nat
    PROVE  \E f : Shows(f, p)
<1> DEFINE n == Len(p)
           R == {m \in Nat : m <= n => \E f : Filled(f, p, m)}
<1>1. 0 \in R
  <2> DEFINE f == [k \in 0..n |-> "ok"]
  <2>1. DOMAIN f = 0..n /\ \A k \in 0..0 : f[k] = Showing(f, p, k)
    BY DEF Showing
  <2> QED BY <2>1 DEF Filled
<1>2. \A m \in Nat : m \in R => m + 1 \in R
  <2> SUFFICES ASSUME NEW m \in Nat, m \in R, m + 1 <= n
               PROVE  \E f : Filled(f, p, m + 1)
    OBVIOUS
  <2>1. PICK g : DOMAIN g = 0..n /\ \A k \in 0..m : g[k] = Showing(g, p, k)
    BY DEF Filled
  <2> DEFINE f == [k \in 0..n |-> IF k = m + 1 THEN Showing(g, p, m + 1) ELSE g[k]]
  <2>2. DOMAIN f = 0..n
    OBVIOUS
  <2>3. f[m + 1] = Showing(g, p, m + 1) /\ \A k \in 0..m : f[k] = g[k]
    OBVIOUS
  <2> HIDE DEF f
  <2>4. Showing(f, p, m + 1) = Showing(g, p, m + 1)
    BY <2>3 DEF Showing
  <2>5. \A k \in 0..m : Showing(f, p, k) = Showing(g, p, k)
    BY <2>3 DEF Showing
  <2>6. \A k \in 0..(m + 1) : k = m + 1 \/ k \in 0..m
    OBVIOUS
  <2>7. \A k \in 0..(m + 1) : f[k] = Showing(f, p, k)
    BY <2>1, <2>3, <2>4, <2>5, <2>6, Zenon
  <2> QED BY <2>2, <2>7 DEF Filled
<1> HIDE DEF R
<1>3. n \in R
  BY <1>1, <1>2, SetInduction
<1>4. PICK f : DOMAIN f = 0..n /\ \A k \in 0..n : f[k] = Showing(f, p, k)
  BY <1>3 DEF R, Filled
<1> DEFINE g == [k \in 0..n |-> f[k]]
<1>5. \A k \in 0..n : Showing(g, p, k) = Showing(f, p, k)
  BY DEF Showing
<1>6. g = [k \in 0..n |-> Showing(g, p, k)]
  BY <1>4, <1>5
<1> QED BY <1>6 DEF Shows

\* After k rounds what is shown is at least as bad as each of the k statuses.
LEMMA ShownSoFar ==
    ASSUME NEW p, Len(p) \in Nat, NEW f, Shows(f, p)
    PROVE  \A k \in 0..Len(p) :
              /\ f[k] \in Standings
              /\ \A i \in 1..k : Rank[f[k]] >= Rank[MaintenanceStatus(p[i])]
<1> DEFINE n == Len(p)
           Good(k) == /\ f[k] \in Standings
                      /\ \A i \in 1..k : Rank[f[k]] >= Rank[MaintenanceStatus(p[i])]
           R == {m \in Nat : m <= n => Good(m)}
<1>1. 0 \in R
  BY DEF Shows, Showing, Standings
<1>2. \A m \in Nat : m \in R => m + 1 \in R
  <2> SUFFICES ASSUME NEW m \in Nat, m \in R, m + 1 <= n PROVE Good(m + 1)
    OBVIOUS
  <2>1. Good(m)
    OBVIOUS
  <2>2. f[m + 1] = IF f[m] # "overdue" /\ Alert(p[m + 1]) THEN MaintenanceStatus(p[m + 1]) ELSE f[m]
    BY DEF Shows, Showing
  <2> DEFINE new == MaintenanceStatus(p[m + 1])
  <2>3. new \in Standings /\ (Alert(p[m + 1]) <=> new # "ok")
    BY StatusOf DEF Alert
  <2>4. f[m + 1] \in Standings
    BY <2>1, <2>2, <2>3
  <2>5. Rank[f[m + 1]] >= Rank[new] /\ Rank[f[m + 1]] >= Rank[f[m]]
    <3> DEFINE old == f[m]
    <3>1. old \in Standings /\ new \in Standings
      BY <2>1, <2>3
    <3>2. \A a, b \in Standings :
             /\ Rank[a] >= Rank[a]
             /\ a = "overdue" \/ b = "ok" => Rank[a] >= Rank[b]
             /\ a # "overdue" /\ b # "ok" => Rank[b] >= Rank[a]
      BY RankOf DEF Standings
    <3>3. f[m + 1] = IF old # "overdue" /\ new # "ok" THEN new ELSE old
      BY <2>2, <2>3
    <3> HIDE DEF old, new
    <3>4. Rank[f[m + 1]] >= Rank[new] /\ Rank[f[m + 1]] >= Rank[old]
      <4>1. CASE old # "overdue" /\ new # "ok"
        <5>1. f[m + 1] = new
          BY <3>3, <4>1
        <5> QED BY <3>1, <3>2, <4>1, <5>1, Zenon
      <4>2. CASE ~(old # "overdue" /\ new # "ok")
        <5>1. f[m + 1] = old
          BY <3>3, <4>2
        <5> QED BY <3>1, <3>2, <4>2, <5>1, Zenon
      <4> QED BY <4>1, <4>2
    <3> QED BY <3>4 DEF old
  <2>6. \A i \in 1..(m + 1) : i = m + 1 \/ i \in 1..m
    OBVIOUS
  <2>7. \A i \in 1..(m + 1) : Rank[f[m + 1]] >= Rank[MaintenanceStatus(p[i])]
    <3> SUFFICES ASSUME NEW i \in 1..(m + 1) PROVE Rank[f[m + 1]] >= Rank[MaintenanceStatus(p[i])]
      OBVIOUS
    <3> DEFINE a == MaintenanceStatus(p[i])
    <3>1. a \in Standings
      BY StatusOf
    <3>2. i # m + 1 => Rank[f[m]] >= Rank[a]
      BY <2>1
    <3>3. i = m + 1 => Rank[f[m + 1]] >= Rank[a]
      BY <2>5
    <3>4. Rank[a] \in Int /\ Rank[f[m]] \in Int /\ Rank[f[m + 1]] \in Int
      BY <2>1, <2>4, <3>1, RankOf
    <3> HIDE DEF a, new
    <3>5. Rank[f[m + 1]] >= Rank[a]
      BY <2>5, <3>2, <3>3, <3>4
    <3> QED BY <3>5 DEF a
  <2> QED BY <2>4, <2>7
<1> HIDE DEF R
<1>3. Nat \subseteq R
  BY <1>1, <1>2, SetInduction
<1> QED BY <1>3 DEF R

\* The dashboard shows a vehicle at its worst whatever order its alerts come in,
\* though the loop stops at the first overdue one and otherwise keeps the last.
THEOREM WorstIsShown == UpkeepSpec => []WorstShown
<1>1. WorstShown
  <2> SUFFICES ASSUME NEW p \in SetToSeqs(Schedules), NEW s \in Schedules
               PROVE  Rank[ShownStatus(p)] >= Rank[MaintenanceStatus(s)]
    BY DEF WorstShown
  <2> DEFINE f == CHOOSE g : Shows(g, p)
  <2>1. Len(p) \in Nat /\ \E i \in 1..Len(p) : p[i] = s
    BY UpkeepAssumption, ListOf
  <2>2. Shows(f, p)
    BY <2>1, ShowsExists
  <2>3. ShownStatus(p) = f[Len(p)]
    BY ShownIs, Zenon
  <2> HIDE DEF f
  <2>4. \A i \in 1..Len(p) : Rank[f[Len(p)]] >= Rank[MaintenanceStatus(p[i])]
    BY <2>1, <2>2, ShownSoFar
  <2> QED BY <2>1, <2>3, <2>4
<1> QED BY <1>1, PTL

-----------------------------------------------------------------------------
(* TripTracking: types, and what a clock can add up to *)

\* Pings of a stretch of time, in an order.
Moments(S, m, f) == IsFiniteSet(S) /\ (\A p \in S : p.at \in 0..m) /\ Ordering(S, f)

\* Hops do not overlap ...
LEMMA HopsApart ==
    ASSUME NEW m \in Nat, NEW S, NEW f, Moments(S, m, f), NEW g \in Hops(S, f), NEW h \in Hops(S, f), NEW k \in Int,
           g[1].at < k, k <= g[2].at, h[1].at < k, k <= h[2].at
    PROVE  g = h
<1>1. /\ g = <<g[1], g[2]>> /\ g[1] \in S /\ g[2] \in S /\ f[g[1]] < f[g[2]]
      /\ \A q \in S : ~(f[g[1]] < f[q] /\ f[q] < f[g[2]])
  BY DEF Hops
<1>2. /\ h = <<h[1], h[2]>> /\ h[1] \in S /\ h[2] \in S /\ f[h[1]] < f[h[2]]
      /\ \A q \in S : ~(f[h[1]] < f[q] /\ f[q] < f[h[2]])
  BY DEF Hops
<1>3. \A q \in S : q.at \in Int /\ f[q] \in Int
  BY DEF Moments, Ordering
<1>4. g[1].at < h[2].at /\ h[1].at < g[2].at
  BY <1>1, <1>2, <1>3
<1>5. f[g[1]] < f[h[2]] /\ f[h[1]] < f[g[2]]
  BY <1>1, <1>2, <1>4 DEF Moments, Ordering
<1>6. f[g[1]] = f[h[1]] /\ f[g[2]] = f[h[2]]
  BY <1>1, <1>2, <1>3, <1>5
<1>7. g[1] = h[1] /\ g[2] = h[2]
  BY <1>1, <1>2, <1>6 DEF Moments, Ordering
<1> QED BY <1>1, <1>2, <1>7

\* The moments some hop of T spans.
Spanned(T, m) == {k \in 1..m : \E h \in T : h[1].at < k /\ k <= h[2].at}

\* ... so their gaps add up to moments that have passed.
LEMMA GapsAdd ==
    ASSUME NEW m \in Nat, NEW S, NEW f, Moments(S, m, f), NEW Q \in SUBSET Hops(S, f)
    PROVE  SumFunctionOnSet([h \in Q |-> Gap(h)], Q) \in 0..m
<1> DEFINE w == [h \in Q |-> Gap(h)]
           P == {T \in SUBSET Q : SumFunctionOnSet(w, T) = Cardinality(Spanned(T, m))}
<1>0. IsFiniteSet(Q)
  <2>1. IsFiniteSet(Hops(S, f))
    BY HopsFinite DEF Moments
  <2> QED BY <2>1, FS_Subset
<1>1. \A T : IsFiniteSet(Spanned(T, m)) /\ Cardinality(Spanned(T, m)) \in 0..m
  <2> SUFFICES ASSUME NEW T PROVE IsFiniteSet(Spanned(T, m)) /\ Cardinality(Spanned(T, m)) \in 0..m
    OBVIOUS
  <2>1. IsFiniteSet(1..m) /\ Cardinality(1..m) = m
    BY FS_Interval
  <2>2. Spanned(T, m) \subseteq 1..m
    BY DEF Spanned
  <2>3. /\ IsFiniteSet(Spanned(T, m)) /\ Cardinality(Spanned(T, m)) <= m
    BY <2>1, <2>2, FS_Subset
  <2> QED BY <2>3, FS_CardinalityType
<1>2. \A h \in Q : /\ h \in Hops(S, f) /\ h[1].at \in 0..m /\ h[2].at \in 0..m /\ h[1].at <= h[2].at
                   /\ w[h] = h[2].at - h[1].at
  <2> SUFFICES ASSUME NEW h \in Q
               PROVE  /\ h[1].at \in 0..m /\ h[2].at \in 0..m /\ h[1].at <= h[2].at
                      /\ Gap(h) = h[2].at - h[1].at
    OBVIOUS
  <2>1. h[1] \in S /\ h[2] \in S /\ f[h[1]] < f[h[2]]
    BY DEF Hops
  <2>2. h[1].at \in 0..m /\ h[2].at \in 0..m
    BY <2>1 DEF Moments
  <2>3. ~(h[2].at < h[1].at)
    BY <2>1 DEF Moments, Ordering
  <2> QED BY <2>2, <2>3 DEF Gap
<1>3. \A h \in Q : w[h] \in Nat
  BY <1>2
<1> HIDE DEF w
<1>4. {} \in P
  <2>1. Spanned({}, m) = {}
    BY DEF Spanned
  <2> QED BY <2>1, SumEmpty, FS_EmptySet
<1>5. ASSUME NEW T \in SUBSET Q, NEW h \in Q \ T, T \in P PROVE T \cup {h} \in P
  <2>1. SumFunctionOnSet(w, T \cup {h}) = SumFunctionOnSet(w, T) + w[h]
    <3>1. IsFiniteSet(T) /\ h \notin T /\ \A x \in T \cup {h} : w[x] \in Int
      BY <1>0, <1>3, FS_Subset
    <3> QED BY <3>1, SumAdd
  <2> DEFINE A == Spanned(T, m)
             B == Spanned({h}, m)
             a == h[1].at
             b == h[2].at
  <2>2. Spanned(T \cup {h}, m) = A \cup B
    BY DEF Spanned
  <2>3. A \cap B = {}
    <3> SUFFICES ASSUME NEW k \in A, k \in B PROVE FALSE
      OBVIOUS
    <3>1. PICK g \in T : g[1].at < k /\ k <= g[2].at
      BY DEF Spanned
    <3>2. h[1].at < k /\ k <= h[2].at /\ k \in Int
      BY DEF Spanned
    <3>3. g = h
      BY <1>2, <3>1, <3>2, HopsApart
    <3> QED BY <3>3
  <2>4. B = (a + 1)..b
    BY <1>2 DEF Spanned
  <2>5. a \in 0..m /\ b \in 0..m /\ a <= b
    BY <1>2
  <2>6. IsFiniteSet(A) /\ IsFiniteSet(B)
    BY <1>1
  <2> HIDE DEF A, B, a, b
  <2>7. Cardinality(B) = b - a
    <3>1. a + 1 \in Int /\ b \in Int /\ b - (a + 1) + 1 = b - a /\ (a + 1 > b => b - a = 0)
      BY <2>5
    <3>2. \A i, j \in Int : Cardinality(i..j) = IF i > j THEN 0 ELSE j - i + 1
      BY FS_Interval
    <3> QED BY <2>4, <3>1, <3>2
  <2>8. Cardinality(A \cup B) = Cardinality(A) + Cardinality(B)
    <3>1. Cardinality(A \cup B) = Cardinality(A) + Cardinality(B) - Cardinality(A \cap B)
      BY <2>6, FS_Union
    <3>2. Cardinality(A \cap B) = 0
      BY <2>3, FS_EmptySet
    <3>3. Cardinality(A) \in Nat /\ Cardinality(B) \in Nat
      BY <2>6, FS_CardinalityType
    <3> QED BY <3>1, <3>2, <3>3
  <2>9. w[h] = b - a
    BY <1>2 DEF a, b
  <2>10. SumFunctionOnSet(w, T) = Cardinality(A)
    BY <1>5 DEF A
  <2> QED BY <2>1, <2>2, <2>7, <2>8, <2>9, <2>10
<1> HIDE DEF P
<1>6. Q \in P
  BY <1>0, <1>4, <1>5, SubsetInduction
<1> QED BY <1>1, <1>6 DEF P, w

TripBounds == MaxTime \in Nat /\ MaxTripCalls \in Nat /\ IsFiniteSet(Trips) /\ NoPlace \notin TripPlaces

\* The times of a row have passed.
Past(r, t) == r.from \in -1..t /\ r.to \in -1..t

TripTyped ==
    /\ PingInv
    /\ now \in 0..MaxTime /\ tripCalls \in 0..MaxTripCalls
    /\ \A t \in Trips : Past(trip[t], now) /\ (copy[t] # <<>> => Past(copy[t][1], now))
    /\ visit \in [Trips -> [TripStops -> TripPlaces \cup {NoPlace, NoFix}]]
    /\ \A p \in ping : p.at \in 0..MaxTime

LEMMA TripTypedInit == TripBounds /\ TripInit => TripTyped
<1> SUFFICES ASSUME TripBounds, TripInit PROVE TripTyped
  OBVIOUS
<1>1. Past(NewTrip, 0)
  BY DEF Past, NewTrip
<1>2. \A t \in Trips : trip[t] = NewTrip /\ copy[t] = <<>>
  BY DEF TripInit
<1>3. now = 0
  BY DEF TripInit
<1>4. \A t \in Trips : Past(trip[t], now)
  BY <1>1, <1>2, <1>3
<1> QED BY <1>2, <1>4, PingInvInit DEF TripInit, TripTyped, TripBounds

\* Rows and calls, when the pings are left alone.
LEMMA TripRowsTyped ==
    ASSUME TripBounds, TripTyped, PingInv', ping' = ping, now' \in now..MaxTime, tripCalls' \in 0..MaxTripCalls,
           \A t \in Trips : Past(trip'[t], now') /\ (copy'[t] # <<>> => Past(copy'[t][1], now')),
           visit' \in [Trips -> [TripStops -> TripPlaces \cup {NoPlace, NoFix}]]
    PROVE  TripTyped'
<1>1. now \in Int /\ now >= 0 /\ MaxTime \in Int
  BY DEF TripTyped, TripBounds
<1>2. now' \in 0..MaxTime /\ now <= now'
  BY <1>1
<1> QED BY <1>2 DEF TripTyped

LEMMA OneMoreCall ==
    ASSUME TripBounds, TripTyped, NEW t \in Trips, TripCall(t)
    PROVE  tripCalls' \in 0..MaxTripCalls
BY DEF TripBounds, TripTyped, TripCall

LEMMA PastStays ==
    ASSUME TripTyped, NEW m \in Int, now <= m
    PROVE  \A t \in Trips : Past(trip[t], m) /\ (copy[t] # <<>> => Past(copy[t][1], m))
<1>1. now \in Int /\ \A x \in -1..now : x \in -1..m
  BY DEF TripTyped
<1> QED BY <1>1 DEF TripTyped, Past

\* What start, end, a push and a deletion make of a row.
LEMMA TripChanged ==
    ASSUME TripBounds, TripTyped, NEW t \in Trips, StartTrip(t) \/ EndTrip(t) \/ ReadTrip(t) \/ SaveTrip(t)
    PROVE  TripTyped'
<1>0. now \in 0..MaxTime /\ now \in Nat /\ MaxTime \in Nat /\ tripCalls \in 0..MaxTripCalls
  BY DEF TripTyped, TripBounds
<1>1. PingInv'
  BY PingInvStep DEF TripTyped, TripNext
<1>2. trip \in [Trips -> TripRows] /\ copy \in [Trips -> {<<>>} \cup {<<row>> : row \in TripRows}]
  BY DEF TripTyped, PingInv
<1>3. \A u \in Trips : Past(trip[u], now) /\ (copy[u] # <<>> => Past(copy[u][1], now))
  BY DEF TripTyped
<1>4. visit \in [Trips -> [TripStops -> TripPlaces \cup {NoPlace, NoFix}]]
  BY DEF TripTyped
<1>5. now \in now..MaxTime
  BY <1>0
<1>6. CASE StartTrip(t)
  <2> DEFINE q == [trip[t] EXCEPT !.status = "in_progress"]
             r == [q EXCEPT !.from = now]
  <2>1. q = [status |-> "in_progress", from |-> trip[t].from, to |-> trip[t].to]
    BY <1>2 DEF TripRows
  <2>2. Past(r, now)
    <3> HIDE DEF q
    <3>1. r.from = now /\ r.to = trip[t].to
      BY <2>1
    <3> HIDE DEF r
    <3> QED BY <1>0, <1>3, <3>1 DEF Past
  <2>3. trip' = [trip EXCEPT ![t] = r]
    BY <1>2, <1>6 DEF StartTrip
  <2> HIDE DEF r
  <2>4. \A u \in Trips : Past(trip'[u], now)
    BY <1>2, <1>3, <2>2, <2>3
  <2>5. tripCalls' \in 0..MaxTripCalls
    BY <1>6, OneMoreCall DEF StartTrip
  <2> QED BY <1>1, <1>3, <1>4, <1>5, <1>6, <2>4, <2>5, TripRowsTyped DEF StartTrip
<1>7. CASE EndTrip(t)
  <2> DEFINE q == [trip[t] EXCEPT !.status = "completed"]
             r == [q EXCEPT !.to = now]
  <2>1. q = [status |-> "completed", from |-> trip[t].from, to |-> trip[t].to]
    BY <1>2 DEF TripRows
  <2>2. Past(r, now)
    <3> HIDE DEF q
    <3>1. r.to = now /\ r.from = trip[t].from
      BY <2>1
    <3> HIDE DEF r
    <3> QED BY <1>0, <1>3, <3>1 DEF Past
  <2>3. trip' = [trip EXCEPT ![t] = r]
    BY <1>2, <1>7 DEF EndTrip
  <2> HIDE DEF r
  <2>4. \A u \in Trips : Past(trip'[u], now)
    BY <1>2, <1>3, <2>2, <2>3
  <2>5. tripCalls' \in 0..MaxTripCalls
    BY <1>7, OneMoreCall DEF EndTrip
  <2> QED BY <1>1, <1>3, <1>4, <1>5, <1>7, <2>4, <2>5, TripRowsTyped DEF EndTrip
<1>8. CASE ReadTrip(t)
  <2> DEFINE r == trip[t]
  <2>1. copy' = [copy EXCEPT ![t] = <<r>>] /\ trip' = trip
    BY <1>8 DEF ReadTrip
  <2>2. Past(r, now) /\ <<r>>[1] = r
    BY <1>3
  <2> HIDE DEF r
  <2>3. \A u \in Trips : copy'[u] # <<>> => Past(copy'[u][1], now)
    BY <1>2, <1>3, <2>1, <2>2
  <2>4. tripCalls' \in 0..MaxTripCalls
    BY <1>8, OneMoreCall DEF ReadTrip
  <2> QED BY <1>1, <1>3, <1>4, <1>5, <1>8, <2>1, <2>3, <2>4, TripRowsTyped DEF ReadTrip
<1>9. CASE SaveTrip(t)
  <2>1. Past(copy[t][1], now)
    BY <1>3, <1>9 DEF SaveTrip
  <2>2. PICK status \in {"in_progress", "completed"}, from \in {-1, 0, now}, to \in {-1, 0, now} :
          trip' = [trip EXCEPT ![t] = [status |-> status,
                      from |-> IF from = -1 THEN copy[t][1].from ELSE from,
                      to |-> IF to = -1 THEN copy[t][1].to ELSE to]]
    BY <1>9 DEF SaveTrip
  <2> DEFINE r == [status |-> status,
                   from |-> IF from = -1 THEN copy[t][1].from ELSE from,
                   to |-> IF to = -1 THEN copy[t][1].to ELSE to]
  <2>3. Past(r, now)
    <3>1. /\ r.from = IF from = -1 THEN copy[t][1].from ELSE from
          /\ r.to = IF to = -1 THEN copy[t][1].to ELSE to
      OBVIOUS
    <3>2. 0 \in -1..now /\ now \in -1..now
      BY <1>0
    <3> HIDE DEF r
    <3> QED BY <2>1, <3>1, <3>2 DEF Past
  <2> HIDE DEF r
  <2>4. trip' = [trip EXCEPT ![t] = r]
    BY <2>2 DEF r
  <2>5. \A u \in Trips : Past(trip'[u], now)
    BY <1>2, <1>3, <2>3, <2>4
  <2>6. \A u \in Trips : copy'[u] # <<>> => Past(copy'[u][1], now)
    BY <1>2, <1>3, <1>9 DEF SaveTrip
  <2> QED BY <1>0, <1>1, <1>4, <1>5, <1>9, <2>5, <2>6, TripRowsTyped DEF SaveTrip
<1> QED BY <1>6, <1>7, <1>8, <1>9

LEMMA TripDestroyed ==
    ASSUME TripBounds, TripTyped, NEW t \in Trips, DestroyTrip(t)
    PROVE  TripTyped'
<1>0. now \in 0..MaxTime /\ now \in Nat
  BY DEF TripTyped, TripBounds
<1>1. PingInv'
  BY PingInvStep DEF TripTyped, TripNext
<1>2. trip \in [Trips -> TripRows] /\ copy \in [Trips -> {<<>>} \cup {<<row>> : row \in TripRows}]
  BY DEF TripTyped, PingInv
<1>3. Past(Gone, now)
  <2>1. Gone.from = -1 /\ Gone.to = -1
    BY DEF Gone, NewTrip
  <2> QED BY <1>0, <2>1 DEF Past
<1>4. trip' = [trip EXCEPT ![t] = Gone] /\ copy' = [copy EXCEPT ![t] = <<>>] /\ now' = now
      /\ visit' = [visit EXCEPT ![t] = [s \in TripStops |-> NoPlace]] /\ tripCalls' \in 0..MaxTripCalls
  BY OneMoreCall DEF DestroyTrip
<1>5. \A u \in Trips : Past(trip'[u], now) /\ (copy'[u] # <<>> => Past(copy'[u][1], now))
  BY <1>2, <1>3, <1>4 DEF TripTyped
<1>6. visit' \in [Trips -> [TripStops -> TripPlaces \cup {NoPlace, NoFix}]]
  BY <1>4 DEF TripTyped
<1>7. ping' = {Detached(p, t) : p \in ping}
  BY DEF DestroyTrip, Detached
<1>8. \A p \in ping : Detached(p, t).at = p.at /\ Detached(p, t).agent = p.agent
  BY DEF TripTyped, PingInv, PingRows, Detached
<1>9. \A q \in ping' : q.at \in 0..MaxTime
  <2> SUFFICES ASSUME NEW q \in ping' PROVE q.at \in 0..MaxTime
    OBVIOUS
  <2>1. PICK p \in ping : q = Detached(p, t)
    BY <1>7
  <2> QED BY <1>8, <2>1 DEF TripTyped
<1> QED BY <1>0, <1>1, <1>4, <1>5, <1>6, <1>9 DEF TripTyped

LEMMA TripTypedStep == TripBounds /\ TripTyped /\ [TripNext]_tripVars => TripTyped'
<1> SUFFICES ASSUME TripBounds, TripTyped, [TripNext]_tripVars PROVE TripTyped'
  OBVIOUS
<1>0. now \in 0..MaxTime /\ now \in Nat /\ MaxTime \in Nat /\ tripCalls \in 0..MaxTripCalls /\ now \in now..MaxTime
  BY DEF TripTyped, TripBounds
<1>1. PingInv'
  BY PingInvStep DEF TripTyped
<1>2. visit \in [Trips -> [TripStops -> TripPlaces \cup {NoPlace, NoFix}]]
      /\ \A t \in Trips : Past(trip[t], now) /\ (copy[t] # <<>> => Past(copy[t][1], now))
  BY DEF TripTyped
<1>3. CASE UNCHANGED tripVars
  BY <1>0, <1>1, <1>2, <1>3, TripRowsTyped DEF tripVars
<1>4. CASE TripTick
  <2>1. now' \in now..MaxTime /\ now' \in Int /\ now <= now'
    BY <1>0, <1>4 DEF TripTick
  <2>2. \A t \in Trips : Past(trip[t], now') /\ (copy[t] # <<>> => Past(copy[t][1], now'))
    <3>1. \A m \in Int : now <= m =>
             \A t \in Trips : Past(trip[t], m) /\ (copy[t] # <<>> => Past(copy[t][1], m))
      BY PastStays
    <3> QED BY <2>1, <3>1
  <2> QED BY <1>0, <1>1, <1>2, <1>4, <2>1, <2>2, TripRowsTyped DEF TripTick
<1>5. ASSUME NEW t \in Trips, NEW s \in TripStops, NEW place1 \in TripPlaces \cup {NoFix}, CheckInVisit(t, s, place1)
      PROVE  TripTyped'
  <2>1. visit' \in [Trips -> [TripStops -> TripPlaces \cup {NoPlace, NoFix}]]
    BY <1>2, <1>5 DEF CheckInVisit
  <2>2. tripCalls' \in 0..MaxTripCalls
    BY <1>5, OneMoreCall DEF CheckInVisit
  <2> QED BY <1>0, <1>1, <1>2, <1>5, <2>1, <2>2, TripRowsTyped DEF CheckInVisit
<1>6. ASSUME NEW t \in Trips, NEW s \in TripStops, CheckOut(t, s) PROVE TripTyped'
  <2>1. tripCalls' \in 0..MaxTripCalls
    BY <1>6, OneMoreCall DEF CheckOut
  <2> QED BY <1>0, <1>1, <1>2, <1>6, <2>1, TripRowsTyped DEF CheckOut
<1>7. ASSUME NEW t \in Trips \cup {NoTrip}, NEW a \in Drivers, NEW at \in 0..MaxTime, NEW spot \in TripPlaces,
             PushPing(t, a, at, spot)
      PROVE  TripTyped'
  <2> DEFINE n == Cardinality({p \in ping : p.agent = a /\ p.at = at}) + 1
             r == [trip |-> t, agent |-> a, at |-> at, place |-> spot, n |-> n]
  <2>1. ping' = ping \cup {r} /\ UNCHANGED <<now, trip, copy, visit, left, tripCalls>>
    BY <1>7 DEF PushPing
  <2> HIDE DEF n
  <2>2. r.at = at
    OBVIOUS
  <2> HIDE DEF r
  <2>3. \A p \in ping' : p.at \in 0..MaxTime
    BY <2>1, <2>2 DEF TripTyped
  <2> QED BY <1>0, <1>1, <1>2, <2>1, <2>3 DEF TripTyped
<1> QED BY <1>3, <1>4, <1>5, <1>6, <1>7, TripChanged, TripDestroyed DEF TripNext

\* The stretches a trip stands still add up to time that has passed.
LEMMA IdleWithin ==
    ASSUME TripBounds, TripTyped, NEW t \in Trips, NEW f \in Orders(ping)
    PROVE  IdleTime(t, f) \in 0..MaxTime
<1> DEFINE S == PingsOf(t)
           Q == Stays(S, f)
<1>1. S \subseteq ping /\ IsFiniteSet(S)
  BY FS_Subset DEF PingsOf, TripTyped, PingInv
<1>2. \A p \in S : p.at \in 0..MaxTime
  BY <1>1 DEF TripTyped
<1>3. Ordering(S, f)
  BY <1>1, OrderingOf
<1>5. Moments(S, MaxTime, f)
  BY <1>1, <1>2, <1>3 DEF Moments
<1>6. IdleTime(t, f) = SumFunctionOnSet([h \in Q |-> Gap(h)], Q)
  BY DEF IdleTime
<1>7. Q \in SUBSET Hops(S, f)
  BY DEF Stays
<1> HIDE DEF S, Q
<1>8. SumFunctionOnSet([h \in Q |-> Gap(h)], Q) \in 0..MaxTime
  BY <1>5, <1>7, GapsAdd DEF TripBounds
<1> QED BY <1>6, <1>8

LEMMA ScoreOf ==
    ASSUME TripTyped, NEW t \in Trips, NEW f \in Orders(ping)
    PROVE  SafetyScore(t, f) \in -1..100
<1>1. trip[t].from \in Int /\ trip[t].to \in Int
  BY DEF TripTyped, PingInv, TripRows
<1>2. Pings(ping) /\ IsFiniteSet(ping)
  BY DEF TripTyped, PingInv, PingRows, Pings
<1>3. PingsOf(t) \subseteq ping
  BY DEF PingsOf
<1>4. Ordering(PingsOf(t), f)
  BY <1>3, OrderingOf
<1> QED BY <1>1, <1>2, <1>4, ScoreRange

LEMMA SumAtMost ==
    ASSUME NEW w, NEW S, IsFiniteSet(S), NEW c \in Int, \A x \in S : w[x] \in Int /\ w[x] <= c
    PROVE  SumFunctionOnSet(w, S) <= c * Cardinality(S)
<1> DEFINE v == [x \in S |-> -w[x]]
           z == [x \in S |-> 0]
<1>1. \A x \in S : v[x] \in Int /\ v[x] >= -c /\ z[x] = w[x] + v[x] /\ z[x] = 0 /\ w[x] \in Int
  OBVIOUS
<1> HIDE DEF v, z
<1>2. SumFunctionOnSet(v, S) >= (-c) * Cardinality(S)
  BY <1>1, SumAtLeast
<1>3. SumFunctionOnSet(z, S) = SumFunctionOnSet(w, S) + SumFunctionOnSet(v, S)
  BY <1>1, SumPlus
<1>4. SumFunctionOnSet(z, S) = 0
  BY <1>1, SumZero
<1>5. SumFunctionOnSet(w, S) \in Int /\ SumFunctionOnSet(v, S) \in Int /\ Cardinality(S) \in Nat
  BY <1>1, SumType, FS_CardinalityType
<1>6. \A n \in Nat : (-c) * n = -(c * n) /\ c * n \in Int
  OBVIOUS
<1> QED BY <1>2, <1>3, <1>4, <1>5, <1>6

LEMMA MeanOf ==
    ASSUME NEW s \in Nat, NEW n \in Nat \ {0}, s <= 100 * n
    PROVE  s \div n \in 0..100
OBVIOUS

LEMMA AverageOf ==
    ASSUME TripBounds, TripTyped, NEW a, NEW f \in Orders(ping)
    PROVE  DriverScore(a, f).average \in -1..100
<1> DEFINE S == Scored(a, f)
           n == Cardinality(S)
           w == [t \in S |-> SafetyScore(t, f)]
           s == SumFunctionOnSet(w, S)
<1>1. DriverScore(a, f).average = IF n = 0 THEN -1 ELSE s \div n
  BY DEF DriverScore
<1>2. S \subseteq Trips /\ IsFiniteSet(S)
  BY FS_Subset DEF Scored, TripBounds
<1>3. \A t \in S : w[t] \in Int /\ w[t] >= 0 /\ w[t] <= 100
  <2> SUFFICES ASSUME NEW t \in S PROVE SafetyScore(t, f) \in Int /\ SafetyScore(t, f) >= 0 /\ SafetyScore(t, f) <= 100
    OBVIOUS
  <2>1. SafetyScore(t, f) \in -1..100 /\ SafetyScore(t, f) # -1
    BY <1>2, ScoreOf DEF Scored
  <2> QED BY <2>1
<1> HIDE DEF S, w
<1>4. n \in Nat
  BY <1>2, FS_CardinalityType
<1>5. s \in Int /\ s >= 0 * n /\ s <= 100 * n
  BY <1>2, <1>3, SumType, SumAtLeast, SumAtMost
<1> HIDE DEF n, s
<1>6. n # 0 => s \div n \in 0..100
  <2>1. s \in Nat /\ (n # 0 => n \in Nat \ {0})
    BY <1>4, <1>5
  <2> QED BY <1>5, <2>1, MeanOf
<1> QED BY <1>1, <1>6

LEMMA LatestOf ==
    ASSUME NEW T, NEW f \in Orders(T), NEW S, S \subseteq T, S # {}
    PROVE  Latest(S, f) \in S
<1> DEFINE D == {MaxPings - f[p] : p \in S}
<1>0. \A p \in S : f[p] \in 1..MaxPings
  BY DEF Orders, Injection
<1>1. D \subseteq Nat /\ D # {}
  BY <1>0, TripAssumption
<1>2. PICK d \in D : \A k \in D : d <= k
  BY <1>1, LeastOf
<1>3. PICK p \in S : d = MaxPings - f[p]
  BY <1>2
<1>4. \A q \in S : f[q] <= f[p]
  <2> SUFFICES ASSUME NEW q \in S PROVE f[q] <= f[p]
    OBVIOUS
  <2>1. d <= MaxPings - f[q]
    BY <1>2
  <2> QED BY <1>0, <1>3, <2>1, TripAssumption
<1> QED BY <1>4 DEF Latest

LEMMA LastPingsOf ==
    ASSUME NEW t \in Trips, NEW since, NEW f \in Orders(ping)
    PROVE  LastPings(t, since, f) \subseteq ping
<1> DEFINE own == {p \in PingsOf(t) : p.at >= since}
           any == {p \in PingsBy(AgentOf[t]) : p.at >= since}
<1>1. own \subseteq ping /\ any \subseteq ping
  BY DEF PingsOf, PingsBy
<1>3. LastPings(t, since, f) = IF own # {} THEN {Latest(own, f)} ELSE IF any # {} THEN {Latest(any, f)} ELSE {}
  BY DEF LastPings
<1> HIDE DEF own, any
<1>4. own # {} => Latest(own, f) \in own
  BY <1>1, LatestOf
<1>5. any # {} => Latest(any, f) \in any
  BY <1>1, LatestOf
<1> QED BY <1>1, <1>3, <1>4, <1>5

\* Rows keep their types and no row is of the future; the time a trip stood still is
\* time that passed, a score is a percentage or missing, of a driver too, and what is
\* shown on the live map is a recorded ping (trip_idle_minutes, trip_safety_score,
\* driver_safety_scores), for any trips, pings, places and orders of arrival.
THEOREM TripsTyped == TripBounds => (TripSpec => []TripTypeOK)
<1> SUFFICES ASSUME TripBounds PROVE TripSpec => []TripTypeOK
  OBVIOUS
<1>1. TripTyped => TripTypeOK
  <2> SUFFICES ASSUME TripTyped PROVE TripTypeOK
    OBVIOUS
  <2>1. now \in 0..MaxTime /\ MaxTime \in Nat
    BY DEF TripTyped, TripBounds
  <2>2. ASSUME NEW t \in Trips
        PROVE  /\ trip[t].status \in {"planned", "in_progress", "completed", "gone"}
               /\ {trip[t].from, trip[t].to} \subseteq -1..MaxTime
               /\ Deviations(t) \subseteq ping
    <3>1. trip[t] \in TripRows /\ Past(trip[t], now)
      BY DEF TripTyped, PingInv
    <3>2. trip[t].status \in {"planned", "in_progress", "completed", "gone"}
      BY <3>1 DEF TripRows
    <3>3. trip[t].from \in -1..MaxTime /\ trip[t].to \in -1..MaxTime
      BY <2>1, <3>1 DEF Past
    <3>4. Deviations(t) \subseteq ping
      BY DEF Deviations, PingsOf
    <3> QED BY <3>2, <3>3, <3>4
  <2>3. \A p \in ping : p.trip \in Trips \cup {NoTrip} /\ p.agent \in Drivers
    BY DEF TripTyped, PingInv, PingRows
  <2>4. \A x \in SpoofedCheckIns : x \notin MissedVisits
    BY DEF SpoofedCheckIns, MissedVisits, TripBounds
  <2>5. ASSUME NEW f \in Orders(ping)
        PROVE  /\ \A t \in Trips : SafetyScore(t, f) \in -1..100 /\ IdleTime(t, f) \in 0..MaxTime
               /\ \A x \in LiveMap(f) : x[2] \subseteq ping /\ x[3] \subseteq TripStops
               /\ GeofenceAlerts(f) \subseteq Trips \X Zones /\ Notable(f) \subseteq Trips
               /\ \A a \in Drivers :
                     DriverScore(a, f).average \in -1..100 /\ ImpossibleTravel(a, f) \subseteq ping \X ping
    <3>1. \A t \in Trips : SafetyScore(t, f) \in -1..100 /\ IdleTime(t, f) \in 0..MaxTime
      BY ScoreOf, IdleWithin
    <3>2. ASSUME NEW x \in LiveMap(f) PROVE x[2] \subseteq ping /\ x[3] \subseteq TripStops
      <4>1. PICK t \in {u \in Trips : trip[u].status = "in_progress"} :
                x = <<t, LastPings(t, 0, f), {s \in TripStops : visit[t][s] # NoPlace}>>
        BY DEF LiveMap
      <4>2. x[2] = LastPings(t, 0, f) /\ x[3] = {s \in TripStops : visit[t][s] # NoPlace} /\ t \in Trips
        BY <4>1
      <4>3. LastPings(t, 0, f) \subseteq ping
        BY <4>2, LastPingsOf
      <4> QED BY <4>2, <4>3
    <3>3. GeofenceAlerts(f) \subseteq Trips \X Zones /\ Notable(f) \subseteq Trips
      BY DEF GeofenceAlerts, Restricted, Notable
    <3>4. \A a : ImpossibleTravel(a, f) \subseteq ping \X ping
      BY DEF ImpossibleTravel, Hops, PingsBy
    <3>5. \A a : DriverScore(a, f).average \in -1..100
      BY AverageOf
    <3> QED BY <3>1, <3>2, <3>3, <3>4, <3>5
  <2> QED BY <2>2, <2>3, <2>4, <2>5 DEF TripTyped, TripTypeOK
<1>2. TripInit => TripTyped
  BY TripTypedInit
<1>3. TripTyped /\ [TripNext]_tripVars => TripTyped'
  BY TripTypedStep
<1> QED BY <1>1, <1>2, <1>3, PTL DEF TripSpec

-----------------------------------------------------------------------------
(* BeatRoute: types *)

\* The bounds, when they are given as numbers and 2-opt makes a pass.
BeatBounds == MaxTwoOptPasses \in Nat \ {0} /\ MaxStarts \in Nat

\* Counters of a request: it has always a pass left while it looks for one, and a
\* process that dies takes its lists along.
BeatCounts ==
    /\ stage \in {"template", "idle"} => order = <<>> /\ rest = <<>>
    /\ passes \in 0..MaxTwoOptPasses
    /\ stage \in {"pass", "passed"} => passes < MaxTwoOptPasses
    /\ saved \in 0..Cardinality(BeatStops)
    /\ starts \in 0..MaxStarts

LEMMA BeatCountsInit == BeatBounds /\ BeatInit => BeatCounts
<1> SUFFICES ASSUME BeatBounds, BeatInit PROVE BeatCounts
  OBVIOUS
<1>1. Cardinality(BeatStops) \in Nat
  BY BeatAssumption, FS_CardinalityType
<1>2. 0 \in 0..Cardinality(BeatStops) /\ 0 \in 0..MaxStarts /\ 0 \in 0..MaxTwoOptPasses
  BY <1>1 DEF BeatBounds
<1> QED BY <1>2 DEF BeatInit, BeatCounts

LEMMA BeatCountsStep == BeatBounds /\ BeatInv /\ BeatCounts /\ [BeatNext]_routeVars => BeatCounts'
<1> SUFFICES ASSUME BeatBounds, BeatInv, BeatCounts, [BeatNext]_routeVars PROVE BeatCounts'
  OBVIOUS
<1>1. /\ MaxTwoOptPasses \in Nat \ {0} /\ MaxStarts \in Nat /\ Cardinality(BeatStops) \in Nat
      /\ passes \in 0..MaxTwoOptPasses /\ saved \in 0..Cardinality(BeatStops) /\ starts \in 0..MaxStarts
  BY BeatAssumption, FS_CardinalityType DEF BeatBounds, BeatCounts
<1>2. CASE Instantiate
  BY <1>2 DEF Instantiate, BeatCounts
<1>3. CASE Geocode
  BY <1>3 DEF Geocode, BeatCounts
<1>4. CASE ReadStops
  <2>1. /\ starts' = starts + 1 /\ starts < MaxStarts /\ passes' = 0 /\ saved' = 0
        /\ stage' \in {"saving", "pass"}
    BY <1>4 DEF ReadStops
  <2> QED BY <1>1, <2>1 DEF BeatCounts
<1>5. CASE TryReversal
  <2>1. stage = "pass" /\ stage' \in {"pass", "passed"} /\ UNCHANGED <<passes, saved, starts>>
    BY <1>5 DEF TryReversal
  <2> QED BY <1>1, <2>1 DEF BeatCounts
<1>6. CASE EndPass
  <2>1. /\ stage = "passed" /\ passes' = passes + 1 /\ UNCHANGED <<saved, starts>>
        /\ stage' \in {"pass", "saving"} /\ (stage' = "pass" => passes' < MaxTwoOptPasses)
    BY <1>6 DEF EndPass
  <2>2. passes < MaxTwoOptPasses
    BY <2>1 DEF BeatCounts
  <2> QED BY <1>1, <2>1, <2>2 DEF BeatCounts
<1>7. CASE SaveStop
  <2>1. stage = "saving" /\ stage' = stage /\ saved < Len(order \o rest) /\ saved' = saved + 1 /\ UNCHANGED <<passes, starts>>
    BY <1>7 DEF SaveStop
  <2>2. located \subseteq BeatStops /\ Found(located, place, order, rest, outset)
    BY <2>1 DEF BeatInv
  <2>3. Len(order \o rest) = Cardinality(BeatStops)
    BY <2>2, AllOf DEF Found
  <2> QED BY <1>1, <2>1, <2>3 DEF BeatCounts
<1>8. CASE Respond
  BY <1>8 DEF Respond, BeatCounts
<1>9. CASE PlannerDies
  BY <1>9 DEF PlannerDies, BeatCounts
<1>10. CASE UNCHANGED routeVars
  BY <1>10 DEF routeVars, BeatCounts
<1> QED BY <1>2, <1>3, <1>4, <1>5, <1>6, <1>7, <1>8, <1>9, <1>10 DEF BeatNext

\* The lists of a request name stops of the beat, it makes no more passes than
\* allowed and saves no stop twice, if the bounds are numbers.
THEOREM BeatsTyped == BeatBounds => (BeatSpec => []BeatTypeOK)
<1>1. BeatInv /\ BeatCounts => BeatTypeOK
  <2> SUFFICES ASSUME BeatInv, BeatCounts PROVE BeatTypeOK
    OBVIOUS
  <2>1. Range(order) \subseteq BeatStops /\ Range(rest) \subseteq BeatStops
    <3>1. CASE stage \in {"template", "idle"}
      <4>1. order = <<>> /\ rest = <<>>
        BY <3>1 DEF BeatCounts
      <4>2. DOMAIN <<>> = {}
        OBVIOUS
      <4>3. Range(<<>>) = {}
        BY <4>2 DEF Range
      <4> QED BY <4>1, <4>3
    <3>2. CASE stage \notin {"template", "idle"}
      <4>1. /\ located \subseteq BeatStops
            /\ order \in SetToSeqs(located) /\ rest \in SetToSeqs(BeatStops \ located)
        BY <3>2 DEF BeatInv, Found
      <4>2. order \in [1..Len(order) -> located]
        BY <4>1, StopsFinite, ListOf
      <4>3. rest \in [1..Len(rest) -> BeatStops \ located]
        BY <4>1, StopsFinite, ListOf
      <4>4. Range(order) \subseteq located
        BY <4>2 DEF Range
      <4>5. Range(rest) \subseteq BeatStops \ located
        BY <4>3 DEF Range
      <4> QED BY <4>1, <4>4, <4>5
    <3> QED BY <3>1, <3>2
  <2> QED BY <2>1 DEF BeatInv, BeatCounts, BeatTypeOK
<1> SUFFICES ASSUME BeatBounds PROVE BeatSpec => []BeatTypeOK
  OBVIOUS
<1>2. BeatInit => BeatCounts
  BY BeatCountsInit
<1>3. BeatInv /\ BeatCounts /\ [BeatNext]_routeVars => BeatCounts'
  BY BeatCountsStep
<1>4. BeatSpec => []BeatCounts
  BY <1>2, <1>3, BeatInvHolds, PTL DEF BeatSpec
<1> QED BY <1>1, <1>4, BeatInvHolds, PTL

-----------------------------------------------------------------------------
(* FieldReports: types *)

\* The bounds, when they are given as numbers and the calendar has a day.
ReportBounds == MaxReportDay >= 1 /\ MaxEvents \in Nat

ReportTyped ==
    /\ today \in 1..MaxReportDay /\ events \in 0..MaxEvents
    /\ invoices \in [Slots -> Nat] /\ returns \in [Salesmen \X BOOLEAN -> Nat]

LEMMA ReportTypedInit == ReportBounds /\ ReportInit => ReportTyped
<1> SUFFICES ASSUME ReportBounds, ReportInit PROVE ReportTyped
  OBVIOUS
<1>1. MaxReportDay \in Nat /\ MaxReportDay >= 1 /\ MaxEvents \in Nat
  BY ReportAssumption DEF ReportBounds
<1>2. 1 \in 1..MaxReportDay /\ 0 \in 0..MaxEvents
  BY <1>1
<1> QED BY <1>2 DEF ReportInit, ReportTyped

\* One more in a table of counts.
LEMMA CountsOn ==
    ASSUME NEW S, NEW f \in [S -> Nat], NEW x
    PROVE  [f EXCEPT ![x] = @ + 1] \in [S -> Nat]
<1>1. \A y \in S : [f EXCEPT ![x] = @ + 1][y] \in Nat
  OBVIOUS
<1> QED BY <1>1

LEMMA ReportTypedStep == ReportBounds /\ ReportTyped /\ [ReportNext]_reportVars => ReportTyped'
<1> SUFFICES ASSUME ReportBounds, ReportTyped, [ReportNext]_reportVars PROVE ReportTyped'
  OBVIOUS
<1>1. MaxReportDay \in Nat /\ MaxEvents \in Nat
  BY ReportAssumption DEF ReportBounds
<1>2. ASSUME Event PROVE events' \in 0..MaxEvents
  BY <1>1, <1>2 DEF Event, ReportTyped
<1>3. CASE ReportDay
  <2>1. today' \in 1..MaxReportDay
    BY <1>1, <1>3 DEF ReportDay, ReportTyped
  <2> QED BY <1>3, <2>1 DEF ReportDay, ReportTyped
<1>4. ASSUME NEW a \in Salesmen, Activity(a) PROVE ReportTyped'
  BY <1>2, <1>4 DEF Activity, ReportTyped
<1>5. ASSUME NEW a \in Salesmen, NEW p \in ReportDiscounts, NEW i \in Wares, Invoice(a, p, i)
      PROVE  ReportTyped'
  <2> DEFINE s == <<a, today, p>>
  <2>1. invoices' = [invoices EXCEPT ![s] = @ + 1] /\ Event /\ UNCHANGED <<today, returns>>
    BY <1>5 DEF Invoice
  <2> HIDE DEF s
  <2>2. invoices' \in [Slots -> Nat]
    BY <2>1, CountsOn DEF ReportTyped
  <2> QED BY <1>2, <2>1, <2>2 DEF ReportTyped
<1>6. ASSUME NEW a \in Salesmen, NEW b \in BOOLEAN, CreditNote(a, b) PROVE ReportTyped'
  <2> DEFINE s == <<a, b>>
  <2>1. returns' = [returns EXCEPT ![s] = @ + 1] /\ Event /\ UNCHANGED <<today, invoices>>
    BY <1>6 DEF CreditNote
  <2> HIDE DEF s
  <2>2. returns' \in [Salesmen \X BOOLEAN -> Nat]
    BY <2>1, CountsOn DEF ReportTyped
  <2> QED BY <1>2, <2>1, <2>2 DEF ReportTyped
<1>7. ASSUME NEW i \in Wares, NEW q \in ReportQuantities, Adjust(i, q) PROVE ReportTyped'
  BY <1>2, <1>7 DEF Adjust, ReportTyped
<1>8. CASE UNCHANGED reportVars
  BY <1>8 DEF reportVars, ReportTyped
<1> QED BY <1>3, <1>4, <1>5, <1>6, <1>7, <1>8 DEF ReportNext

\* Every report stays within its terms whatever the rows: alerts name agents there
\* are, an item has one of the patterns of inventory_velocity_report, and the figures
\* of the dashboard are counts, if the bounds are numbers.
THEOREM ReportsTyped == ReportBounds => (ReportSpec => []ReportTypeOK)
<1>1. ReportTyped => ReportTypeOK
  <2> SUFFICES ASSUME ReportTyped PROVE ReportTypeOK
    OBVIOUS
  <2>1. SellableReturns \subseteq Salesmen /\ InactiveAgents \subseteq Salesmen
    BY DEF SellableReturns, Selling, InactiveAgents
  <2>2. StockVariance \subseteq adjusted
    BY DEF StockVariance
  <2>3. \A i \in Wares : Pattern(i) \in {"Stock-out", "Overstock", "Slow-moving", "Fast-moving", "Normal"}
    BY DEF Pattern
  <2>4. Dashboard.sales \in Nat
    <3> DEFINE S == {x \in Slots : x[2] = today}
    <3>1. IsFiniteSet(S)
      BY SlotsFinite, FS_Subset
    <3>2. \A x \in S : invoices[x] \in Int /\ invoices[x] >= 0
      BY DEF ReportTyped
    <3>3. Dashboard.sales = SumFunctionOnSet(invoices, S)
      BY DEF Dashboard, OnDay, Count
    <3> HIDE DEF S
    <3>4. SumFunctionOnSet(invoices, S) \in Int
      BY <3>1, <3>2, SumType
    <3>5. SumFunctionOnSet(invoices, S) >= 0 * Cardinality(S)
      BY <3>1, <3>2, SumAtLeast
    <3>6. Cardinality(S) \in Nat
      BY <3>1, FS_CardinalityType
    <3> QED BY <3>3, <3>4, <3>5, <3>6
  <2>5. Dashboard.exceptions \in Nat
    <3>1. UnusualDiscounts \subseteq Slots
      BY DEF UnusualDiscounts, Recent
    <3>2. Cardinality(UnusualDiscounts) \in Nat
      BY <3>1, SlotsFinite, FS_Subset, FS_CardinalityType
    <3> QED BY <3>2 DEF Dashboard
  <2> QED BY <2>1, <2>2, <2>3, <2>4, <2>5 DEF ReportTyped, ReportTypeOK
<1> SUFFICES ASSUME ReportBounds PROVE ReportSpec => []ReportTypeOK
  OBVIOUS
<1>2. ReportInit => ReportTyped
  BY ReportTypedInit
<1>3. ReportTyped /\ [ReportNext]_reportVars => ReportTyped'
  BY ReportTypedStep
<1> QED BY <1>1, <1>2, <1>3, PTL DEF ReportSpec

-----------------------------------------------------------------------------
(* FleetUpkeep: types, and what fuel costs *)

\* The bounds, when they are given as numbers: odometers and litres are amounts.
UpkeepBounds ==
    /\ MaxDay \in Nat \ {0} /\ MaxUpkeepCalls \in Nat
    /\ Odometers \subseteq Int /\ Litres \subseteq Nat

FuelRows == [odo : Odometers, litres : Litres, tagged : BOOLEAN, flagged : BOOLEAN]

RunRows == [from : Odometers \cup {-1}, to : Odometers \cup {-1}]

UpkeepTyped ==
    /\ day \in 1..MaxDay /\ upkeepCalls \in 0..MaxUpkeepCalls
    /\ run \in RunRows
    /\ readings \in Seq(Odometers) /\ pending \in [Odometers -> Nat]
    /\ fuel \in Seq(FuelRows)
    /\ returned \subseteq 1..MaxDay /\ unloaded \subseteq 1..MaxDay

LEMMA UpkeepTypedInit == UpkeepBounds /\ UpkeepInit => UpkeepTyped
<1> SUFFICES ASSUME UpkeepBounds, UpkeepInit PROVE UpkeepTyped
  OBVIOUS
<1>1. 1 \in 1..MaxDay /\ 0 \in 0..MaxUpkeepCalls
  BY DEF UpkeepBounds
<1>2. \A S : <<>> \in Seq(S)
  OBVIOUS
<1>3. run \in RunRows /\ pending \in [Odometers -> Nat]
  BY DEF UpkeepInit, RunRows
<1> QED BY <1>1, <1>2, <1>3 DEF UpkeepInit, UpkeepTyped

\* Lists that get longer.
LEMMA LongerList ==
    ASSUME NEW S, NEW p \in Seq(S), NEW q \in Seq(S), NEW x \in S
    PROVE  p \o q \in Seq(S) /\ Append(p, x) \in Seq(S) /\ <<x>> \in Seq(S)
OBVIOUS

LEMMA SuspicionIs == \A l, o : Suspicious(l, o) \in BOOLEAN
BY Zenon DEF Suspicious

LEMMA UpkeepTypedStep == UpkeepBounds /\ UpkeepTyped /\ [UpkeepNext]_upkeepVars => UpkeepTyped'
<1> SUFFICES ASSUME UpkeepBounds, UpkeepTyped, [UpkeepNext]_upkeepVars PROVE UpkeepTyped'
  OBVIOUS
<1>1. ASSUME UpkeepCall PROVE upkeepCalls' \in 0..MaxUpkeepCalls
  BY <1>1 DEF UpkeepCall, UpkeepTyped, UpkeepBounds
<1>2. CASE UpkeepDay
  <2>1. day' \in 1..MaxDay
    BY <1>2 DEF UpkeepDay, UpkeepTyped, UpkeepBounds
  <2> QED BY <1>2, <2>1 DEF UpkeepDay, UpkeepTyped
<1>3. ASSUME NEW odo \in Odometers, LogReading(odo) PROVE UpkeepTyped'
  <2>1. Append(readings, odo) \in Seq(Odometers)
    BY LongerList DEF UpkeepTyped
  <2>2. readings' \in Seq(Odometers)
    BY <1>3, <2>1 DEF LogReading, UpkeepTyped
  <2>3. pending' \in [Odometers -> Nat]
    BY <1>3 DEF LogReading, UpkeepTyped
  <2> QED BY <1>3, <2>2, <2>3 DEF LogReading, UpkeepTyped
<1>4. CASE ReturnDamaged
  BY <1>1, <1>4 DEF ReturnDamaged, UpkeepTyped
<1>5. CASE UnloadVan
  BY <1>1, <1>5 DEF UnloadVan, UpkeepTyped
<1>6. ASSUME NEW s \in Schedules, NEW d \in Deadlines, Plan(s, d) PROVE UpkeepTyped'
  BY <1>1, <1>6 DEF Plan, UpkeepTyped
<1>7. ASSUME NEW c \in {"from", "to"}, NEW odo \in Odometers, SaveOdometer(c, odo) PROVE UpkeepTyped'
  <2>1. /\ run' = [run EXCEPT ![c] = odo] /\ pending' = [pending EXCEPT ![odo] = @ + 1] /\ UpkeepCall
        /\ UNCHANGED <<day, readings, fuel, returned, unloaded>>
    BY <1>7 DEF SaveOdometer
  <2>2. run \in RunRows
    BY DEF UpkeepTyped
  <2>3. run' \in RunRows
    BY <2>1, <2>2 DEF RunRows
  <2>4. pending' \in [Odometers -> Nat]
    BY <2>1 DEF UpkeepTyped
  <2> QED BY <1>1, <2>1, <2>3, <2>4 DEF UpkeepTyped
<1>8. ASSUME NEW odo \in Odometers, NEW to \in Odometers, PushTrip(odo, to) PROVE UpkeepTyped'
  <2>1. run' \in RunRows
    BY <1>8 DEF PushTrip, RunRows
  <2> QED BY <1>1, <1>8, <2>1 DEF PushTrip, UpkeepTyped
<1>9. ASSUME NEW odo \in Odometers, NEW litres \in Litres, NEW tagged \in BOOLEAN, FillUp(odo, litres, tagged)
      PROVE  UpkeepTyped'
  <2> DEFINE log == [odo |-> odo, litres |-> litres, tagged |-> tagged, flagged |-> FALSE]
             b == Suspicious(log, fuel)
             new == [log EXCEPT !.flagged = b]
  <2>1. fuel' = Append(fuel, new) /\ UpkeepCall /\ UNCHANGED <<day, run, pending, readings, returned, unloaded>>
    BY <1>9 DEF FillUp
  <2>2. b \in BOOLEAN
    BY SuspicionIs
  <2> HIDE DEF b
  <2>3. new \in FuelRows
    BY <2>2 DEF FuelRows
  <2> HIDE DEF new
  <2>4. fuel' \in Seq(FuelRows)
    BY <2>1, <2>3 DEF UpkeepTyped
  <2> QED BY <1>1, <2>1, <2>4 DEF UpkeepTyped
<1>10. CASE UNCHANGED upkeepVars
  BY <1>10 DEF upkeepVars, UpkeepTyped
<1>11. CASE UpkeepNext
  <2>1. CASE UpkeepDay \/ ReturnDamaged \/ UnloadVan
    BY <1>2, <1>4, <1>5, <2>1
  <2>2. CASE \E s \in Schedules, d \in Deadlines : Plan(s, d)
    BY <1>6, <2>2
  <2>3. ASSUME NEW odo \in Odometers, SaveOdometer("from", odo) \/ SaveOdometer("to", odo) \/ LogReading(odo)
        PROVE  UpkeepTyped'
    BY <1>3, <1>7, <2>3
  <2>4. ASSUME NEW odo \in Odometers, NEW to \in Odometers, PushTrip(odo, to) PROVE UpkeepTyped'
    BY <1>8, <2>4
  <2> QED BY <1>9, <1>11, <2>1, <2>2, <2>3, <2>4 DEF UpkeepNext
<1> QED BY <1>10, <1>11

\* A number that is at least zero and a distance to divide it by.
LEMMA PerKm == ASSUME NEW l \in Nat, NEW km \in Int, km > 0 PROVE (100 * l) \div km \in Nat
OBVIOUS

LEMMA LitresType ==
    ASSUME UpkeepBounds, UpkeepTyped, NEW S, S \subseteq DOMAIN fuel
    PROVE  LitresOf(S) \in Nat
<1> DEFINE w == [k \in S |-> fuel[k].litres]
<1>1. fuel \in Seq(FuelRows) /\ Len(fuel) \in Nat /\ DOMAIN fuel = 1..Len(fuel)
  BY DEF UpkeepTyped
<1>2. IsFiniteSet(S)
  <2>1. IsFiniteSet(1..Len(fuel))
    BY <1>1, FS_Interval
  <2> QED BY <1>1, <2>1, FS_Subset
<1>3. \A k \in S : w[k] \in Nat
  <2> SUFFICES ASSUME NEW k \in S PROVE fuel[k].litres \in Nat
    OBVIOUS
  <2>1. fuel[k] \in FuelRows
    BY <1>1
  <2> QED BY <2>1 DEF FuelRows, UpkeepBounds
<1> HIDE DEF w
<1>4. \A k \in S : w[k] \in Int /\ w[k] >= 0
  BY <1>3
<1>5. SumFunctionOnSet(w, S) \in Int
  BY <1>2, <1>4, SumType
<1>6. SumFunctionOnSet(w, S) >= 0 * Cardinality(S)
  BY <1>2, <1>4, SumAtLeast
<1>7. Cardinality(S) \in Nat
  BY <1>2, FS_CardinalityType
<1>8. SumFunctionOnSet(w, S) \in Nat
  BY <1>5, <1>6, <1>7
<1> QED BY <1>8 DEF LitresOf, w

\* A greatest and a least reading among finitely many.
LEMMA GreatestOf ==
    ASSUME NEW S, IsFiniteSet(S), S # {}, S \subseteq Int
    PROVE  Max(S) \in S
<1> DEFINE P == {T \in SUBSET S : T # {} => \E m \in T : \A k \in T : k <= m}
<1>1. {} \in P
  OBVIOUS
<1>2. ASSUME NEW T \in SUBSET S, NEW x \in S \ T, T \in P PROVE T \cup {x} \in P
  <2>1. CASE T = {}
    BY <2>1
  <2>2. CASE T # {}
    <3>1. PICK m \in T : \A k \in T : k <= m
      BY <1>2, <2>2
    <3>2. x \in Int /\ m \in Int /\ \A k \in T : k \in Int
      OBVIOUS
    <3>3. \A k \in T \cup {x} : k <= (IF x <= m THEN m ELSE x)
      BY <3>1, <3>2
    <3>4. (IF x <= m THEN m ELSE x) \in T \cup {x}
      OBVIOUS
    <3>5. \E n \in T \cup {x} : \A k \in T \cup {x} : k <= n
      BY <3>3, <3>4
    <3> QED BY <3>5
  <2> QED BY <2>1, <2>2
<1> HIDE DEF P
<1>3. S \in P
  BY <1>1, <1>2, SubsetInduction
<1>4. \E m \in S : \A k \in S : k <= m
  BY <1>3 DEF P
<1>5. \E m \in S : \A k \in S : m >= k
  BY <1>4
<1> QED BY <1>5 DEF Max

LEMMA LeastReading ==
    ASSUME NEW S, IsFiniteSet(S), S # {}, S \subseteq Int
    PROVE  \E m \in S : \A k \in S : m <= k
<1> DEFINE P == {T \in SUBSET S : T # {} => \E m \in T : \A k \in T : m <= k}
<1>1. {} \in P
  OBVIOUS
<1>2. ASSUME NEW T \in SUBSET S, NEW x \in S \ T, T \in P PROVE T \cup {x} \in P
  <2>1. CASE T = {}
    BY <2>1
  <2>2. CASE T # {}
    <3>1. PICK m \in T : \A k \in T : m <= k
      BY <1>2, <2>2
    <3>2. x \in Int /\ m \in Int /\ \A k \in T : k \in Int
      OBVIOUS
    <3>3. \A k \in T \cup {x} : (IF x <= m THEN x ELSE m) <= k
      BY <3>1, <3>2
    <3>4. (IF x <= m THEN x ELSE m) \in T \cup {x}
      OBVIOUS
    <3>5. \E n \in T \cup {x} : \A k \in T \cup {x} : n <= k
      BY <3>3, <3>4
    <3> QED BY <3>5
  <2> QED BY <2>1, <2>2
<1> HIDE DEF P
<1>3. S \in P
  BY <1>1, <1>2, SubsetInduction
<1> QED BY <1>3 DEF P

LEMMA CostType == ASSUME UpkeepBounds, UpkeepTyped PROVE CostPerKm \in Nat
<1> DEFINE first == CHOOSE k \in DOMAIN fuel : \A j \in DOMAIN fuel : fuel[k].odo <= fuel[j].odo
           top == Max({fuel[k].odo : k \in DOMAIN fuel})
           km == top - fuel[first].odo
<1>1. fuel \in Seq(FuelRows) /\ Len(fuel) \in Nat /\ DOMAIN fuel = 1..Len(fuel)
  BY DEF UpkeepTyped
<1>2. CostPerKm = IF Len(fuel) < 2 \/ km <= 0 THEN 0 ELSE (100 * LitresOf(DOMAIN fuel \ {first})) \div km
  BY DEF CostPerKm
<1>3. \A k \in DOMAIN fuel : fuel[k].odo \in Int
  <2> SUFFICES ASSUME NEW k \in DOMAIN fuel PROVE fuel[k].odo \in Int
    OBVIOUS
  <2>1. fuel[k] \in FuelRows
    BY <1>1
  <2> QED BY <2>1 DEF FuelRows, UpkeepBounds
<1>4. ASSUME Len(fuel) >= 2 PROVE km \in Int
  <2> DEFINE S == {fuel[k].odo : k \in DOMAIN fuel}
  <2>1. S \subseteq Int /\ S # {}
    BY <1>1, <1>3, <1>4
  <2>2. IsFiniteSet(S)
    <3> DEFINE f == [k \in DOMAIN fuel |-> fuel[k].odo]
    <3>1. IsFiniteSet(DOMAIN fuel)
      BY <1>1, FS_Interval
    <3>2. f \in Surjection(DOMAIN fuel, S)
      <4>1. f \in [DOMAIN fuel -> S]
        OBVIOUS
      <4>2. \A x \in S : \E k \in DOMAIN fuel : f[k] = x
        OBVIOUS
      <4> QED BY <4>1, <4>2, Zenon DEF Surjection
    <3> HIDE DEF f, S
    <3> QED BY <3>1, <3>2, FS_Surjection, Zenon
  <2>3. top \in Int
    <3>1. Max(S) \in S
      <4> HIDE DEF S
      <4> QED BY <2>1, <2>2, GreatestOf
    <3> QED BY <2>1, <3>1
  <2>4. first \in DOMAIN fuel
    <3>1. \E k \in DOMAIN fuel : \A j \in DOMAIN fuel : fuel[k].odo <= fuel[j].odo
      <4>1. PICK x \in S : \A y \in S : x <= y
        BY <2>1, <2>2, LeastReading
      <4>2. PICK k \in DOMAIN fuel : x = fuel[k].odo
        OBVIOUS
      <4>3. \A j \in DOMAIN fuel : fuel[j].odo \in S
        OBVIOUS
      <4> QED BY <4>1, <4>2, <4>3
    <3> QED BY <3>1
  <2> HIDE DEF top, first
  <2> QED BY <1>3, <2>3, <2>4
<1> HIDE DEF km
<1>5. CASE Len(fuel) < 2 \/ km <= 0
  BY <1>2, <1>5
<1>6. CASE ~(Len(fuel) < 2 \/ km <= 0)
  <2>1. LitresOf(DOMAIN fuel \ {first}) \in Nat
    <3>1. DOMAIN fuel \ {first} \subseteq DOMAIN fuel
      OBVIOUS
    <3> QED BY <3>1, LitresType
  <2>2. km \in Int /\ km > 0
    BY <1>1, <1>4, <1>6
  <2> HIDE DEF first
  <2> QED BY <1>2, <1>6, <2>1, <2>2, PerKm
<1> QED BY <1>5, <1>6

\* What maintenance_status and the profitability of a trip are worked out from stays
\* of its kind: readings are odometers, fuel costs nothing or more, by fill-up or by
\* distance, and the standing of a document is one of three, if the bounds are numbers.
THEOREM UpkeepsTyped == UpkeepBounds => (UpkeepSpec => []UpkeepTypeOK)
<1>1. ASSUME UpkeepBounds, UpkeepTyped PROVE UpkeepTypeOK
  <2>1. {run.from, run.to} \subseteq Odometers \cup {-1} /\ run.from \in Int /\ run.to \in Int
    <3>1. run.from \in Odometers \cup {-1} /\ run.to \in Odometers \cup {-1}
      BY <1>1 DEF UpkeepTyped, RunRows
    <3>2. Odometers \cup {-1} \subseteq Int
      BY <1>1 DEF UpkeepBounds
    <3> HIDE DEF UpkeepTyped
    <3> QED BY <3>1, <3>2
  <2>2. Range(readings) \subseteq Odometers /\ pending \in [Odometers -> Nat]
    <3>1. \A p \in Seq(Odometers) : Range(p) \subseteq Odometers
      BY DEF Range
    <3> QED BY <1>1, <3>1 DEF UpkeepTyped
  <2>3. \A k \in DOMAIN fuel : fuel[k].odo \in Odometers /\ fuel[k].flagged \in BOOLEAN
    <3> SUFFICES ASSUME NEW k \in DOMAIN fuel PROVE fuel[k].odo \in Odometers /\ fuel[k].flagged \in BOOLEAN
      OBVIOUS
    <3>1. fuel[k] \in FuelRows
      BY <1>1 DEF UpkeepTyped
    <3> QED BY <3>1 DEF FuelRows
  <2>4. CostPerKm \in Nat
    BY <1>1, CostType
  <2>5. run.to > run.from => TripFuelCost >= 0
    <3> SUFFICES ASSUME run.to > run.from PROVE TripFuelCost >= 0
      OBVIOUS
    <3> DEFINE tagged == {k \in DOMAIN fuel : fuel[k].tagged}
               km == run.to - run.from
    <3>1. LitresOf(tagged) \in Nat
      <4>1. tagged \subseteq DOMAIN fuel
        OBVIOUS
      <4> HIDE DEF tagged
      <4> QED BY <1>1, <4>1, LitresType
    <3>2. km \in Nat
      BY <2>1
    <3>3. TripFuelCost = IF tagged # {} THEN 100 * LitresOf(tagged) ELSE km * CostPerKm
      BY DEF TripFuelCost
    <3> HIDE DEF tagged, km
    <3>4. 100 * LitresOf(tagged) \in Nat /\ km * CostPerKm \in Nat
      BY <2>4, <3>1, <3>2
    <3> QED BY <3>3, <3>4
  <2>6. DocumentStatus \in DOMAIN Rank
    <3>1. DOMAIN Rank = {"ok", "due_soon", "overdue"}
      BY DEF Rank
    <3>2. DocumentStatus \in {"ok", "due_soon", "overdue"}
      BY DEF DocumentStatus, Standing
    <3> QED BY <3>1, <3>2
  <2>7. Unreconciled \subseteq 1..MaxDay
    BY <1>1 DEF Unreconciled, UpkeepTyped
  <2> QED BY <1>1, <2>1, <2>2, <2>3, <2>4, <2>5, <2>6, <2>7 DEF UpkeepTyped, UpkeepTypeOK
<1> SUFFICES ASSUME UpkeepBounds PROVE UpkeepSpec => []UpkeepTypeOK
  OBVIOUS
<1>2. UpkeepInit => UpkeepTyped
  BY UpkeepTypedInit
<1>3. UpkeepTyped /\ [UpkeepNext]_upkeepVars => UpkeepTyped'
  BY UpkeepTypedStep
<1>4. UpkeepTyped => UpkeepTypeOK
  BY <1>1
<1> QED BY <1>2, <1>3, <1>4, PTL DEF UpkeepSpec
=============================================================================
