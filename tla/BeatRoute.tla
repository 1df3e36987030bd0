----------------------------- MODULE BeatRoute -----------------------------
(***************************************************************************)
(* A beat made from a template, and POST beats/<id>/optimize-route/        *)
(* (backend/apps/customers): the located stops are ordered by nearest      *)
(* neighbour from the first stop and improved by 2-opt; then every stop is *)
(* saved, one statement each, the located ones first.  The process may die *)
(* between two saves and be called again.  Positions of a list are         *)
(* 1-based; distances are natural numbers.                                 *)
(***************************************************************************)
EXTENDS Naturals, Sequences, SequencesExt, FiniteSets, FiniteSetsExt, Functions

CONSTANTS BeatStops,
          Planned,        \* Planned[s]: visit_sequence of the stop in the template
          BeatPlaces,     \* possible addresses
          Metres,         \* Metres[<<p, q>>]: from address p to address q
          MaxTwoOptPasses,
          MaxStarts       \* bound: calls

ASSUME BeatAssumption ==
    /\ IsFiniteSet(BeatStops)
    /\ BeatPlaces # {}
    /\ Metres \in [BeatPlaces \X BeatPlaces -> Nat]
    /\ \A p, q \in BeatPlaces : Metres[<<p, q>>] = Metres[<<q, p>>]
    /\ Planned \in [BeatStops -> Nat]

VARIABLES
    sequence, \* sequence[s]: BeatCustomer.visit_sequence
    located,  \* the stops whose customer has a geocoded address
    place,    \* place[s]: the address of a located stop
    stage,    \* where the request is
    order,    \* the located stops in the order found so far
    rest,     \* the stops without an address
    outset,   \* the order the search set out from
    edge,     \* <<i, j>>: the pair of edges 2-opt looks at
    improved, passes,
    saved,    \* stops saved by the request
    starts

routeVars == <<sequence, located, place, stage, order, rest, outset, edge, improved, passes, saved, starts>>

N == Len(order)

Distance(s, t) == Metres[<<place[s], place[t]>>]

Legs(p) == [k \in 1..(Len(p) - 1) |-> Distance(p[k], p[k + 1])]

PathLength(p) == SumFunctionOnSet(Legs(p), 1..(Len(p) - 1))

\* Meta.ordering: by visit_sequence, ties in any order.
Ordered(s) == {p \in SetToSeqs(s) :
    \A k \in 1..(Len(p) - 1) : sequence[p[k]] <= sequence[p[k + 1]]}

\* The first of the nearest points not yet visited.
Nearest(visited, points) ==
    LET left == {k \in DOMAIN points : points[k] \notin ToSet(visited)}
        d(k) == Distance(Last(visited), points[k])
    IN points[Min({k \in left : \A m \in left : d(k) <= d(m)})]

\* _nearest_neighbor_order: from the first point on to the nearest one every time.
NearestNeighbor(points) ==
    LET path[n \in 1..Len(points)] ==
            IF n = 1 THEN <<points[1]>> ELSE Append(path[n - 1], Nearest(path[n - 1], points))
    IN path[Len(points)]

\* order[i:j+1] = reversed(order[i:j+1])
Flip(p, i, j) == [k \in DOMAIN p |-> IF k \in i..j THEN p[i + j - k] ELSE p[k]]

\* Mutant of Shortens: the test is turned round.
Shortens_Lengthens(p, i, j) ==
    Distance(p[i - 1], p[i]) + Distance(p[j], p[j + 1]) < Distance(p[i - 1], p[j]) + Distance(p[i], p[j + 1])

\* The two edges that a reversal replaces are longer than those it makes.
Shortens(p, i, j) ==
    Distance(p[i - 1], p[i]) + Distance(p[j], p[j + 1]) > Distance(p[i - 1], p[j]) + Distance(p[i], p[j + 1])

BeatInit ==
    /\ sequence = [s \in BeatStops |-> 0]
    /\ located = {}
    /\ place = [s \in BeatStops |-> CHOOSE p \in BeatPlaces : TRUE]
    /\ stage = "template"
    /\ order = <<>> /\ rest = <<>> /\ outset = <<>>
    /\ edge = <<2, 3>>
    /\ improved = FALSE
    /\ passes = 0 /\ saved = 0 /\ starts = 0

\* POST beat-templates/<id>/instantiate/: the stops are copied with their numbers.
Instantiate ==
    /\ stage = "template"
    /\ sequence' = Planned
    /\ stage' = "idle"
    /\ UNCHANGED <<located, place, order, rest, outset, edge, improved, passes, saved, starts>>

\* Addresses are geocoded while no request runs.
Geocode ==
    /\ stage = "idle" /\ starts = 0 /\ located = {}
    /\ \E found \in SUBSET BeatStops : \E at \in [found -> BeatPlaces] :
          /\ located' = found
          /\ place' = [s \in BeatStops |-> IF s \in found THEN at[s] ELSE place[s]]
    /\ UNCHANGED <<sequence, stage, order, rest, outset, edge, improved, passes, saved, starts>>

\* The stops are read and split; optimize_order leaves up to two as they are.
ReadStops ==
    /\ stage \in {"idle", "answered"} /\ starts < MaxStarts
    /\ starts' = starts + 1
    /\ \E p \in Ordered(located), q \in Ordered(BeatStops \ located) :
          /\ order' = IF Len(p) <= 2 THEN p ELSE NearestNeighbor(p)
          /\ rest' = q
          /\ outset' = order'
    /\ stage' = IF Cardinality(located) < 4 THEN "saving" ELSE "pass"
    /\ edge' = <<2, 3>>
    /\ improved' = FALSE
    /\ passes' = 0 /\ saved' = 0
    /\ UNCHANGED <<sequence, located, place>>

\* One pair of edges of a 2-opt pass.
TryReversal ==
    LET i == edge[1]
        j == edge[2]
        better == Shortens(order, i, j) IN
    /\ stage = "pass"
    /\ order' = IF better THEN Flip(order, i, j) ELSE order
    /\ improved' = (improved \/ better)
    /\ edge' = IF j + 1 < N THEN <<i, j + 1>> ELSE <<i + 1, i + 2>>
    /\ stage' = IF j + 1 < N \/ i + 1 < N - 1 THEN "pass" ELSE "passed"
    /\ UNCHANGED <<sequence, located, place, rest, outset, passes, saved, starts>>

\* while improved and passes < max_passes
EndPass ==
    /\ stage = "passed"
    /\ passes' = passes + 1
    /\ stage' = IF improved /\ passes' < MaxTwoOptPasses THEN "pass" ELSE "saving"
    /\ improved' = FALSE
    /\ edge' = <<2, 3>>
    /\ UNCHANGED <<sequence, located, place, order, rest, outset, saved, starts>>

\* stop.save(update_fields=["visit_sequence"]) of the next stop.
SaveStop ==
    /\ stage = "saving"
    /\ saved < Len(order \o rest)
    /\ saved' = saved + 1
    /\ sequence' = [sequence EXCEPT ![(order \o rest)[saved']] = saved']
    /\ UNCHANGED <<located, place, stage, order, rest, outset, edge, improved, passes, starts>>

Respond ==
    /\ stage = "saving"
    /\ saved = Len(order \o rest)
    /\ stage' = "answered"
    /\ UNCHANGED <<sequence, located, place, order, rest, outset, edge, improved, passes, saved, starts>>

\* The process dies; what it saved stays saved (before that nothing was).
PlannerDies ==
    /\ stage = "saving"
    /\ stage' = "idle"
    /\ order' = <<>> /\ rest' = <<>> /\ outset' = <<>>
    /\ UNCHANGED <<sequence, located, place, edge, improved, passes, saved, starts>>

BeatNext == Instantiate \/ Geocode \/ ReadStops \/ TryReversal \/ EndPass \/ SaveStop \/ Respond \/ PlannerDies

BeatSpec == BeatInit /\ [][BeatNext]_routeVars

-----------------------------------------------------------------------------
(* Properties *)

BeatTypeOK ==
    /\ sequence \in [BeatStops -> Nat]
    /\ located \subseteq BeatStops
    /\ stage \in {"template", "idle", "pass", "passed", "saving", "answered"}
    /\ Range(order) \subseteq BeatStops /\ Range(rest) \subseteq BeatStops
    /\ passes \in 0..MaxTwoOptPasses
    /\ saved \in 0..Cardinality(BeatStops) /\ starts \in 0..MaxStarts

\* Search and saving keep the route: at every moment the list holds each stop with
\* an address once, from the same start and never longer than the order 2-opt set
\* out from, the list of the others the rest; and when the call is answered the
\* saved sequence numbers are 1..n with the unlocated stops last, also after calls
\* that died half way and left mixed numbers.
RouteKept ==
    LET all == order \o rest IN
    stage \notin {"template", "idle"} =>
       /\ ToSet(order) = located /\ ToSet(rest) = BeatStops \ located
       /\ Len(all) = Cardinality(BeatStops)
       /\ order # <<>> => order[1] = outset[1] /\ PathLength(order) <= PathLength(outset)
       /\ stage = "answered" =>
             /\ {sequence[s] : s \in BeatStops} = 1..Cardinality(BeatStops)
             /\ \A s \in located, t \in BeatStops \ located : sequence[s] < sequence[t]
=============================================================================
