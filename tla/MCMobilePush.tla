---------------------------- MODULE MCMobilePush ----------------------------
(* Instances of MobilePush for TLC. *)
EXTENDS MobilePush, TLC

CONSTANTS trip, visit, receipt

Child == {visit, receipt}

AllKinds == (trip :> "trip") @@ (visit :> "trip_checkpoint") @@ (receipt :> "receipt")

KindOf   == [r \in Records |-> AllKinds[r]]
ParentOf == [r \in Records |-> IF r \in Child THEN trip ELSE NoRecord]

\* The calls of synchronize() are interchangeable; the slots are ordered.
CycleSymmetry == Permutations(Cycles)
=============================================================================
