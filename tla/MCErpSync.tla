------------------------------ MODULE MCErpSync ------------------------------
(* Instances of ErpSync for TLC. *)
EXTENDS ErpSync, TLC

Realtime == [immediate |-> TRUE, known |-> TRUE]
Batch    == [immediate |-> FALSE, known |-> TRUE]
Unknown  == [immediate |-> TRUE, known |-> FALSE]

OnlyRealtime   == {Realtime}
OnlyBatch      == {Batch}
AnyConnection  == {Realtime, Batch, Unknown}

OneJob == {1}

\* Workers are interchangeable; jobs are not (they are ordered by created_at).
WorkerSymmetry == Permutations(Workers)
=============================================================================
