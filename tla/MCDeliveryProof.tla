-------------------------- MODULE MCDeliveryProof --------------------------
\* Instance of DeliveryProof for TLC: every customer has a phone.
EXTENDS DeliveryProof

EveryPhone == [b \in Bills |-> TRUE]
=============================================================================
