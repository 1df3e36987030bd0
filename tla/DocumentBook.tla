---------------------------- MODULE DocumentBook ----------------------------
(***************************************************************************)
(* What finalizing promises, whoever carries it out: each document enters  *)
(* the book once, as a whole, with the next number of its kind, and the    *)
(* stock moves by the sum of its lines.                                    *)
(***************************************************************************)
EXTENDS Integers, Sequences, FiniteSets, Functions

CONSTANTS Docs, Doc, Items

VARIABLES entered, \* the documents in the book
          number,  \* the number of each
          stock    \* quantity on hand

vars == <<entered, number, stock>>

Init ==
    /\ entered = {}
    /\ number = [d \in Docs |-> 0]
    /\ stock = [i \in Items |-> 0]

\* The sum of the lines of d for item i.
Moved(d, i) ==
    SumFunctionOnSet([n \in DOMAIN Doc[d].lines |-> Doc[d].lines[n].qty],
                     {n \in DOMAIN Doc[d].lines : Doc[d].lines[n].item = i})

Enter(d) ==
    /\ d \notin entered
    /\ entered' = entered \cup {d}
    /\ number' = [number EXCEPT ![d] =
                     1 + Cardinality({e \in entered : Doc[e].kind = Doc[d].kind})]
    /\ stock' = [i \in Items |-> stock[i] + Moved(d, i)]

Next == \E d \in Docs : Enter(d)

Spec == Init /\ [][Next]_vars
=============================================================================
