-------------------------- MODULE MCRefreshRotation --------------------------
(* Values of the constants of RefreshRotation for TLC, and its behaviours   *)
(* up to the choice of interchangeable ids: an id is given out only after   *)
(* those before it.                                                         *)
EXTENDS RefreshRotation_proofs, Sequences, TLC

CONSTANTS t1, t2, t3, u1

TheTokens == {t1, t2, t3}
Order == <<t1, t2, t3>>

DistinctKeys  == [f \in Families |-> f]

InOrder == \A i \in 2..Len(Order) :
    Order[i] \in UnusedTokens \ UnusedTokens' => Order[i - 1] \notin UnusedTokens

OrderedSpec ==
    /\ Init /\ \A x \in Procs : req[x].scope = u1
    /\ [][Next /\ InOrder]_vars
    /\ Fairness
=============================================================================
