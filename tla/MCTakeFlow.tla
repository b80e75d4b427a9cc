----------------------------- MODULE MCTakeFlow -----------------------------
(* TakeFlow on a small instance.                                            *)
EXTENDS TakeFlowInv
CONSTANTS t1, t2, q1, q2, o1, o2

\* A first visit on a link that may be revoked, and one with outages after o1
\* was answered everywhere.
MCVisits ==
    {[found |-> NoAnswers, closes |-> TRUE, outages |-> FALSE],
     [found |-> [i \in Ids |-> o1], closes |-> FALSE, outages |-> TRUE]}
=============================================================================
