------------------------------ MODULE MCRunner ------------------------------
(* Runner on a small instance.  The option o1 is right unless it is edited. *)
EXTENDS RunnerInv
CONSTANTS q1, q2, q3, o1, o2

MCTest(S, o, back) == [key |-> [q \in S |-> o], back |-> back]

MCVisit(who, t, os, n, later, runs, clips) ==
    [visitor |-> who, test |-> t, options |-> os, edits |-> n, later |-> later, runs |-> runs,
     clips |-> clips]

MCVisits ==
    {MCVisit("candidate", MCTest({q1, q2, q3}, o1, b), {o1}, 0, {}, 2, FALSE) : b \in BOOLEAN}
    \cup {MCVisit("candidate", MCTest({q1, q2}, o1, b), {o1}, 0, {}, 2, TRUE) : b \in BOOLEAN}
    \cup {MCVisit("staff", MCTest({q1, q2}, o1, b), {o1, o2}, 1,
                  {MCTest({}, o1, b), MCTest({q1}, o2, b)}, 2, FALSE) : b \in BOOLEAN}

=============================================================================
