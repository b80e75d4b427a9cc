----------------------------- MODULE AttemptLife -----------------------------
(***************************************************************************)
(* What the server promises of one candidate's attempts, whoever reads,    *)
(* sweeps or submits them and in whatever order: an attempt is started at  *)
(* most once, while its link is open, with one clock and one question      *)
(* order; it is finished at most once, with one result; it is EXPIRED only *)
(* when its deadline and the grace after it have passed.                   *)
(***************************************************************************)
EXTENDS Integers

CONSTANTS Attempts, Questions, Options, Layouts, Duration, Grace, LinkExpiry, None

VARIABLES
    now,     \* the server's clock
    clock,   \* clock[a]: None, or the start, the deadline and the order drawn
    result   \* result[a]: None, or the final status, when, and what was scored

vars == <<now, clock, result>>

Init ==
    /\ now = 0
    /\ clock = [a \in Attempts |-> None]
    /\ result = [a \in Attempts |-> None]

Tick == now' = now + 1 /\ UNCHANGED <<clock, result>>

\* The moment t the server noted may lie before the update that stores it.
Start(a) ==
    /\ clock[a] = None
    /\ \E t \in 0 .. now, l \in Layouts :
          /\ t < LinkExpiry
          /\ clock' = [clock EXCEPT ![a] =
                         [start |-> t, deadline |-> t + Duration[a], order |-> l]]
    /\ UNCHANGED <<now, result>>

Earlier(s, t) == IF s < t THEN s ELSE t

Finish(a) ==
    /\ clock[a] # None
    /\ result[a] = None
    /\ \E t \in clock[a].start .. now,
          status \in {"SUBMITTED", "EXPIRED"},
          sheet \in [Questions -> Options \cup {None}] :
          /\ status = "EXPIRED" => t > clock[a].deadline + Grace
          /\ result' = [result EXCEPT ![a] =
                [status |-> status, at |-> t, scored |-> sheet,
                 taken |-> Earlier(t, clock[a].deadline) - clock[a].start]]
    /\ UNCHANGED <<now, clock>>

Next == Tick \/ \E a \in Attempts : Start(a) \/ Finish(a)

Spec == Init /\ [][Next]_vars

=============================================================================
