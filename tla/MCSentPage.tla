----------------------------- MODULE MCSentPage -----------------------------
(* SentPage on a small instance.                                            *)
EXTENDS SentPageInv
CONSTANTS t1, t2, c1

MCSent(ts) == NewLink(c1, ts, TRUE)

Visit(ls, ts, s, o, c, f, x, e) ==
    [links |-> ls, tests |-> ts, screens |-> s, ops |-> o, calls |-> c, failures |-> f, others |-> x, outside |-> e]

MCErrands == {
    Visit({<<>>}, {t1}, {"library", "sent"}, {"send"}, 2, 1, 0, {}),
    Visit({<<MCSent({t1, t2})>>}, {}, {"library", "results"}, {"resend"}, 1, 1, 0, {"tests", "expiry"}),
    Visit({<<MCSent({t1})>>}, {}, {"sent", "results"}, {"resend", "revoke"}, 2, 0, 0, {}),
    Visit({<<MCSent({t1})>>}, {}, {"home", "results"}, {}, 0, 0, 1, {"tests", "expiry"}),
    Visit({<<MCSent({t1})>>}, {}, {"sent"}, {"revoke"}, 1, 1, 1, {"tests", "expiry"}),
    Visit({<<MCSent({t1}), MCSent({t2})>>}, {}, {"home"}, {}, 0, 0, 1, {"tests"})}
=============================================================================
