----------------------------- MODULE MCStaffPage -----------------------------
(* StaffPage on a small instance.                                           *)
EXTENDS StaffPageInv
CONSTANTS q1, q2, q3, f1
MCFieldsOf == 
    [settings |-> {"name", "method"}, bands |-> {"band"}, weights |-> {"w1", "w2"},
     section |-> {"title"}, question |-> {"fit", "place"}]

Visit(o, f, t, c) == [ops |-> o, fields |-> f, typed |-> t, calls |-> c]

MCErrands == {
    Visit({"save", "read"}, {"name", "w1", "w2"}, 2, 2),
    Visit({"save", "read"}, {"name"}, 2, 3),
    Visit({"save", "read"}, {"name", "fit"}, 2, 2),
    Visit({"save", "read"}, {"method", "w1", "sections"}, 2, 2),
    Visit({"save", "filter"}, {"place", "sections"}, 2, 2),
    Visit({"save", "drop"}, {"band", "fit"}, 2, 2),
    Visit({"save", "drop"}, {"title", "fit", "sections"}, 1, 2),
    Visit({"save", "drop", "library", "session"}, {"name", "fit"}, 1, 2),
    Visit({"move", "read"}, {"name"}, 0, 3),
    Visit({"check", "import", "move"}, {"name"}, 0, 3)}
=============================================================================
