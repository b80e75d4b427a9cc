------------------------------ MODULE EditorInv ------------------------------
(***************************************************************************)
(* The inductive invariant of Editor: what a call that has checked the test *)
(* may still rely on when it writes.  Alone, all of it; overtaken by calls  *)
(* that finished, as much as those can have added.                          *)
(***************************************************************************)
EXTENDS Editor

Rows == Qids \cup Sids \cup Bids

-----------------------------------------------------------------------------
(* The calls there are, by what they do.                                    *)

Call(pcs, op, args) ==
    [pc : pcs, op : {op}, arg : args, alone : BOOLEAN,
     want : SUBSET Rows, held : SUBSET Rows]

SectionCalls ==
    Call({"checked"}, "createSection", [names : {{n} : n \in Names}])
    \cup Call({"checked"}, "updateSection", [section : Sids, name : Names])
    \cup Call({"checked"}, "removeSection", [section : Sids])

UpdateArgs ==
    [q : Qids, kept : SUBSET Oids, added : SUBSET Oids, fits : Methods,
     known : SUBSET Oids, left : SUBSET Oids]

QuestionCalls ==
    Call({"checked"}, "createQuestion", [at : Nat, fits : Methods])
    \cup Call({"checked", "held", "deleted"}, "updateQuestion", UpdateArgs)
    \cup Call({"checked", "issued", "held"}, "duplicateQuestion", [at : Nat, fits : Methods])
    \cup Call({"checked"}, "removeQuestion", [q : Qids])

\* The tables left to empty.
Plans(op) ==
    CASE op = "import"   -> {<<"questions">>, <<>>}
      [] op = "document" -> {<<"questions", "sections", "bands">>,
                             <<"sections", "bands">>, <<"bands">>, <<>>}
      [] op = "bands"    -> {<<"bands">>, <<>>}

WriteArgs(rows, names, plans) ==
    [rows : rows, names : names, bands : SUBSET Minimums, fits : Methods, at : Nat,
     clears : plans]

Write(op, rows, names) ==
    Call({"checked"}, op, WriteArgs(rows, names, Plans(op)))
    \cup Call({"issued"}, op, WriteArgs(rows, names, Plans(op) \ {<<>>}))

ImportCalls ==
    Write("import", 1..MaxRows, SUBSET Names)
    \cup Write("document", 1..MaxRows,
               {names \in SUBSET Names : Cardinality(names) <= MaxSections})
    \cup Write("bands", {0}, {{}})

OtherCalls ==
    Call({"checked"}, "upload", {<<>>})
    \cup Call({"checked", "recordGone"}, "removeMedia", [file : Uploaded \cup Calls])
    \cup Call({"checked"}, "update", [method : Methods])

Reorders(k) ==
    /\ k.op = "reorderQuestions"
    /\ k \in Call({"checked"}, "reorderQuestions", {[place |-> k.arg.place]})
    /\ DOMAIN k.arg.place \subseteq Qids
    /\ k.arg.place \in [DOMAIN k.arg.place -> Nat]

CallOK(k) ==
    k \in {Waiting, Done} \/ k \in SectionCalls \/ k \in QuestionCalls
    \/ k \in ImportCalls \/ k \in OtherCalls \/ Reorders(k)

CallsOK == calls = [c \in Calls |-> calls[c]] /\ \A c \in Calls : CallOK(calls[c])

-----------------------------------------------------------------------------
(* Limits, and what a check said of the test.                               *)

\* The calls that may have added rows since c read the test.
Overtaken(c) ==
    IF calls[c].alone THEN 0 ELSE Cardinality({d \in Calls : calls[d] = Done})

RoomForQuestions(c, rows) ==
    Count + rows <= MaxQuestions + Overtaken(c) * MaxRows

RoomForSections(c, names) ==
    SectionCount + Cardinality(names) <= MaxSections + Overtaken(c) * Cardinality(Names)

\* The statement that empties a table has picked its rows.
Reached(c, table) ==
    LET clears == calls[c].arg.clears
        left   == IF calls[c].pc = "issued" THEN Tail(clears) ELSE clears
    IN  \A i \in DOMAIN left : left[i] # table

\* The rows a transaction doesn't empty.
Spared(c, table) ==
    LET gone == IF calls[c].pc = "issued" /\ Head(calls[c].arg.clears) = table
                  THEN calls[c].want ELSE calls[c].held
    IN  RowsOf(table) \ gone

NameFree(c, names, except) ==
    calls[c].alone => \A s \in DOMAIN sections \ except : sections[s] \notin names

SectionCallTrue(c) ==
    LET a == calls[c].arg IN
    /\ calls[c].op = "createSection" =>
          RoomForSections(c, a.names) /\ NameFree(c, a.names, {})
    /\ calls[c].op = "updateSection" => NameFree(c, {a.name}, {a.section})

\* Where c will insert, no question is.
Appends(c) ==
    calls[c].alone => \A q \in DOMAIN questions : questions[q].order < calls[c].arg.at

\* c sees what it copies, and the questions behind it.
CopyTrue(c) ==
    LET a == calls[c].arg IN
    /\ calls[c].pc # "held" => calls[c].held = {}
    /\ calls[c].alone =>
          /\ \E q \in DOMAIN questions :
                questions[q].order = a.at /\ questions[q].fits = a.fits
          /\ calls[c].pc = "issued" => calls[c].want = Later(DOMAIN questions, a.at)
          /\ calls[c].pc = "held" => calls[c].held = Later(DOMAIN questions, a.at)

\* What a save keeps of the options it finds, it was sent.
SaveTrue(c) ==
    /\ calls[c].pc = "deleted" => calls[c].arg.left \subseteq calls[c].arg.kept
    /\ calls[c].alone => calls[c].arg.fits = method

QuestionCallTrue(c) ==
    LET a == calls[c].arg IN
    /\ calls[c].op = "createQuestion" =>
          /\ RoomForQuestions(c, 1)
          /\ Appends(c)
          /\ calls[c].alone => a.fits = method
    /\ calls[c].op = "updateQuestion" => SaveTrue(c)
    /\ calls[c].op = "duplicateQuestion" => RoomForQuestions(c, 1) /\ CopyTrue(c)
    /\ calls[c].op = "reorderQuestions" =>
          /\ IsInjective(a.place)
          /\ calls[c].alone => DOMAIN a.place = DOMAIN questions

QuestionsSpared(c) ==
    Cardinality(Spared(c, "questions")) <= Overtaken(c) * MaxRows

ImportCallTrue(c) ==
    LET a == calls[c].arg IN
    /\ calls[c].op = "import" =>
          /\ RoomForSections(c, a.names) /\ NameFree(c, a.names, {}) /\ a.bands = {}
          /\ calls[c].alone => a.fits = method
          /\ Reached(c, "questions") =>
                QuestionsSpared(c) \/ (RoomForQuestions(c, a.rows) /\ Appends(c))
    /\ calls[c].op = "document" =>
          /\ Reached(c, "questions") => QuestionsSpared(c)
          /\ Reached(c, "sections") =>
                Cardinality(Spared(c, "sections")) <= Overtaken(c) * Cardinality(Names)
    /\ calls[c].op \in {"document", "bands"} /\ Reached(c, "bands") =>
          (calls[c].alone => Spared(c, "bands") = {})

SettingsTrue(c) ==
    calls[c].op = "update" =>
        (calls[c].alone => \A q \in DOMAIN questions : questions[q].fits = calls[c].arg.method)

CallTrue(c) ==
    SectionCallTrue(c) /\ QuestionCallTrue(c) /\ ImportCallTrue(c) /\ SettingsTrue(c)

CallsTrue == \A c \in Calls : InFlight(c) => CallTrue(c)

-----------------------------------------------------------------------------
(* Files.                                                                   *)

\* Only a finished upload has a record, and a file whose record a removal has
\* deleted gets none again.
MediaTrue ==
    /\ RecordsHaveFiles
    /\ \A c \in Calls : c \in media.records => calls[c] = Done
    /\ \A c \in Calls : At(c, "upload", "checked") => c \in media.files
    /\ \A c \in Calls : InFlight(c) /\ calls[c].op = "removeMedia" =>
          LET f == calls[c].arg.file IN
          /\ f \in Calls => calls[f] = Done
          /\ calls[c].pc = "recordGone" => f \notin media.records

EInv ==
    /\ TypeOK /\ CallsOK /\ CallsTrue /\ MediaTrue
    /\ OptionsAreOneSave /\ LimitsNearlyHold

=============================================================================
