----------------------------- MODULE Authoring ------------------------------
(***************************************************************************)
(* One question's way through the product: typed in the form or read from  *)
(* a document, saved, edited again, exported and imported as CSV, then     *)
(* sent beside two plain questions, shown to a candidate in some order and *)
(* scored.  One person works on it: who overlaps whom is Editor's subject. *)
(* `work` is what there is of it at its stage: nothing yet, a form, a      *)
(* stored question, a test as it is shown, a test with its answers.        *)
(* A whole test (stage "test") is built of sections and questions as well, *)
(* copied, and taken through documents and spreadsheets; what its          *)
(* questions say is left out there.  A spreadsheet (stage "sheet") is the  *)
(* texts somebody has put into its cells, to be saved as a CSV file.       *)
(***************************************************************************)
EXTENDS Scoring, Documents, Csv

CONSTANTS
    MaxValue,     \* documents give scale values 0 to this
    Weights,      \* what a section can weigh, 0 for nothing
    Minimums,     \* what the score bands of the test start at
    Names,        \* what sections may be called
    Files,        \* what audio files may be called
    MaxFiles,     \* how many are uploaded at most
    Headers,      \* the header rows of spreadsheets
    Pieces,       \* what is put into their cells, so many in all
    MaxPieces,
    MaxRows       \* under one header

ASSUME SizesFit ==
    /\ MaxChoices \in Nat \ {0, 1} /\ MaxPoints \in Nat \ {0, 1} /\ MaxValue \in Nat
    /\ DefaultPoints \in 2..MaxPoints
    /\ NewChoices \in 2..MaxChoices /\ NewScaleChoices \in 2..MaxChoices

\* The lowest band starts at nothing, and scores are shares.
ASSUME BandsAssumption ==
    /\ Weights \subseteq Nat
    /\ Minimums \subseteq Nat \X (Nat \ {0}) /\ IsFiniteSet(Minimums) /\ Zero \in Minimums

ASSUME NoneAssumption == None \notin Int \cup {"s1", "s2"} \cup Minimums

VARIABLE work

At(stage) == work.stage = stage

EmptyTest == [sections |-> <<>>, questions |-> <<>>]

AuthoringInit ==
    \/ \E m \in Methods : work = [stage |-> "new", method |-> m]
    \/ work = [stage |-> "test", test |-> EmptyTest, library |-> <<>>]
    \/ \E header \in Headers : work = [stage |-> "sheet", rows |-> <<header>>]

-----------------------------------------------------------------------------
(* The form (question-form.tsx, options-editor.tsx).                         *)

Form(d) == work' = [stage |-> "form", method |-> work.method, draft |-> d]

Used(d) == Keys(d.options) \cup ({d.employerKey} \ {None})

PickIn(d, options) == IF d.employerKey \in Keys(options) THEN d.employerKey ELSE None

OpenForm ==
    \/ At("new") /\ Form(emptyDraft(work.method))
    \/ At("stored") /\ Form(draftFromQuestion(work.question))

changeType(type) ==
    LET d == work.draft
        options == optionsFor(type, d.options, Used(d))
    IN  /\ At("form") /\ type \in questionTypesFor(work.method) \ {d.type}
        /\ Form([type |-> type, options |-> options, employerKey |-> PickIn(d, options)])

withText(i, text) ==
    /\ At("form") /\ work.draft.type # "TRUE_FALSE"
    /\ i \in DOMAIN work.draft.options
    /\ Form([work.draft EXCEPT !.options[i].text = text])

markRight(i) ==
    LET d == work.draft
    IN  /\ At("form") /\ ~isScale(d.type) /\ i \in DOMAIN d.options
        /\ Form([d EXCEPT !.options = [k \in DOMAIN @ |-> [@[k] EXCEPT !.correct = (k = i)]]])

pickForRole(i) ==
    /\ At("form") /\ isScale(work.draft.type) /\ i \in DOMAIN work.draft.options
    /\ Form([work.draft EXCEPT !.employerKey = work.draft.options[i].key])

addOption ==
    LET d == work.draft
    IN  /\ At("form") /\ d.type \in {"SINGLE_CHOICE", "CHOICE_SCALE"}
        /\ Len(d.options) < MaxChoices
        /\ Form([d EXCEPT !.options = Append(@, Blank(FreshKeys(Used(d), 1)[1], ""))])

\* A choice scale is numbered 1 to n again, and loses the pick that goes.
remove(i) ==
    LET d == work.draft
        rest == RemoveAt(d.options, i)
    IN  /\ At("form") /\ i \in DOMAIN d.options /\ Len(d.options) > 2
        /\ \/ d.type = "SINGLE_CHOICE" /\ Form([d EXCEPT !.options = rest])
           \/ /\ d.type = "CHOICE_SCALE"
              /\ Form([d EXCEPT
                    !.options = [k \in DOMAIN rest |-> [rest[k] EXCEPT !.value = None]],
                    !.employerKey = IF @ = d.options[i].key THEN None ELSE @])

resize(size) ==
    LET d == work.draft
        options == resizeScale(d.options, size, Used(d))
    IN  /\ At("form") /\ d.type = "RATING_SCALE" /\ size # Len(d.options)
        /\ Form([d EXCEPT !.options = options, !.employerKey = PickIn(d, options)])

-----------------------------------------------------------------------------
(* Stored, by the form, a document or a spreadsheet.                         *)

Store(q) ==
    Accepted(q, work.method)
        /\ work' = [stage |-> "stored", method |-> work.method, question |-> q]

\* submit(): nothing is sent while the form shows problems.
submit ==
    /\ At("form") /\ draftProblems(work.draft, work.method) = {}
    /\ Store(normalizeQuestion(toInput(work.draft)))

\* Another answer picked on the role profile tab: the rest as the form has it.
profile(i) ==
    /\ At("stored") /\ isScale(work.question.type) /\ i \in DOMAIN work.question.options
    /\ Store(normalizeQuestion([toInput(draftFromQuestion(work.question)) EXCEPT
                                  !.employerValue = work.question.options[i].value]))

Scales ==
    {v \in UNION {[1..n -> 0..MaxValue] : n \in MinPoints..(MaxValue + 1)} : Climbing(v)}

\* The questions a document may hold: scale values need not be 1 to n.
DocumentQuestions ==
    UNION
    {{[type |-> "SINGLE_CHOICE", employerValue |-> None,
       options |-> [k \in 1..n |-> [text |-> "x", value |-> None, correct |-> k = c]]]
         : n \in 2..MaxChoices, c \in 1..MaxChoices},
     {[type |-> "TRUE_FALSE", employerValue |-> None,
       options |-> [k \in 1..2 |-> [TrueFalse[k] EXCEPT !.correct = (k = c)]]] : c \in 1..2},
     {[type |-> t, employerValue |-> e,
       options |-> [k \in DOMAIN v |-> [text |-> "x", value |-> v[k], correct |-> FALSE]]]
         : t \in questionTypesFor("ALIGNMENT"), v \in Scales, e \in 0..MaxValue}}

importDocument ==
    At("new") /\ \E q \in DocumentQuestions : Store(normalizeQuestion(q))

\* The question exported to a spreadsheet and imported in its place.
importCsv ==
    LET row == questionRow(work.question)
    IN  /\ At("stored") /\ rowAccepted(row, work.method)
        /\ Store(parseRow(row))

-----------------------------------------------------------------------------
(* Sent, shown and answered.  Texts no longer matter.                        *)

Frozen(q, s) ==
    [type |-> q.type, section |-> s, employerValue |-> q.employerValue,
     options |-> [k \in DOMAIN q.options |-> [q.options[k] EXCEPT !.text = ""]]]

\* A question of a kind whose answers are known: options 1 to 3, the second right.
Plain(method) ==
    [type |-> IF method = "ALIGNMENT" THEN "RATING_SCALE" ELSE "SINGLE_CHOICE",
     employerValue |-> IF method = "ALIGNMENT" THEN 2 ELSE None,
     options |-> [k \in 1..3 |->
         [text |-> "", value |-> IF method = "ALIGNMENT" THEN k ELSE None,
          correct |-> method # "ALIGNMENT" /\ k = 2]]]

\* Which section each question is in: one, both and neither, interleaved, none.
SectionsOf ==
    {<<"s1", "s1", "s1">>, <<"s2", "s1", None>>, <<"s2", "s1", "s2">>, <<None, None, None>>}

buildSnapshot(sections, order, weights) ==
    LET q == <<work.question, Plain(work.method), Plain(work.method)>>
    IN  [method |-> work.method, order |-> order, sections |-> <<"s1", "s2">>,
         weights |-> weights, bands |-> Minimums,
         questions |-> [i \in 1..3 |-> Frozen(q[i], sections[i])]]

\* Started: the order is drawn when the candidate starts.  `setting` is
\* whether options are shuffled, the question's own choice or the test's.
Start ==
    /\ At("stored")
    /\ \E sections \in SectionsOf, setting, keepLast \in BOOLEAN,
          order \in {"FIXED", "SHUFFLE_ALL", "SHUFFLE_WITHIN_SECTION"} :
         LET paper == buildSnapshot(sections, order, [s \in {"s1", "s2"} |-> 0])
         IN  \E questions \in orderQuestions(paper) :
             \E options \in orderOptions(paper.questions[1], setting, keepLast) :
                work' = [stage |-> "shown", paper |-> paper, setting |-> setting,
                         keepLast |-> keepLast, questions |-> questions,
                         options |-> options]

\* Handed in with an answer, or none, to each question.
HandIn ==
    /\ At("stored")
    /\ \E sections \in SectionsOf, weights \in [{"s1", "s2"} -> Weights] :
         LET paper == buildSnapshot(sections, "FIXED", weights)
             given(i) == (DOMAIN paper.questions[i].options) \cup {None}
         IN  \E a \in given(1), b \in given(2), c \in given(3) :
                work' = [stage |-> "answered", paper |-> paper, answers |-> <<a, b, c>>]

-----------------------------------------------------------------------------
(* A whole test.                                                             *)

Became(t) == Fits(t) /\ work' = [work EXCEPT !.test = t]

NameFree(name, but) ==
    \A i \in DOMAIN work.test.sections \ {but} : work.test.sections[i] # name

createSection(name) ==
    /\ At("test") /\ NameFree(name, 0)
    /\ Became([work.test EXCEPT !.sections = Append(@, name)])

updateSection(i, name) ==
    /\ At("test") /\ i \in DOMAIN work.test.sections /\ NameFree(name, i)
    /\ Became([work.test EXCEPT !.sections[i] = name])

\* Its questions stay, without a section.
removeSection(i) ==
    LET left(s) == IF s = i THEN 0 ELSE IF s > i THEN s - 1 ELSE s
    IN  /\ At("test") /\ i \in DOMAIN work.test.sections
        /\ Became([sections  |-> RemoveAt(work.test.sections, i),
                   questions |-> [k \in DOMAIN work.test.questions |->
                       [work.test.questions[k] EXCEPT !.section = left(@)]]])

createQuestion ==
    /\ At("test")
    /\ \E s \in 0..Len(work.test.sections), id \in DOMAIN work.library \cup {None} :
          Became([work.test EXCEPT !.questions =
                    Append(@, [section |-> s, media |-> [Silent EXCEPT !.id = id]])])

upload(file) ==
    /\ At("test") /\ Len(work.library) < MaxFiles
    /\ work' = [work EXCEPT !.library = Append(@, file)]

\* The copy is what is worked on from here.
duplicate ==
    LET document == toCanonicalAssessment(work.test, work.library)
    IN  /\ At("test") /\ documentProblems(document) = {}
        /\ Became(writeContent(document, work.library, {}))

\* A document written by hand, or on a server whose files are not here.
Written ==
    LET media == {[file |-> None, asset |-> None]}
                   \cup {[file |-> f, asset |-> 0] : f \in Files}
    IN  UNION {{[sections |-> <<[key |-> k, name |-> n]>>,
                 questions |-> <<[section |-> s, media |-> m]>>] : s \in {None, k, n}, m \in media}
               : k \in Names, n \in Names}

\* A new test; what is worked on here is that one from then on.
importTest ==
    /\ At("test") /\ work.test = EmptyTest
    /\ \E document \in Written :
          /\ documentProblems(document) = {}
          /\ Became(writeContent(document, work.library, {}))

\* The files the document names, uploaded unless one of that name is stored.
ensureMedia(document) ==
    LET named == {q.media.file : q \in ToSet(document.questions)} \ {None}
    IN  work.library \o SetToSeq(named \ ToSet(work.library))

\* Seeded over this test, forced: it keeps the files it plays.
seed ==
    /\ At("test")
    /\ \E document \in Written :
          LET library == ensureMedia(document)
          IN  /\ documentProblems(document) = {} /\ Len(library) <= MaxFiles
              /\ work' = [work EXCEPT !.library = library,
                            !.test = writeContent(document, library, Playing(work.test))]

importSpreadsheet ==
    LET media == {[file |-> f, asset |-> None] : f \in Files \cup {None}}
        row   == {<<[section |-> s, media |-> m]>> : s \in Names \cup {None}, m \in media}
    IN  /\ At("test")
        /\ \E rows \in row \cup {exportCsv(work.test, work.library)},
              mode \in {"append", "replace"} :
             /\ rows # <<>>
             /\ Became(importRows(work.test, work.library, rows, mode))

-----------------------------------------------------------------------------
(* A spreadsheet application.                                                *)

PiecesIn(rows) ==
    Len(FlattenSeq([i \in 1..Len(rows) - 1 |-> FlattenSeq(rows[i + 1])]))

addRow ==
    /\ At("sheet") /\ Len(work.rows) <= MaxRows
    /\ work' = [work EXCEPT !.rows = Append(@, [i \in DOMAIN Head(@) |-> <<>>])]

fillIn(piece) ==
    /\ At("sheet") /\ Len(work.rows) > 1 /\ PiecesIn(work.rows) < MaxPieces
    /\ \E i \in DOMAIN Head(work.rows) :
          work' = [work EXCEPT !.rows[Len(work.rows)][i] = Append(@, piece)]

-----------------------------------------------------------------------------

AuthoringNext ==
    \/ addRow \/ \E piece \in Pieces : fillIn(piece)
    \/ createQuestion \/ duplicate
    \/ importTest \/ seed \/ importSpreadsheet
    \/ \E name \in Names : createSection(name)
    \/ \E i \in 1..MaxSections : removeSection(i) \/ \E name \in Names : updateSection(i, name)
    \/ \E file \in Files : upload(file)
    \/ OpenForm \/ addOption \/ submit \/ importDocument \/ importCsv
    \/ \E type \in questionTypesFor("ALIGNMENT") \cup questionTypesFor("CORRECT_ANSWER") :
           changeType(type)
    \/ \E i \in 1..Max({MaxChoices, MaxPoints}), text \in {"", "x"} : withText(i, text)
    \/ \E i \in 1..Max({MaxChoices, MaxPoints}) :
           markRight(i) \/ pickForRole(i) \/ remove(i) \/ profile(i)
    \/ \E size \in MinPoints..MaxPoints : resize(size)
    \/ Start \/ HandIn

AuthoringSpec == AuthoringInit /\ [][AuthoringNext]_work

-----------------------------------------------------------------------------

(* The form and the API agree.  What the form lets through the API accepts,  *)
(* and what it stores opens as a form without problems that would save the   *)
(* very same question, whether the form, a document or a spreadsheet made    *)
(* it.                                                                       *)
EditorAgrees ==
    /\ At("form") /\ draftProblems(work.draft, work.method) = {} =>
         Accepted(normalizeQuestion(toInput(work.draft)), work.method)
    /\ At("stored") =>
         LET d == draftFromQuestion(work.question)
         IN  draftProblems(d, work.method) = {} /\ toInput(d) = work.question

(* Exporting a question to CSV and importing it again keeps all of it but    *)
(* the middle labels of a rating scale.                                      *)
CsvKeepsQuestion ==
    At("stored") =>
        LET q == work.question
            middle(i) == q.type = "RATING_SCALE" /\ i \notin {1, Len(q.options)}
        IN  /\ rowAccepted(questionRow(q), work.method)
            /\ parseRow(questionRow(q)) =
                 [q EXCEPT !.options = [i \in DOMAIN @ |->
                     IF middle(i) THEN [@[i] EXCEPT !.text = ""] ELSE @[i]]]

\* How far an option is from the key of question q: 0 for the key.
Distance(paper, q, o) ==
    IF paper.method = "ALIGNMENT" THEN Abs(q.options[o].value - q.employerValue)
    ELSE IF q.options[o].correct THEN 0 ELSE 1

(* Scoring is fair.  A score is from 0 to 1 and has a band; a key to every   *)
(* question scores 1 with nothing flagged, and on a right-answer test only   *)
(* that does, so a blank counts against it; no answers score 0.  Moving any  *)
(* one answer closer to its key, or giving the key where there was no        *)
(* answer, never lowers the score or the band and flags nothing new.         *)
ScoresAreFair ==
    At("answered") =>
        LET paper == work.paper
            score(a) == scoreAttempt(paper, a)
            now == score(work.answers)
            far(i, o) == Distance(paper, paper.questions[i], o)
            given == Answered(paper, work.answers, Places(paper))
            keyed == given = Places(paper) /\ \A i \in given : far(i, work.answers[i]) = 0
            better(i, o) ==
                IF i \in given THEN far(i, o) < far(i, work.answers[i]) ELSE far(i, o) = 0
        IN  /\ AtMost(Zero, now) /\ AtMost(now, One)
            /\ bandFor(paper.bands, now) # None
            /\ keyed => Same(now, One) /\ flags(paper, work.answers) = {}
            /\ Same(now, One) /\ paper.method = "CORRECT_ANSWER" => keyed
            /\ given = {} => Same(now, Zero)
            /\ \A i \in Places(paper) : \A o \in DOMAIN paper.questions[i].options :
                 better(i, o) =>
                    LET then == [work.answers EXCEPT ![i] = o]
                    IN  /\ AtMost(now, score(then))
                        /\ AtMost(bandFor(paper.bands, now), bandFor(paper.bands, score(then)))
                        /\ flags(paper, then) \subseteq flags(paper, work.answers)

SectionRank(paper, i) ==
    CASE paper.questions[i].section = "s1" -> 1
      [] paper.questions[i].section = "s2" -> 2
      [] OTHER -> 3

Permuted(S) == {p \in [1..Cardinality(S) -> S] : Cardinality(Range(p)) = Cardinality(S)}

(* Layouts are fair.  A candidate sees every question once and every option  *)
(* once; motivation items and tests shuffled within sections keep to their   *)
(* section's block; only single-choice options move, and never the last one  *)
(* that stays fixed.  Every order these rules leave can be drawn, and from   *)
(* as many draws as any other.                                               *)
LayoutsAreFair ==
    At("shown") =>
        LET paper == work.paper
            q == paper.questions[1]
            n == Len(q.options)
            kept(p) ==
                CASE paper.order = "FIXED" -> \A i \in DOMAIN p : p[i] = i
                  [] paper.order = "SHUFFLE_ALL" /\ paper.method = "CORRECT_ANSWER" -> TRUE
                  [] OTHER -> \A i, k \in DOMAIN p :
                        i < k => SectionRank(paper, p[i]) <= SectionRank(paper, p[k])
            still(p) ==
                IF q.type = "SINGLE_CHOICE" /\ work.setting THEN work.keepLast => p[n] = n
                ELSE \A i \in DOMAIN p : p[i] = i
        IN  /\ work.questions \in Permuted(Places(paper)) /\ kept(work.questions)
            /\ work.options \in Permuted(1..n) /\ still(work.options)
            /\ {p \in Permuted(Places(paper)) : kept(p)} = orderQuestions(paper)
            /\ {p \in Permuted(1..n) : still(p)} = orderOptions(q, work.setting, work.keepLast)
            /\ Cardinality(Shuffles([i \in 1..n |-> i])) = Cardinality(Draws(n))

(* What a copy keeps.  A test that is duplicated, or exported as a document  *)
(* and imported, has the same sections and every question in the same one.   *)
(* On this server each question plays the same file; elsewhere, one of the   *)
(* same name if there is any.  A question whose file was missing plays it    *)
(* once it is uploaded, and otherwise still names it.                        *)
CopyKeepsTest ==
    At("test") =>
        LET t == work.test
            document == toCanonicalAssessment(t, work.library)
            abroad == [document EXCEPT !.questions =
                        [i \in DOMAIN @ |-> [@[i] EXCEPT !.media.asset = None]]]
            copy == writeContent(document, work.library, {})
            there == writeContent(abroad, work.library, {})
            name(m) == IF m.id = None THEN m.file ELSE work.library[m.id]
        IN  documentProblems(document) = {} =>
                /\ copy.sections = t.sections /\ there.sections = t.sections
                /\ \A i \in DOMAIN t.questions :
                     LET was == t.questions[i]
                         now == copy.questions[i]
                         far == there.questions[i]
                     IN  /\ now.section = was.section /\ far.section = was.section
                         /\ was.media.id # None => now.media = was.media
                         /\ name(now.media) = name(was.media) /\ name(far.media) = name(was.media)
                         /\ name(was.media) \in ToSet(work.library) => now.media.id # None

(* What a spreadsheet keeps.  Exporting a test's questions and importing     *)
(* them in place of themselves makes no section, leaves every question in    *)
(* its section unless the section's name is also the slug of a later one's,  *)
(* and leaves it its file unless the test plays two files of that name.      *)
TestComesBack ==
    At("test") =>
        LET t == work.test
            back == importRows(t, work.library, exportCsv(t, work.library), "replace")
            name(m) == IF m.id = None THEN m.file ELSE work.library[m.id]
            later(s) == {k \in DOMAIN t.sections :
                            k > s /\ slugify(t.sections[k], "item") = t.sections[s]}
            twin(m) == {id \in Playing(t) : work.library[id] = name(m)}
        IN  /\ back.sections = t.sections
            /\ \A i \in DOMAIN t.questions :
                 LET was == t.questions[i]
                     now == back.questions[i]
                 IN  /\ was.section = 0 \/ later(was.section) = {} => now.section = was.section
                     /\ name(now.media) = name(was.media)
                     /\ twin(was.media) = {was.media.id} => now.media = was.media

(* What the server exports it reads back, whatever the cells hold.  Of a     *)
(* file that a spreadsheet application saved, with any separator, line end   *)
(* and mark, it reads every row that isn't blank, in order and with its      *)
(* number, and in each of its columns what was put there.                    *)
FileComesBack ==
    At("sheet") =>
        LET rows == work.rows
            header == Head(rows)
            filled == SelectSeq([i \in 1..Len(rows) - 1 |-> i + 1],
                                LAMBDA i : ~BlankRecord(rows[i]))
        IN  /\ parseCsv(toCsv(rows)) = [closed |-> TRUE, records |-> rows]
            /\ \A separator \in ToSet(Separators), end \in {<<"\n">>, <<"\r", "\n">>},
                  mark \in BOOLEAN :
                 parseQuestionCsv(SavedAs(rows, separator, end, mark)) =
                     [problems |-> headerProblems(header),
                      rows |-> IF headerProblems(header) # {} THEN <<>>
                               ELSE [i \in DOMAIN filled |->
                                   [row |-> filled[i],
                                    cells |-> [c \in Columns |->
                                        cell(header, rows[filled[i]], c)]]]]

CsvKeepsTest == TestComesBack /\ FileComesBack

(* A row of a spreadsheet goes to the section it names, which is created if  *)
(* the test has none of that name.                                           *)
RowsGoByName ==
    At("test") =>
        \A name \in Names :
            LET row == [section |-> name, media |-> [file |-> None, asset |-> None]]
                then == importRows(work.test, work.library, <<row>>, "append")
            IN  then.sections[Last(then.questions).section] = name

=============================================================================
