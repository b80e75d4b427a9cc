------------------------------- MODULE Editor -------------------------------
(***************************************************************************)
(* The structure of one test while several admins change it:               *)
(* QuestionsService, AssessmentsService.update(), the document import that  *)
(* replaces a test, and MediaService.                                       *)
(*                                                                         *)
(* Every operation reads the whole test (content()), checks, and writes    *)
(* what it worked out from that read.  The write is one statement, or a    *)
(* READ COMMITTED transaction: a bulk statement picks the rows it sees     *)
(* when it is issued, waits for those another transaction holds, and       *)
(* skips the ones that are gone by then.                                   *)
(*                                                                         *)
(* A call is one request.  The initial state is any sound test, so pairs   *)
(* of calls start from wherever earlier calls have brought it.  Rows are   *)
(* named by their maker: <<c, i>> is the i-th question call c inserts,     *)
(* <<c, n>> its section called n, c itself the option it adds.  A place is *)
(* a question's `order`; `fits` is the scoring method its type goes with.  *)
(* A row a foreign key misses makes the statement fail, as Drop does.      *)
(***************************************************************************)
EXTENDS Integers, Sequences, FiniteSets, FiniteSetsExt, Functions, TLC

CONSTANTS
    Calls,        \* requests
    Old,          \* questions the test may start with
    Uploaded,     \* files the server starts with
    Given,        \* the options a question starts with
    Minimums,     \* minimums of score bands
    Names,        \* section names, which ignore case
    Methods,      \* CORRECT_ANSWER and ALIGNMENT
    MaxQuestions,
    MaxSections,
    MaxRows,      \* bound: the questions of one imported file
    MaxPlace      \* bound: the places the test starts with

ASSUME BoundsAssumption ==
    /\ MaxQuestions \in Nat \ {0} /\ MaxSections \in Nat \ {0}
    /\ MaxRows \in 1..MaxQuestions /\ MaxPlace \in Nat

ASSUME NamesAssumption ==
    /\ IsFiniteSet(Calls) /\ Calls # {} /\ IsFiniteSet(Old) /\ IsFiniteSet(Names)
    /\ Uploaded \cap Calls = {}

VARIABLES
    method,     \* assessments.scoringMethod
    questions,  \* the questions there are: place, kind and options
    sections,   \* the sections there are: their names
    bands,      \* the score bands there are: their minimums
    media,      \* uploaded files: the stored bytes, and the records
    calls

test == <<method, questions, sections, bands, media>>
vars == <<method, questions, sections, bands, media, calls>>

-----------------------------------------------------------------------------
(* Rows, calls and the initial state.                                       *)

Qids == Old \cup (Calls \X (1..MaxRows))
Bids == Minimums \cup (Calls \X Minimums)
Sids == Names \cup (Calls \X Names)
Oids == Given \cup Calls

\* History: `meant` is the set of options the question's last save sent.
Question == [order : Nat, fits : Methods, options : SUBSET Oids, meant : SUBSET Oids]

Fresh == [order |-> 0, fits |-> method, options |-> Given, meant |-> Given]

\* A test as the checks want it: one kind of question, every place, section
\* name and band minimum taken once, and within the limits.
Sound ==
    /\ \A q \in DOMAIN questions : questions[q].fits = method
    /\ \A p, q \in DOMAIN questions : questions[p].order = questions[q].order => p = q
    /\ IsInjective(sections) /\ IsInjective(bands)
    /\ Cardinality(DOMAIN questions) <= MaxQuestions
    /\ Cardinality(DOMAIN sections) <= MaxSections

\* want: the rows the running statement picked; held: the rows written or
\* deleted, locked until the transaction ends.  alone: nothing was written
\* between the call's read and now.
Waiting == [pc |-> "new"]
Done    == [pc |-> "done"]
Planned(op, arg) ==
    [pc |-> "checked", op |-> op, arg |-> arg, alone |-> TRUE, want |-> {}, held |-> {}]

Init ==
    /\ method \in Methods
    /\ \E S \in SUBSET Old : \E place \in Injection(S, 0..MaxPlace) :
          questions = [q \in S |-> [Fresh EXCEPT !.order = place[q]]]
    /\ \E S \in SUBSET Names : sections = [n \in S |-> n]
    /\ bands = [m \in Minimums |-> m]
    /\ media = [files |-> Uploaded, records |-> Uploaded]
    /\ calls = [c \in Calls |-> Waiting]
    /\ Sound

InFlight(c) == calls[c].pc \notin {"new", "done"}
At(c, op, pc) == InFlight(c) /\ calls[c].op = op /\ calls[c].pc = pc

\* The end of a call: its answer, or an error that leaves the test alone.
Commit(c) ==
    calls' = [d \in Calls |->
                IF d = c THEN Done
                ELSE IF InFlight(d) THEN [calls[d] EXCEPT !.alone = FALSE] ELSE calls[d]]
Fail(c) == calls' = [calls EXCEPT ![c] = Done] /\ UNCHANGED test

\* content() and the checks; arg is what the write needs from them.
Check(c, op, arg) ==
    /\ calls[c].pc = "new"
    /\ calls' = [calls EXCEPT ![c] = Planned(op, arg)]
    /\ UNCHANGED test

\* A table and the rows inserted into it.
Insert(rows, table) ==
    [r \in DOMAIN rows \cup DOMAIN table |->
       IF r \in DOMAIN rows THEN rows[r] ELSE table[r]]

Free(c, rows) ==
    \A d \in Calls \ {c} : InFlight(d) => calls[d].held \cap rows = {}

\* A bulk statement: the rows it picks, and the moment it has them.
Issue(c, pc, rows) ==
    /\ calls' = [calls EXCEPT ![c].pc = pc, ![c].want = rows]
    /\ UNCHANGED test
Lock(c, pc, rows) ==
    /\ Free(c, rows)
    /\ calls' = [calls EXCEPT ![c].pc = pc, ![c].held = @ \cup rows, ![c].want = {}]
    /\ UNCHANGED test

-----------------------------------------------------------------------------
(* Sections.                                                                *)

SectionCount == Cardinality(DOMAIN sections)

assertSectionNameFree(name, except) ==
    \A s \in DOMAIN sections \ except : sections[s] # name

createSection(c) ==
    \E n \in Names :
        /\ SectionCount < MaxSections
        /\ assertSectionNameFree(n, {})
        /\ Check(c, "createSection", [names |-> {n}])

NewSections(c, names) == [s \in {c} \X names |-> s[2]]

InsertSection(c) ==
    /\ At(c, "createSection", "checked")
    /\ sections' = Insert(NewSections(c, calls[c].arg.names), sections)
    /\ Commit(c)
    /\ UNCHANGED <<method, questions, bands, media>>

updateSection(c) ==
    \E s \in DOMAIN sections : \E n \in Names :
        /\ assertSectionNameFree(n, {s})
        /\ Check(c, "updateSection", [section |-> s, name |-> n])

RenameSection(c) ==
    /\ At(c, "updateSection", "checked")
    /\ LET a == calls[c].arg IN
       /\ Free(c, {a.section})
       /\ IF a.section \in DOMAIN sections
            THEN /\ sections' = [sections EXCEPT ![a.section] = a.name]
                 /\ Commit(c)
                 /\ UNCHANGED <<method, questions, bands, media>>
            ELSE Fail(c)

removeSection(c) ==
    \E s \in DOMAIN sections : Check(c, "removeSection", [section |-> s])

DeleteSection(c) ==
    /\ At(c, "removeSection", "checked")
    /\ LET s == calls[c].arg.section IN
       /\ Free(c, {s})
       /\ IF s \in DOMAIN sections
            THEN /\ sections' = Restrict(sections, DOMAIN sections \ {s})
                 /\ Commit(c)
                 /\ UNCHANGED <<method, questions, bands, media>>
            ELSE Fail(c)

-----------------------------------------------------------------------------
(* Questions.                                                               *)

Count == Cardinality(DOMAIN questions)

\* Mutant: the next place is the number of questions.
nextOrderCounted == Count

nextOrder ==
    IF Count = 0 THEN 0 ELSE 1 + Max({questions[q].order : q \in DOMAIN questions})

\* The questions call c inserts from place `at` on.
NewQuestions(c, rows, at, fits) ==
    [q \in {c} \X (1..rows) |-> [Fresh EXCEPT !.order = at + q[2] - 1, !.fits = fits]]

createQuestion(c) ==
    /\ Count < MaxQuestions
    /\ Check(c, "createQuestion", [at |-> nextOrder, fits |-> method])

InsertQuestion(c) ==
    /\ At(c, "createQuestion", "checked")
    /\ LET a == calls[c].arg IN
       questions' = Insert(NewQuestions(c, 1, a.at, a.fits), questions)
    /\ Commit(c)
    /\ UNCHANGED <<method, sections, bands, media>>

\* The options sent with an id the question had are kept, `added` are new.
updateQuestion(c) ==
    \E q \in DOMAIN questions : \E kept \in SUBSET questions[q].options :
    \E added \in SUBSET {c} :
        /\ kept \cup added # {}
        /\ Check(c, "updateQuestion",
                 [q |-> q, kept |-> kept, added |-> added, fits |-> method,
                  known |-> questions[q].options, left |-> {}])

\* question.update: the row is this transaction's until it ends.
WriteQuestion(c) ==
    /\ At(c, "updateQuestion", "checked")
    /\ LET a == calls[c].arg IN
       IF a.q \in DOMAIN questions THEN Lock(c, "held", {a.q})
       ELSE Free(c, {a.q}) /\ Fail(c)

\* Mutant: only the options the call had read are deleted.
OthersKnown(c) == calls[c].arg.known \ calls[c].arg.kept

\* The options that aren't kept, whether the call had read them or not.
Others(c) == questions[calls[c].arg.q].options \ calls[c].arg.kept

DeleteOptions(c) ==
    /\ At(c, "updateQuestion", "held")
    /\ calls' = [calls EXCEPT ![c].pc = "deleted",
                              ![c].arg.left = questions[calls[c].arg.q].options \ Others(c)]
    /\ UNCHANGED test

\* A kept option that is gone fails its update, and the transaction with it.
WriteOptions(c) ==
    /\ At(c, "updateQuestion", "deleted")
    /\ LET a == calls[c].arg IN
       IF a.kept \subseteq a.left
         THEN /\ questions' = [questions EXCEPT ![a.q].fits = a.fits,
                                 ![a.q].options = a.left \cup a.added,
                                 ![a.q].meant = a.kept \cup a.added]
              /\ Commit(c)
              /\ UNCHANGED <<method, sections, bands, media>>
         ELSE Fail(c)

duplicateQuestion(c) ==
    \E q \in DOMAIN questions :
        /\ Count < MaxQuestions
        /\ Check(c, "duplicateQuestion",
                 [at |-> questions[q].order, fits |-> questions[q].fits])

Later(rows, at) == {q \in rows \cap DOMAIN questions : questions[q].order > at}

IssueShift(c) ==
    /\ At(c, "duplicateQuestion", "checked")
    /\ Issue(c, "issued", Later(DOMAIN questions, calls[c].arg.at))

\* A row that changed while the statement waited is looked at again.
LockShift(c) ==
    /\ At(c, "duplicateQuestion", "issued")
    /\ Free(c, calls[c].want)
    /\ Lock(c, "held", Later(calls[c].want, calls[c].arg.at))

InsertCopy(c) ==
    /\ At(c, "duplicateQuestion", "held")
    /\ LET a == calls[c].arg
           shifted == [q \in DOMAIN questions |->
                         IF q \in calls[c].held
                           THEN [questions[q] EXCEPT !.order = @ + 1] ELSE questions[q]]
       IN  questions' = Insert(NewQuestions(c, 1, a.at + 1, a.fits), shifted)
    /\ Commit(c)
    /\ UNCHANGED <<method, sections, bands, media>>

removeQuestion(c) ==
    \E q \in DOMAIN questions : Check(c, "removeQuestion", [q |-> q])

DeleteQuestion(c) ==
    /\ At(c, "removeQuestion", "checked")
    /\ LET q == calls[c].arg.q IN
       /\ Free(c, {q})
       /\ IF q \in DOMAIN questions
            THEN /\ questions' = Restrict(questions, DOMAIN questions \ {q})
                 /\ Commit(c)
                 /\ UNCHANGED <<method, sections, bands, media>>
            ELSE Fail(c)

\* assertSameIds: every question once.
reorderQuestions(c) ==
    \E place \in Bijection(DOMAIN questions, 0..(Count - 1)) :
        Check(c, "reorderQuestions", [place |-> place])

WritePlaces(c) ==
    /\ At(c, "reorderQuestions", "checked")
    /\ LET place == calls[c].arg.place IN
       /\ Free(c, DOMAIN place)
       /\ IF DOMAIN place \subseteq DOMAIN questions
            THEN /\ questions' = [q \in DOMAIN questions |->
                        IF q \in DOMAIN place
                          THEN [questions[q] EXCEPT !.order = place[q]] ELSE questions[q]]
                 /\ Commit(c)
                 /\ UNCHANGED <<method, sections, bands, media>>
            ELSE Fail(c)

-----------------------------------------------------------------------------
(* Imports: questions from a CSV file, or a whole test from a document; and  *)
(* the score bands, which are replaced as a whole.  `clears` lists the       *)
(* tables the transaction still has to empty.                                *)

\* The sections a file names that the test lacks.
Missing(names) == names \ Range(sections)

\* Mutant: a file is counted without the questions it is added to.
TotalOfFile(rows, replace) == rows

questionTotal(rows, replace) == (IF replace THEN 0 ELSE Count) + rows

importCsv(c) ==
    \E rows \in 1..MaxRows, names \in SUBSET Names, replace \in BOOLEAN :
        /\ questionTotal(rows, replace) <= MaxQuestions
        /\ SectionCount + Cardinality(Missing(names)) <= MaxSections
        /\ Check(c, "import",
                 [rows |-> rows, names |-> Missing(names), bands |-> {},
                  fits |-> method, at |-> IF replace THEN 0 ELSE nextOrder,
                  clears |-> IF replace THEN <<"questions">> ELSE <<>>])

\* AssessmentImportService.replace(), run by the seed command.
replaceDocument(c) ==
    \E m \in Methods, rows \in 1..MaxRows, names \in SUBSET Names, mins \in SUBSET Minimums :
        /\ Cardinality(names) <= MaxSections
        /\ Check(c, "document",
                 [rows |-> rows, names |-> names, bands |-> mins, fits |-> m, at |-> 0,
                  clears |-> <<"questions", "sections", "bands">>])

\* It reads nothing of the test but that it is there.
replaceBands(c) ==
    \E mins \in SUBSET Minimums :
        Check(c, "bands", [rows |-> 0, names |-> {}, bands |-> mins, fits |-> method,
                           at |-> 0, clears |-> <<"bands">>])

RowsOf(table) ==
    CASE table = "questions" -> DOMAIN questions
      [] table = "sections"  -> DOMAIN sections
      [] table = "bands"     -> DOMAIN bands

Writes(c, pc) ==
    InFlight(c) /\ calls[c].op \in {"import", "document", "bands"} /\ calls[c].pc = pc

IssueClear(c) ==
    /\ Writes(c, "checked")
    /\ calls[c].arg.clears # <<>>
    /\ Issue(c, "issued", RowsOf(Head(calls[c].arg.clears)))

LockClear(c) ==
    /\ Writes(c, "issued")
    /\ Free(c, calls[c].want)
    /\ LET clears == calls[c].arg.clears IN
       calls' = [calls EXCEPT ![c].pc = "checked", ![c].want = {},
                   ![c].held = @ \cup (calls[c].want \cap RowsOf(Head(clears))),
                   ![c].arg.clears = Tail(clears)]
    /\ UNCHANGED test

\* What the transaction leaves of a table.
Kept(c, table) == Restrict(table, DOMAIN table \ calls[c].held)

CommitImport(c) ==
    /\ Writes(c, "checked")
    /\ calls[c].arg.clears = <<>>
    /\ LET a == calls[c].arg IN
       /\ questions' = Insert(NewQuestions(c, a.rows, a.at, a.fits), Kept(c, questions))
       /\ sections' = Insert(NewSections(c, a.names), Kept(c, sections))
       /\ bands' = Insert([b \in {c} \X a.bands |-> b[2]], Kept(c, bands))
       /\ method' = IF calls[c].op = "document" THEN a.fits ELSE method
    /\ Commit(c)
    /\ UNCHANGED media

-----------------------------------------------------------------------------
(* Uploaded files: bytes in the storage folder, details in media_assets.     *)

Store(f, r) ==
    /\ media' = [files |-> f, records |-> r]
    /\ UNCHANGED <<method, questions, sections, bands>>

upload(c) ==
    /\ calls[c].pc = "new"
    /\ calls' = [calls EXCEPT ![c] = Planned("upload", <<>>)]
    /\ Store(media.files \cup {c}, media.records)

RecordUpload(c) ==
    /\ At(c, "upload", "checked")
    /\ Store(media.files, media.records \cup {c})
    /\ Commit(c)

\* The record couldn't be written: its file goes, if that works.
UndoUpload(c) ==
    /\ At(c, "upload", "checked")
    /\ Store(media.files \ {c}, media.records)
    /\ calls' = [calls EXCEPT ![c] = Done]

removeMedia(c) ==
    \E f \in media.records : Check(c, "removeMedia", [file |-> f])

\* Mutant: the file goes first.
FirstTheFile(f) == Store(media.files \ {f}, media.records)

\* The first of the two statements of a removal.
First(f) == Store(media.files, media.records \ {f})

DeleteRecord(c) ==
    /\ At(c, "removeMedia", "checked")
    /\ LET f == calls[c].arg.file IN
       IF f \in media.records
         THEN First(f) /\ calls' = [calls EXCEPT ![c].pc = "recordGone"]
         ELSE Fail(c)

DeleteFile(c) ==
    /\ At(c, "removeMedia", "recordGone")
    /\ Store(media.files \ {calls[c].arg.file}, media.records)
    /\ Commit(c)

-----------------------------------------------------------------------------
(* Settings.                                                                *)

update(c) ==
    \E m \in Methods \ {method} :
        /\ \A q \in DOMAIN questions : questions[q].fits = m
        /\ Check(c, "update", [method |-> m])

WriteSettings(c) ==
    /\ At(c, "update", "checked")
    /\ method' = calls[c].arg.method
    /\ Commit(c)
    /\ UNCHANGED <<questions, sections, bands, media>>

\* A statement fails (or its transaction is the victim of a deadlock), or the
\* process stops: the transaction is rolled back.
Drop(c) == InFlight(c) /\ Fail(c)

Handler(c) ==
    \/ createSection(c) \/ InsertSection(c) \/ updateSection(c) \/ RenameSection(c)
    \/ removeSection(c) \/ DeleteSection(c)
    \/ createQuestion(c) \/ InsertQuestion(c)
    \/ updateQuestion(c) \/ WriteQuestion(c) \/ DeleteOptions(c) \/ WriteOptions(c)
    \/ duplicateQuestion(c) \/ IssueShift(c) \/ LockShift(c) \/ InsertCopy(c)
    \/ removeQuestion(c) \/ DeleteQuestion(c) \/ reorderQuestions(c) \/ WritePlaces(c)
    \/ importCsv(c) \/ replaceDocument(c) \/ replaceBands(c)
    \/ IssueClear(c) \/ LockClear(c) \/ CommitImport(c)
    \/ upload(c) \/ RecordUpload(c) \/ UndoUpload(c)
    \/ removeMedia(c) \/ DeleteRecord(c) \/ DeleteFile(c)
    \/ update(c) \/ WriteSettings(c)

Next == \E c \in Calls : Handler(c) \/ Drop(c)

Spec == Init /\ [][Next]_vars

-----------------------------------------------------------------------------
(* Properties.                                                              *)

\* Places are numbers from 0, and every row has the columns its table has.
TypeOK ==
    /\ method \in Methods
    /\ DOMAIN questions \subseteq Qids
    /\ \A q \in DOMAIN questions : questions[q] \in Question
    /\ DOMAIN sections \subseteq Sids
    /\ \A s \in DOMAIN sections : sections[s] \in Names
    /\ DOMAIN bands \subseteq Bids
    /\ \A b \in DOMAIN bands : bands[b] \in Minimums
    /\ media \in [{"files", "records"} -> SUBSET (Uploaded \cup Calls)]
    /\ \A c \in Calls : InFlight(c) => calls[c].held \subseteq Qids \cup Sids \cup Bids

\* The checks are enough for one admin: a call nobody wrote in between keeps a
\* sound test sound, from whatever sound test earlier calls have left.
KeepsSound ==
    [][\A c \in Calls :
         (InFlight(c) /\ calls[c].alone /\ calls'[c] = Done /\ Sound) => Sound']_vars

\* "Replaces a question. Options sent with an id keep it; options without one
\* are new; options left out are deleted" (updateQuestion): whatever other
\* saves do meanwhile, a question has the options of one save, its last.
OptionsAreOneSave ==
    \A q \in DOMAIN questions : questions[q].options = questions[q].meant

\* The limits are checked on a read: calls that overlap pass them, by no more
\* than what all but one of them add.
LimitsNearlyHold ==
    LET others == Cardinality(Calls) - 1 IN
    /\ Count <= MaxQuestions + others * MaxRows
    /\ SectionCount <= MaxSections + others * Cardinality(Names)

\* "Deletes the record, then the file": a record's file is there, whatever
\* fails or crashes on the way; at worst a file has no record.  (That the
\* database takes a record and its reply is lost is not modelled: upload() would
\* remove the file then.)
RecordsHaveFiles == media.records \subseteq media.files

=============================================================================
