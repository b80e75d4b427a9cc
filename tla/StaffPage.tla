------------------------------ MODULE StaffPage ------------------------------
(***************************************************************************)
(* An admin's tab: the editor of one test and the library, over the        *)
(* browser's query cache.  Every change answers with the whole test, and   *)
(* the answer replaces the cached copy; forms keep what was typed until it *)
(* is saved.  Calls overlap, their answers arrive in any order or are      *)
(* lost, and another admin edits the same test.                            *)
(*                                                                         *)
(* Editor models what the server does with a call in detail; here a        *)
(* request is served in one step.                                          *)
(***************************************************************************)
EXTENDS Integers, FiniteSets, SequencesExt

CONSTANTS
    Ids,       \* of questions
    Edited,    \* the question whose form may be open
    Fit,       \* its field on the role profile tab
    FieldsOf,  \* the fields of each form
    Values,
    Method,    \* the setting that says how the test is scored
    Alignment, \* its value that takes the sections' weights
    Place,     \* the field that says whether the question is in the section
    Sections,  \* what the test has of sections: one, or
    NoSection, \* none
    Files,     \* to import
    Errands,   \* bound: what is done in one visit: its operations, the fields
               \* anybody changes, how many keystrokes and calls
    MaxOthers, \* bound: so many changes by another admin
    None

Forms  == DOMAIN FieldsOf
Fields == UNION Range(FieldsOf)
Cells  == Fields \cup {Sections}

ASSUME StaffPageAssumption ==
    /\ {"settings", "question"} \subseteq Forms
    /\ Forms \subseteq {"settings", "bands", "weights", "section", "question"}
    /\ \A f, g \in Forms : f # g => FieldsOf[f] \cap FieldsOf[g] = {}
    /\ \A f \in Forms : IsFiniteSet(FieldsOf[f]) /\ FieldsOf[f] # {}
    /\ Edited \in Ids /\ Ids # {Edited} /\ Fit \in FieldsOf["question"]
    /\ Method \in FieldsOf["settings"] /\ Place \in FieldsOf["question"] /\ Sections \notin Fields
    /\ Alignment \in Values /\ NoSection \in Values /\ MaxOthers \in Nat

VARIABLES
    errand,
    test,      \* server
    version,   \* server: writes so far
    page,      \* the cached test
    list,      \* the cached library row of this test
    listStale,
    screen,    \* "editor", "failed", "library" or "login"
    open,      \* the forms of the screen; one is mounted while the page has its place
    filter,    \* the questions listed
    draft,     \* what each field of a mounted form holds
    filled,    \* what the field was filled with, or last saved as
    owner,     \* each form's latest save since it was mounted
    dialog,    \* CsvImport
    calls,     \* every request the tab has made
    onTop,     \* the last move, while nothing else was written to the page
    typed,     \* history: fields typed in since they were filled or saved
    wanted,    \* history: values typed that the page hasn't shown as saved
    seen,      \* history: the newest version an answer showed
    missed,    \* history: what the page can't know of
    listMissed,
    count      \* of keystrokes and of other admins' changes

server == <<test, version>>
cache  == <<page, onTop, seen, missed>>
forms  == <<open, filter, draft, filled, owner, typed, wanted>>
lists  == <<list, listStale, listMissed>>
vars   == <<errand, server, cache, forms, lists, screen, dialog, calls, count>>

\* Each question stands once.
Orders == {o \in Seq(Ids) : IsInjective(o)}
Tests  == [order : Orders, is : [Cells -> Values]]

ASSUME NoneAssumption == None \notin Values \cup Files /\ None \notin Tests

\* How each form behaves: whether it is there as long as the editor is, whether
\* it compares its fields with the page or with what it was opened with, what a
\* save sends, whether the next save waits for it, and what its answer does.
SettingsTab  == [there |-> TRUE, against |-> "page", sends |-> "changes", waits |-> TRUE, then |-> "fill"]
BandsForm    == [there |-> TRUE, against |-> "page", sends |-> "all", waits |-> TRUE, then |-> "fill"]
WeightsForm  == [there |-> TRUE, against |-> "page", sends |-> "changes, one by one", waits |-> TRUE, then |-> "keep"]
SectionRow   == [there |-> FALSE, against |-> "page", sends |-> "all", waits |-> TRUE, then |-> "keep"]
\* The keyboard sends it again while it is being saved.
QuestionForm == [there |-> FALSE, against |-> "opened", sends |-> "all", waits |-> FALSE, then |-> "close"]

Form == [settings |-> SettingsTab, bands |-> BandsForm, weights |-> WeightsForm,
         section |-> SectionRow, question |-> QuestionForm]

AlwaysThere == {f \in Forms : Form[f].there}  \* KEEP_MOUNTED

HasSections(t) == t.is[Sections] # NoSection

Filters == {"all", "section", "no section"}

\* A section that is gone is no filter.
Listed(t, flt) ==
    /\ Edited \in Range(t.order)
    /\ \/ flt = "all"
       \/ flt = "section" /\ (t.is[Place] # NoSection \/ ~HasSections(t))
       \/ flt = "no section" /\ t.is[Place] = NoSection

\* Whether the page, showing test t, has a place for the form.
Has(f, t, flt) ==
    /\ f = "weights" => t.is[Method] = Alignment /\ HasSections(t)
    /\ f = "section" => HasSections(t)
    /\ f = "question" => Listed(t, flt)

NoDialog == [open |-> FALSE, file |-> None, mode |-> "append", checked |-> "no", check |-> 0, commit |-> 0]

Summary(t) == [count |-> Len(t.order), is |-> [x \in FieldsOf["settings"] |-> t.is[x]]]

FormOf(x) == CHOOSE f \in Forms : x \in FieldsOf[f]
Mounted(f) == \A x \in FieldsOf[f] : draft[x] # None

Init ==
    /\ errand \in Errands
    /\ test \in {[order |-> o, is |-> v] :
            o \in {<<Edited, q>> : q \in {CHOOSE q \in Ids : q # Edited}},
            v \in {[x \in Cells |-> CHOOSE w \in Values : TRUE]}}
    /\ version = 0
    /\ page = test /\ onTop = 0 /\ seen = 0 /\ missed = {}
    /\ list = Summary(test) /\ listStale = FALSE /\ listMissed = FALSE
    /\ screen = "editor"
    /\ open = AlwaysThere /\ filter = "all"
    /\ draft = [x \in Fields |->
          IF FormOf(x) \in AlwaysThere /\ Has(FormOf(x), test, "all") THEN test.is[x] ELSE None]
    /\ filled = draft
    /\ owner = [f \in Forms |-> 0]
    /\ typed = {} /\ wanted = [x \in Fields |-> None]
    /\ dialog = NoDialog
    /\ calls = <<>>
    /\ count = [typed |-> 0, others |-> 0]

-----------------------------------------------------------------------------
(* Calls.                                                                   *)

UnderWay(n) == calls[n].state # "over"
Moves == {n \in DOMAIN calls : calls[n].op = "move" /\ UnderWay(n)}
Quiet == \A n \in DOMAIN calls : ~UnderWay(n)
Pending(n) == n # 0 /\ UnderWay(n)

\* A mutation or a query: "sent", served and on its way "back", or "over".
NewCall(op) ==
    [op |-> op, state |-> "sent", form |-> None, todo |-> <<>>, sent |-> <<>>, ids |-> <<>>,
     prev |-> None, file |-> None, mode |-> None, got |-> None, at |-> 0, late |-> FALSE, ready |-> FALSE]

\* Only what a file was found to be is remembered.
Ended(c) ==
    IF c.op \in {"check", "import"}
    THEN [c EXCEPT !.state = "over", !.got = None, !.at = 0]
    ELSE [NewCall(c.op) EXCEPT !.state = "over"]

Call(c) == c.op \in errand.ops /\ Len(calls) < errand.calls /\ calls' = Append(calls, c)
End(n)  == calls' = [calls EXCEPT ![n] = Ended(@)]

-----------------------------------------------------------------------------
(* The page: what a write to the cache does to the forms on it.             *)

FieldsIn(fs) == UNION {FieldsOf[f] : f \in fs}

GiveUp(fs) == wanted' = [x \in Fields |-> IF x \in FieldsIn(fs) THEN None ELSE wanted[x]]

\* The screen goes, and every form with it.
Unmount ==
    /\ open' = {} /\ filter' = "all"
    /\ draft' = [x \in Fields |-> None] /\ filled' = draft'
    /\ typed' = {} /\ owner' = [f \in Forms |-> 0]

\* The page shows test t with the forms of "on" that it has a place for: what
\* they hold stays, except that those of "refill" and those that weren't
\* mounted are filled from t.  The fields of "saved" are as they were saved.
Display(t, on, flt, refill, saved) ==
    LET there == {f \in on : Has(f, t, flt)}
        new   == {f \in there : f \in refill \/ ~Mounted(f)}
        stay  == FieldsIn(there \ new)
    IN  /\ open' = on /\ filter' = flt
        /\ draft'  = [x \in Fields |->
              IF x \in stay THEN draft[x] ELSE IF x \in FieldsIn(new) THEN t.is[x] ELSE None]
        /\ filled' = [x \in Fields |->
              IF x \in stay THEN IF x \in DOMAIN saved THEN saved[x] ELSE filled[x] ELSE draft'[x]]
        /\ typed'  = (typed \cap stay) \ {x \in DOMAIN saved : draft[x] = saved[x]}
        /\ owner'  = [f \in Forms |-> IF f \in there /\ Mounted(f) THEN owner[f] ELSE 0]

\* Another choice of forms or questions, on the same page.
Redisplay(on, flt, refill) == Display(page, on, flt, refill, <<>>) /\ UNCHANGED <<cache, screen>>

\* The answer t is written to the cache, which ends a failure; it closes the
\* forms of "close".
Show(t, refill, close, saved) ==
    /\ page' = t
    /\ Display(t, (IF screen = "failed" THEN AlwaysThere ELSE open) \ close, filter, refill, saved)
    /\ wanted' = [x \in Fields |->
          IF t.is[x] = wanted[x] \/ draft[x] = None THEN None ELSE wanted[x]]
    /\ screen' = IF screen = "failed" THEN "editor" ELSE screen

ShowOnly(t) == Show(t, {}, {}, <<>>)

\* What the answer of call n, if it is shown, says about the server.
Learn(n, shown) ==
    /\ seen' = IF calls[n].at > seen THEN calls[n].at ELSE seen
    /\ missed' = IF shown /\ calls[n].at = version THEN {}
                 ELSE IF calls[n].at < seen \/ calls[n].late THEN missed \cup {"crossed"} ELSE missed

-----------------------------------------------------------------------------
(* Forms.                                                                   *)

\* Nothing is disabled while a save is under way.
Type(x, v) ==
    /\ screen = "editor" /\ draft[x] \notin {None, v}
    /\ x \in errand.fields /\ count.typed < errand.typed
    /\ draft' = [draft EXCEPT ![x] = v]
    /\ typed' = typed \cup {x}
    /\ wanted' = [wanted EXCEPT ![x] =
            IF v = page.is[x] \/ Pending(owner[FormOf(x)]) THEN None ELSE v]
    /\ count' = [count EXCEPT !.typed = @ + 1]
    /\ UNCHANGED <<server, cache, lists, screen, open, filter, filled, owner, dialog, calls>>

\* Discard, or Undo of a section.
Discard(f) ==
    /\ screen = "editor" /\ Mounted(f) /\ f # "question"
    /\ Form[f].there => ~Pending(owner[f])
    /\ typed \cap FieldsOf[f] # {}
    /\ Redisplay(open, filter, {f}) /\ GiveUp({f})
    /\ UNCHANGED <<server, lists, dialog, calls, count>>

\* A question's form, or the sheet of sections.
Open(f) ==
    /\ screen = "editor" /\ f \in Forms \ (AlwaysThere \cup open) /\ Has(f, page, filter)
    /\ FieldsOf[f] \cap errand.fields # {}
    /\ Redisplay(open \cup {f}, filter, {})
    /\ UNCHANGED <<server, lists, wanted, dialog, calls, count>>

\* Other questions are listed.  The form of one that isn't goes, and what was
\* typed in it.
Filter(flt) ==
    /\ screen = "editor" /\ "filter" \in errand.ops /\ HasSections(page) /\ flt # filter
    /\ Redisplay(open, flt, {}) /\ GiveUp({f \in Forms : ~Mounted(f)})
    /\ UNCHANGED <<server, lists, dialog, calls, count>>

Changed(f) == {x \in FieldsOf[f] : draft[x] # page.is[x]}

Dirty(f) ==
    IF Form[f].against = "opened" THEN \E x \in FieldsOf[f] : draft[x] # filled[x] ELSE Changed(f) # {}

\* Cancel waits for a save of the question; saving it unchanged closes it too.
\* A sheet without its section closes as well.
Close(f) ==
    /\ screen = "editor" /\ f \in open \ AlwaysThere /\ (f = "question" => Mounted(f))
    /\ f = "question" => ~Pending(owner[f]) \/ ~Dirty(f)
    /\ Redisplay(open \ {f}, filter, {}) /\ GiveUp({f})
    /\ UNCHANGED <<server, lists, dialog, calls, count>>

ToSend(f) == IF Form[f].sends = "all" THEN FieldsOf[f] ELSE Changed(f)

Patch(xs) == [x \in xs |-> draft[x]]

Requests(f) ==
    IF Form[f].sends = "changes, one by one"
    THEN LET xs == SetToSeq(ToSend(f)) IN [i \in DOMAIN xs |-> Patch({xs[i]})]
    ELSE <<Patch(ToSend(f))>>

Save(f) ==
    /\ screen = "editor" /\ Mounted(f) /\ Dirty(f)
    /\ Form[f].waits => ~Pending(owner[f])
    /\ Call([NewCall("save") EXCEPT !.form = f, !.todo = Requests(f), !.sent = Patch(ToSend(f))])
    /\ owner' = [owner EXCEPT ![f] = Len(calls')]
    /\ UNCHANGED <<server, cache, lists, screen, open, filter, draft, filled, typed, wanted, dialog, count>>

SendPatch(p) == Call([NewCall("save") EXCEPT !.todo = <<p>>, !.sent = p])

\* The role profile sends the whole question, as the page has it.
Pick(v) ==
    /\ screen = "editor" /\ Fit \in errand.fields /\ Edited \in Range(page.order)
    /\ page.is[Method] = Alignment /\ page.is[Fit] # v
    /\ SendPatch([x \in FieldsOf["question"] |-> IF x = Fit THEN v ELSE page.is[x]])
    /\ UNCHANGED <<server, cache, forms, lists, screen, dialog, count>>

\* The header's status, or the library's menu.
SetStatus(x, v) ==
    /\ screen \in {"editor", "library"} /\ x \in (FieldsOf["settings"] \ {Method}) \cap errand.fields
    /\ (IF screen = "editor" THEN page ELSE list).is[x] # v
    /\ SendPatch([y \in {x} |-> v])
    /\ UNCHANGED <<server, cache, forms, lists, screen, dialog, count>>

\* The section is deleted, from its row.
DeleteSection ==
    /\ screen = "editor" /\ Sections \in errand.fields /\ HasSections(page)
    /\ SendPatch([y \in {Sections} |-> NoSection])
    /\ UNCHANGED <<server, cache, forms, lists, screen, dialog, count>>

\* Deletes a question that is listed; its form isn't open then.
Drop(q) ==
    /\ screen = "editor" /\ q \in Range(page.order)
    /\ q = Edited => Listed(page, filter) /\ "question" \notin open
    /\ Call([NewCall("drop") EXCEPT !.ids = <<q>>])
    /\ UNCHANGED <<server, cache, forms, lists, screen, dialog, count>>

-----------------------------------------------------------------------------
(* Moves show at once.                                                      *)

\* Any two questions that are listed.  The reads under way are cancelled.
Swapped(s, i, j) == [s EXCEPT ![i] = s[j], ![j] = s[i]]

Move(i, j) ==
    LET ids == Swapped(page.order, i, j) IN
    /\ screen = "editor" /\ i < j
    /\ Edited \in {page.order[i], page.order[j]} => Listed(page, filter)
    /\ "move" \in errand.ops /\ Len(calls) < errand.calls
    /\ calls' = Append([n \in DOMAIN calls |->
                           IF calls[n].op = "read" THEN Ended(calls[n]) ELSE calls[n]],
                       [NewCall("move") EXCEPT !.ids = ids, !.prev = page,
                                               !.late = Moves # {} /\ onTop \notin Moves])
    /\ page' = [page EXCEPT !.order = ids]
    /\ onTop' = Len(calls')
    /\ UNCHANGED <<server, forms, lists, screen, seen, missed, dialog, count>>

-----------------------------------------------------------------------------
(* Reads and the other screens.                                             *)

\* The window is focused again, or the page failed and is tried again.
Read ==
    /\ screen \in {"editor", "failed"}
    /\ \A n \in DOMAIN calls : calls[n].op # "read" \/ ~UnderWay(n)
    /\ Call(NewCall("read"))
    /\ UNCHANGED <<server, cache, forms, lists, screen, dialog, count>>

ToLibrary ==
    /\ screen \in {"editor", "failed"} /\ "library" \in errand.ops
    /\ screen' = "library"
    /\ Unmount /\ GiveUp(Forms)
    /\ dialog' = NoDialog
    /\ UNCHANGED <<server, cache, lists, calls, count>>

\* A read of the list that is under way when it is invalidated starts anew.
ListRead ==
    /\ screen = "library" /\ listStale
    /\ list' = Summary(test) /\ listStale' = FALSE /\ listMissed' = FALSE
    /\ UNCHANGED <<server, cache, forms, screen, dialog, calls, count>>

ToEditor ==
    /\ screen = "library"
    /\ screen' = "editor"
    /\ Display(page, AlwaysThere, "all", {}, <<>>)
    /\ UNCHANGED <<server, cache, lists, wanted, dialog, calls, count>>

\* Signing in loads the page the tab was on anew.
SignIn ==
    /\ screen = "login"
    /\ screen' = "editor"
    /\ Display(test, AlwaysThere, "all", {}, <<>>) /\ GiveUp(Forms)
    /\ page' = test /\ onTop' = 0 /\ seen' = version /\ missed' = {}
    /\ list' = Summary(test) /\ listMissed' = FALSE /\ listStale' = FALSE
    /\ UNCHANGED <<server, dialog, calls, count>>

-----------------------------------------------------------------------------
(* Importing questions.                                                     *)

OpenDialog ==
    /\ screen = "editor" /\ ~dialog.open /\ "check" \in errand.ops
    /\ dialog' = [NoDialog EXCEPT !.open = TRUE]
    /\ UNCHANGED <<server, cache, forms, lists, screen, calls, count>>

CloseDialog ==
    /\ dialog.open /\ dialog' = NoDialog
    /\ UNCHANGED <<server, cache, forms, lists, screen, calls, count>>

\* runCheck()
Check(file, mode) ==
    /\ Call([NewCall("check") EXCEPT !.file = file, !.mode = mode])
    /\ dialog' = [dialog EXCEPT !.file = file, !.mode = mode, !.checked = "no",
                                !.check = Len(calls'), !.commit = 0]
    /\ UNCHANGED <<server, cache, forms, lists, screen, count>>

Choose(file) == dialog.open /\ Check(file, dialog.mode)

\* No file, or one that is too big to be checked.
ChooseNone ==
    /\ dialog.open /\ dialog.file # None
    /\ dialog' = [dialog EXCEPT !.file = None, !.checked = "no", !.check = 0, !.commit = 0]
    /\ UNCHANGED <<server, cache, forms, lists, screen, calls, count>>

ChangeMode(mode) ==
    /\ dialog.open /\ dialog.mode # mode /\ page.order # <<>>
    /\ IF dialog.file # None
       THEN Check(dialog.file, mode)
       ELSE /\ dialog' = [dialog EXCEPT !.mode = mode, !.commit = 0]
            /\ UNCHANGED <<server, cache, forms, lists, screen, calls, count>>

\* Mutant: any check's answer counts.
AnyAnswer(n) == dialog.open

\* "Only the latest check's answer counts when two overlap."
LatestAnswer(n) == dialog.check = n

Import ==
    /\ dialog.checked = "ready" /\ ~Pending(dialog.commit) /\ ~Pending(dialog.check)
    /\ Call([NewCall("import") EXCEPT !.file = dialog.file, !.mode = dialog.mode])
    /\ dialog' = [dialog EXCEPT !.commit = Len(calls')]
    /\ UNCHANGED <<server, cache, forms, lists, screen, count>>

-----------------------------------------------------------------------------
(* The server, and another admin.                                           *)

\* Served after a later one.
Late(n) == \E m \in DOMAIN calls : m > n /\ calls[m].op = calls[n].op /\ calls[m].state # "sent"

\* Call c answered with test t, as version v.
Replied(c, t, v, late) ==
    [c EXCEPT !.state = "back", !.got = t, !.at = v, !.late = @ \/ late,
              !.todo = IF @ = <<>> THEN @ ELSE Tail(@)]

Serve(n, t) ==
    /\ test' = t
    /\ version' = version + 1
    /\ calls' = [calls EXCEPT ![n] = Replied(@, t, version + 1, Late(n))]
    /\ UNCHANGED <<cache, forms, lists, screen, dialog, count>>

Sent(n, op) == calls[n].state = "sent" /\ calls[n].op = op

\* What is gone can't be changed, nor be a question's section.
Accepts(t, p) ==
    /\ DOMAIN p \cap FieldsOf["question"] # {} => Edited \in Range(t.order)
    /\ DOMAIN p \cap FieldsIn({"weights", "section"} \cap Forms) # {} => HasSections(t)
    /\ Place \in DOMAIN p => p[Place] = NoSection \/ HasSections(t)
    /\ Sections \in DOMAIN p => p[Sections] = NoSection /\ HasSections(t)

\* What test t is once the cells of p are saved: a section takes its name off
\* the questions when it goes.
Written(t, p) ==
    [t EXCEPT !.is = [x \in Cells |->
        IF x \in DOMAIN p THEN p[x] ELSE IF x = Place /\ Sections \in DOMAIN p THEN NoSection ELSE @[x]]]

ServeSave(n) ==
    /\ Sent(n, "save")
    /\ Accepts(test, Head(calls[n].todo))
    /\ Serve(n, Written(test, Head(calls[n].todo)))

ServeMove(n) ==
    /\ Sent(n, "move") /\ Range(calls[n].ids) = Range(test.order)
    /\ Serve(n, [test EXCEPT !.order = calls[n].ids])

ServeDrop(n) ==
    /\ Sent(n, "drop")
    /\ \E i \in DOMAIN test.order :
          test.order[i] = calls[n].ids[1] /\ Serve(n, [test EXCEPT !.order = RemoveAt(@, i)])

ServeImport(n) ==
    /\ Sent(n, "import")
    /\ \E q \in Ids \ Range(test.order) :
          Serve(n, [test EXCEPT !.order = IF calls[n].mode = "append" THEN Append(@, q) ELSE <<q>>])

ServeRead(n) ==
    /\ Sent(n, "read")
    /\ calls' = [calls EXCEPT ![n] = [@ EXCEPT !.state = "back", !.got = test, !.at = version]]
    /\ UNCHANGED <<server, cache, forms, lists, screen, dialog, count>>

ServeCheck(n) ==
    /\ Sent(n, "check")
    /\ \E ok \in BOOLEAN : calls' = [calls EXCEPT ![n] = [@ EXCEPT !.state = "back", !.ready = ok]]
    /\ UNCHANGED <<server, cache, forms, lists, screen, dialog, count>>

OtherAdmin ==
    /\ count.others < MaxOthers
    /\ count' = [count EXCEPT !.others = @ + 1]
    /\ \/ \E x \in errand.fields : \E v \in Values \ {test.is[x]} :
             Accepts(test, [y \in {x} |-> v]) /\ test' = Written(test, [y \in {x} |-> v])
       \/ \E i, j \in DOMAIN test.order : i < j /\ test' = [test EXCEPT !.order = Swapped(@, i, j)]
    /\ version' = version + 1
    /\ missed' = missed \cup {"other"} /\ listMissed' = TRUE
    /\ UNCHANGED <<page, onTop, seen, forms, list, listStale, screen, dialog, calls>>

-----------------------------------------------------------------------------
(* Answers.                                                                 *)

Back(n, op) == calls[n].state = "back" /\ calls[n].op = op

\* The loop over the weights goes on.
SendNext(n) ==
    /\ Back(n, "save") /\ calls[n].todo # <<>>
    /\ calls' = [calls EXCEPT ![n].state = "sent"]
    /\ UNCHANGED <<server, cache, forms, lists, screen, dialog, count>>

\* Mutant: the forms on the page are filled from every answer.
RefillsAll(n) == AlwaysThere

\* What a form does with the answer of its latest save since it was mounted.
AnswerDoes(n, what) == {f \in Forms : owner[f] = n /\ Form[f].then = what}

Refills(n) == AnswerDoes(n, "fill")

\* useAssessmentMutation, and the library's menu.
TakeSave(n) ==
    /\ Back(n, "save") \/ Back(n, "drop")
    /\ calls[n].todo = <<>>
    /\ Show(calls[n].got, Refills(n), AnswerDoes(n, "close"),
            IF AnswerDoes(n, "keep") = {} THEN <<>> ELSE calls[n].sent)
    /\ onTop' = 0
    /\ Learn(n, TRUE)
    /\ listStale' = TRUE
    /\ End(n)
    /\ UNCHANGED <<server, list, listMissed, dialog, count>>

\* Mutant: every answer of a move is written.
AnyMove(n) == TRUE

\* isMutating() === 1
LastMove(n) == Moves = {n}

TakeMove(n) ==
    /\ Back(n, "move")
    /\ IF LastMove(n) THEN ShowOnly(calls[n].got) ELSE UNCHANGED <<page, forms, screen>>
    /\ Learn(n, LastMove(n))
    /\ End(n)
    /\ UNCHANGED <<server, onTop, lists, dialog, count>>

TakeRead(n) ==
    /\ Back(n, "read")
    /\ ShowOnly(calls[n].got)
    /\ onTop' = 0
    /\ Learn(n, TRUE)
    /\ End(n)
    /\ UNCHANGED <<server, lists, dialog, count>>

TakeCheck(n) ==
    /\ Back(n, "check")
    /\ dialog' = IF LatestAnswer(n)
                 THEN [dialog EXCEPT !.checked = IF calls[n].ready THEN "ready" ELSE "problems"]
                 ELSE dialog
    /\ End(n)
    /\ UNCHANGED <<server, cache, forms, lists, screen, count>>

\* Closes the dialog, even one that was opened again.
TakeImport(n) ==
    /\ Back(n, "import")
    /\ ShowOnly(calls[n].got)
    /\ onTop' = 0
    /\ Learn(n, TRUE)
    /\ listStale' = TRUE
    /\ dialog' = NoDialog
    /\ End(n)
    /\ UNCHANGED <<server, list, listMissed, count>>

\* Mutant: a move that failed leaves its order on the page.
KeepMove(n) == page

\* onError of a move.
Rollback(n) == calls[n].prev

\* Refused, or lost on the way there or back.
Fail(n) ==
    /\ UnderWay(n)
    /\ LET op == calls[n].op
           unknown == calls[n].got # None /\ op \notin {"read", "check"}
       IN  /\ IF op = "move" THEN ShowOnly(Rollback(n)) /\ onTop' = 0
              ELSE IF op = "read"
              THEN /\ Unmount
                   /\ screen' = IF screen = "editor" THEN "failed" ELSE screen
                   /\ UNCHANGED <<page, onTop, wanted>>
              ELSE UNCHANGED <<page, onTop, forms, screen>>
           /\ dialog' = IF op = "read" THEN NoDialog ELSE dialog
           /\ missed' = missed \cup (IF unknown THEN {"lost"} ELSE {})
                               \cup (IF op = "move" /\ (onTop # n \/ calls[n].late) THEN {"rollback"} ELSE {})
           /\ listMissed' = (listMissed \/ unknown)
    /\ End(n)
    /\ UNCHANGED <<server, seen, list, listStale, count>>

\* A 401: the tab goes to the sign-in page, whatever was typed.
SessionEnded(n) ==
    /\ calls[n].state = "sent" /\ "session" \in errand.ops
    /\ screen' = "login"
    /\ Unmount
    /\ dialog' = NoDialog
    /\ onTop' = 0
    /\ calls' = [m \in DOMAIN calls |-> Ended(calls[m])]
    /\ UNCHANGED <<server, page, seen, missed, lists, wanted, count>>

Person ==
    \/ \E x \in Fields, v \in Values : Type(x, v) \/ SetStatus(x, v)
    \/ \E f \in Forms : Discard(f) \/ Open(f) \/ Close(f) \/ Save(f)
    \/ \E v \in Values : Pick(v)
    \/ \E flt \in Filters : Filter(flt)
    \/ DeleteSection
    \/ \E q \in Ids : Drop(q)
    \/ \E i, j \in DOMAIN page.order : Move(i, j)
    \/ Read \/ ToLibrary \/ ToEditor \/ SignIn
    \/ OpenDialog \/ CloseDialog \/ ChooseNone \/ Import
    \/ \E file \in Files : Choose(file)
    \/ \E mode \in {"append", "replace"} : ChangeMode(mode)

Server(n) ==
    \/ ServeSave(n) \/ ServeMove(n) \/ ServeDrop(n) \/ ServeImport(n) \/ ServeRead(n) \/ ServeCheck(n)

Answer(n) ==
    \/ SendNext(n) \/ TakeSave(n) \/ TakeMove(n) \/ TakeRead(n) \/ TakeCheck(n) \/ TakeImport(n)
    \/ Fail(n) \/ SessionEnded(n)

Next ==
    /\ \/ Person \/ OtherAdmin \/ ListRead
       \/ \E n \in DOMAIN calls : Server(n) \/ Answer(n)
    /\ UNCHANGED errand

Spec == Init /\ [][Next]_vars

-----------------------------------------------------------------------------
(* Properties.                                                              *)

\* The tab, its cache and its forms are well formed.
TypeOK ==
    /\ test \in Tests /\ page \in Tests /\ version \in Nat /\ seen \in 0 .. version
    /\ listStale \in BOOLEAN /\ listMissed \in BOOLEAN
    /\ screen \in {"editor", "failed", "library", "login"}
    /\ open \in SUBSET Forms /\ filter \in Filters
    /\ draft \in [Fields -> Values \cup {None}] /\ filled \in [Fields -> Values \cup {None}]
    /\ owner \in [Forms -> 0 .. Len(calls)] /\ typed \in SUBSET Fields
    /\ wanted \in [Fields -> Values \cup {None}] /\ onTop \in 0 .. Len(calls)
    /\ missed \in SUBSET {"other", "lost", "crossed", "rollback"}

\* When every call has been answered the page shows the test as the server has
\* it, unless it can't: another admin changed the test, an answer was lost or
\* overtaken by a newer one, or a move failed after something else was shown.
\* "The library list refreshes behind it": so does the library's row.
PageIsTrue ==
    Quiet => /\ missed = {} /\ screen # "login" => page = test
             /\ screen = "library" /\ ~listStale /\ ~listMissed => list = Summary(test)

\* "Moves show at once": while the last move is under way, the answers of
\* earlier ones don't take the page back.
LastMoveShows == (onTop # 0 /\ UnderWay(onTop)) => page.order = calls[onTop].ids

\* "Unsaved edits survive": what someone typed stays in its form until the page
\* has shown it as saved, or they give it up, whatever is saved, read or moved
\* meanwhile.  It is lost when the page itself goes, with a failed read or a
\* session that ended, and when an answer, or the filter, leaves its form no
\* place: the weights of a test that no longer takes them, the row of a section
\* that is gone, a question deleted or not listed.  (And what is typed while
\* that form is being saved may be lost.)
NothingTypedIsLost ==
    \A f \in Forms : \A x \in FieldsOf[f] :
        wanted[x] # None => \/ draft[x] = wanted[x]
                            \/ screen \in {"failed", "login"}
                            \/ screen = "editor" /\ ~Has(f, page, filter)

\* A file is imported only after the server found it ready, to be imported the same way.
ImportsWhatWasChecked ==
    \A n \in DOMAIN calls : calls[n].op = "import" =>
        \E m \in 1 .. n - 1 : /\ calls[m].op = "check" /\ calls[m].ready
                              /\ calls[m].file = calls[n].file /\ calls[m].mode = calls[n].mode

=============================================================================
