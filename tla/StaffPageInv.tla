---------------------------- MODULE StaffPageInv ----------------------------
(***************************************************************************)
(* The inductive invariant of StaffPage.  Its parts: the forms, the import *)
(* dialog, the calls under way and what the page and the library's row are *)
(* when the answers that are still to come have been shown.                *)
(***************************************************************************)
EXTENDS StaffPage

Patches == UNION {[xs -> Values] : xs \in SUBSET Cells}

CallShape ==
    [op : {"save", "drop", "move", "read", "check", "import"}, state : {"sent", "back", "over"},
     form : Forms \cup {None}, todo : Seq(Patches), sent : Patches, ids : Seq(Ids),
     prev : Tests \cup {None}, file : Files \cup {None}, mode : {"append", "replace", None},
     got : Tests \cup {None}, at : Nat, late : BOOLEAN, ready : BOOLEAN]

DialogShape ==
    [open : BOOLEAN, file : Files \cup {None}, mode : {"append", "replace"},
     checked : {"no", "ready", "problems"}, check : Nat, commit : Nat]

\* A call that is under way, v the server's version and t the test by now.
CallTrue(c, v, t) ==
    /\ c.state = "back" /\ c.op # "check" => c.got # None
    /\ c.state = "sent" /\ c.op # "save" => c.got = None
    /\ c.got # None => c.at <= v /\ (c.at = v => c.got = t)
    /\ c.op = "save" /\ c.state = "sent" => c.todo # <<>>
    /\ c.op = "drop" => c.ids # <<>>
    /\ c.op = "move" => /\ c.prev # None /\ c.ids \in Orders
                        /\ c.got # None => c.got.order = c.ids

CallsOK ==
    /\ calls \in Seq(CallShape)
    /\ \A n \in DOMAIN calls : UnderWay(n) => CallTrue(calls[n], version, test)

Shapes == CallsOK /\ dialog \in DialogShape /\ dialog.commit <= Len(calls)

-----------------------------------------------------------------------------
(* Forms.                                                                   *)

\* A form is there with all its fields or not at all: as long as it is open and
\* the page has a place for it.  A save of it that counts is of a form that is there.
FormsWhole ==
    \A f \in Forms :
        /\ Mounted(f) \/ \A x \in FieldsOf[f] : draft[x] = None
        /\ Mounted(f) <=> f \in open /\ Has(f, page, filter)
        /\ owner[f] # 0 => Mounted(f)

ScreenInv ==
    /\ screen = "editor" => AlwaysThere \subseteq open
    /\ screen # "editor" => open = {} /\ filter = "all"

\* The answer of save c will bring back what is wanted of field x.
Comes(f, x, want, c) ==
    Form[f].then # "keep" =>
        /\ c.op = "save" /\ x \in DOMAIN c.sent /\ c.sent[x] = want
        /\ c.todo = IF c.got = None THEN <<c.sent>> ELSE <<>>
        /\ c.got # None => c.got.is[x] = want

\* What was typed differs from the page and is still there if its form is, and
\* the save that will fill or close the form, if one is under way, brings it back.
Held(f, x, want, has, shown, n, cs) ==
    want # None =>
        /\ want # shown
        /\ has # None =>
              /\ has = want
              /\ n # 0 /\ cs[n].state # "over" => Comes(f, x, want, cs[n])

FieldsHeld ==
    \A f \in Forms : \A x \in FieldsOf[f] :
        /\ Held(f, x, wanted[x], draft[x], page.is[x], owner[f], calls)
        /\ wanted[x] # None => screen # "library" /\ (screen = "editor" => f \in open)

FormsInv == FormsWhole /\ ScreenInv /\ FieldsHeld

-----------------------------------------------------------------------------
(* The import dialog.                                                       *)

IsCheck(c, file, mode) == c.op = "check" /\ c.file = file /\ c.mode = mode
Passed(c, file, mode)  == IsCheck(c, file, mode) /\ c.ready /\ c.state = "over"

DialogInv ==
    /\ dialog.check # 0 =>
          /\ dialog.file \in Files /\ dialog.check \in DOMAIN calls
          /\ IsCheck(calls[dialog.check], dialog.file, dialog.mode)
    /\ dialog.checked = "ready" =>
          dialog.check # 0 /\ Passed(calls[dialog.check], dialog.file, dialog.mode)
    /\ \A n \in DOMAIN calls : calls[n].op = "import" =>
          \E m \in 1 .. n - 1 : Passed(calls[m], calls[n].file, calls[n].mode)

-----------------------------------------------------------------------------
(* The page.                                                                *)

\* Calls that changed the test and whose answers are still to come.
Carriers == {n \in DOMAIN calls : /\ UnderWay(n) /\ calls[n].op \notin {"read", "check"}
                                  /\ calls[n].got # None}

OnlyMoves == \A n \in Carriers : calls[n].op = "move"

Told == missed = {} /\ screen # "login"

\* The page has what no answer showed yet still coming.
LatestComes == Told => seen = version \/ \E n \in Carriers : calls[n].at = version

\* An answer that isn't behind what was shown has the test's fields, unless a
\* later one is coming that has them.
AnswersTell ==
    Told =>
        \A n \in DOMAIN calls :
            UnderWay(n) /\ calls[n].got # None /\ calls[n].at >= seen =>
                \/ calls[n].got.is = test.is
                \/ \E m \in Carriers : calls[m].op # "move" /\ calls[m].at > calls[n].at

FieldsTold == Told /\ OnlyMoves => page.is = test.is

\* The last move.
OnTopInv ==
    onTop # 0 /\ UnderWay(onTop) =>
        /\ calls[onTop].op = "move" /\ page.order = calls[onTop].ids
        /\ page.is = calls[onTop].prev.is
        /\ \A m \in Moves : m <= onTop

\* Moves are served in order, or known not to be.
MovesInOrder ==
    \A m, k \in Moves : m < k /\ calls[m].got # None /\ calls[k].got # None =>
        calls[m].late \/ calls[m].at < calls[k].at

\* However move m ends, the page will be known not to follow it.
Doomed(m) ==
    \/ calls[m].late
    \/ calls[m].got # None /\ calls[m].at < seen
    \/ calls[m].got = None /\ Late(m)

\* If the last move fails the page goes back to the order of the one before it.
BackToLast ==
    Told /\ onTop # 0 /\ UnderWay(onTop) /\ ~calls[onTop].late =>
        \A m \in Moves \ {onTop} :
            \/ \E k \in Moves \ {onTop} : k > m
            \/ calls[onTop].prev.order = calls[m].ids
            \/ Doomed(m)

\* Or, if that one was answered, to the server's.
BackToServer ==
    Told /\ onTop # 0 /\ Moves = {onTop} /\ ~calls[onTop].late /\ Carriers = {} =>
        calls[onTop].prev.order = test.order

OrderTold == Told /\ Moves = {} /\ Carriers = {} => page.order = test.order

ListTold == screen # "login" /\ ~listStale /\ ~listMissed /\ OnlyMoves => list = Summary(test)

PageInv ==
    /\ LatestComes /\ AnswersTell /\ FieldsTold /\ OnTopInv
    /\ MovesInOrder /\ BackToLast /\ BackToServer /\ OrderTold /\ ListTold

PInv == TypeOK /\ Shapes /\ FormsInv /\ DialogInv /\ PageInv

=============================================================================
