------------------------------ MODULE TakeFlow ------------------------------
(***************************************************************************)
(* The candidate's page (take-flow.tsx and the runner it shows), over a    *)
(* network that loses requests and replies, against a server that keeps    *)
(* the tests' clocks.  Take models that server in detail; here a request   *)
(* is served in one step.                                                  *)
(*                                                                         *)
(* A choice becomes a save.  Saves of one question wait for each other,    *)
(* are tried a few times, and those that fail are kept to be tried again.  *)
(* A hand-in waits for the saves it knows of.  A request whose connection  *)
(* broke is served before that or never.                                   *)
(*                                                                         *)
(* Under all of it lies the query for the overview (TanStack Query).  It   *)
(* reads again when the browser is back online, after each test, and on    *)
(* "Try again".  When a read fails the page shows an error in place of     *)
(* whatever it showed; a later one that succeeds mounts the runner anew.   *)
(***************************************************************************)
EXTENDS Integers, Sequences, SequencesExt

CONSTANTS
    Tests,       \* the attempts of one link
    Questions,   \* of each test; Tests \X Questions are the question ids
    Options,
    Tries,       \* of one save (saveWithRetry)
    MaxSaves,    \* bound: no choice and no "online" event after this many
    MaxHandIns,  \* bound: the candidate confirms this often, and the timer hands a
                 \* test in only up to once more
    Visits,      \* bound: the answers an earlier visit left on the server, and whether
                 \* in this one the link may close, and outages keep the browser from
                 \* handing in and from reading the overview
    None

ASSUME TakeFlowAssumption ==
    /\ Tries \in Nat \ {0} /\ MaxSaves \in Nat /\ MaxHandIns \in Nat
    /\ None \notin Tests \cup Options
    /\ IsFiniteSet(Tests) /\ IsFiniteSet(Questions)
    /\ Visits \subseteq [found : [Tests \X Questions -> Options \cup {None}],
                     closes : BOOLEAN, outages : BOOLEAN]

VARIABLES
    visit,
    screen,     \* what the page shows
    problem,    \* linkProblem: "this link doesn't work"
    starting,   \* tests whose start request is on its way
    shown,      \* the runner's answers
    timedOut,   \* the runner's timer has handed in
    opened,     \* screen.attempt: the answers the start request replied with
    failed,     \* overview.isError
    saves,      \* every persist(): what it saves and how far it got
    chains,     \* the last save of each question
    unsaved,    \* answers to try again
    handIns,    \* every handleSubmit()
    submitting, \* the hand-in that keeps submit.isPending, if any
    status,     \* server: the attempts' status
    time,       \* server: "left", "up" (the limit passed), "over" (and the grace)
    stored,     \* server: the answers
    linkOpen,   \* server: the guard lets the link in
    given,      \* history: what the candidate chose last, or found on opening the test
    hasty       \* history: questions answered or opened anew while a save was under way

runner == <<shown, timedOut, opened, given>>
page   == <<screen, problem, failed, starting, runner>>
queue  == <<saves, chains, unsaved>>
finals == <<handIns, submitting>>
server == <<visit, status, time, stored, linkOpen>>
vars   == <<page, queue, finals, server, hasty>>

Ids == Tests \X Questions
NoAnswers == [i \in Ids |-> None]

Overview == [kind |-> "overview", test |-> None, timedOut |-> FALSE]
Screens == [kind : {"intro", "running", "done"}, test : Tests, timedOut : BOOLEAN]
           \cup {Overview}

\* "ready": waiting for its turn, for its next try or for a connection;
\* "sent": the server hasn't served it; then the reply that is on its way.
Saves == [test : Tests, id : Ids, option : Options \cup {None}, after : Nat, tries : 0 .. Tries - 1,
          state : {"ready", "sent", "saved", "time up", "refused", "no link", "settled"},
          stale : BOOLEAN]   \* made before the chains were cleared

HandIns == [test : Tests, timedOut : BOOLEAN, waits : SUBSET Nat,
            state : {"waiting", "paused", "sent", "SUBMITTED", "EXPIRED", "no link",
                     "settled", "failed"}]

Init ==
    /\ screen = Overview /\ problem = FALSE /\ starting = {}
    /\ shown = NoAnswers /\ timedOut = FALSE /\ opened = NoAnswers /\ given = NoAnswers
    /\ failed = FALSE
    /\ saves = <<>> /\ chains = [i \in Ids |-> 0] /\ unsaved = NoAnswers
    /\ handIns = <<>> /\ submitting = 0
    /\ visit \in Visits /\ stored = visit.found
    /\ status \in [Tests -> {"NOT_STARTED", "IN_PROGRESS"}]
    /\ \A i \in Ids : stored[i] # None => status[i[1]] = "IN_PROGRESS"
    /\ time = [t \in Tests |-> "left"] /\ linkOpen = TRUE
    /\ hasty = {}

\* No message about the link or the overview lies over the screen.
OnScreen(kinds) == screen.kind \in kinds /\ ~problem /\ ~failed

\* The runner is mounted.
Running(t) == OnScreen({"running"}) /\ screen.test = t

Unsettled(i) == saves[i].state # "settled"
IsClosed(t) == status[t] \in {"SUBMITTED", "EXPIRED"}

-----------------------------------------------------------------------------
(* Screens.                                                                 *)

\* From the overview or the last finish screen to a test that isn't over.
Open(t) ==
    /\ OnScreen({"overview", "done"})
    /\ ~IsClosed(t)
    /\ screen' = [kind |-> "intro", test |-> t, timedOut |-> FALSE]
    /\ UNCHANGED <<problem, starting, failed, runner, queue, finals, server, hasty>>

Back ==
    /\ OnScreen({"intro", "done"})
    /\ screen' = Overview
    /\ UNCHANGED <<problem, starting, failed, runner, queue, finals, server, hasty>>

\* finish(): wherever the page is by now.
Finish(t, late) ==
    /\ screen' = [kind |-> "done", test |-> t, timedOut |-> late]
    /\ shown' = NoAnswers /\ timedOut' = FALSE /\ opened' = NoAnswers /\ given' = NoAnswers

ClickStart(t) ==
    /\ OnScreen({"intro"}) /\ screen.test = t
    /\ starting = {}
    /\ starting' = {t}
    /\ UNCHANGED <<screen, problem, failed, runner, queue, finals, server, hasty>>

\* The server starts or resumes the test; the page forgets the last one's saves.
StartReplies(t) ==
    /\ t \in starting
    /\ linkOpen /\ time[t] # "over" /\ ~IsClosed(t)
    /\ status' = [status EXCEPT ![t] = "IN_PROGRESS"]
    /\ starting' = starting \ {t}
    /\ screen' = [kind |-> "running", test |-> t, timedOut |-> FALSE]
    /\ opened' = [i \in Ids |-> IF i[1] = t THEN stored[i] ELSE None]
    /\ shown' = opened' /\ given' = opened'
    /\ timedOut' = FALSE
    /\ chains' = [i \in Ids |-> 0]
    /\ unsaved' = NoAnswers
    /\ saves' = [i \in DOMAIN saves |->
                    IF Unsettled(i) THEN [saves[i] EXCEPT !.stale = TRUE] ELSE saves[i]]
    /\ hasty' = hasty \cup {saves[n].id : n \in {k \in DOMAIN saves : Unsettled(k)}}
    /\ UNCHANGED <<problem, failed, finals, visit, time, stored, linkOpen>>

\* The start fails, and may have been served; or it is refused.
StartFails(t) ==
    /\ t \in starting
    /\ starting' = starting \ {t}
    /\ problem' = (problem \/ ~linkOpen)
    /\ \/ UNCHANGED status
       \/ /\ linkOpen /\ status[t] = "NOT_STARTED"
          /\ status' = [status EXCEPT ![t] = "IN_PROGRESS"]
       \/ /\ linkOpen /\ status[t] = "IN_PROGRESS" /\ time[t] = "over"
          /\ status' = [status EXCEPT ![t] = "EXPIRED"]
    /\ UNCHANGED <<screen, failed, runner, queue, finals, visit, time, stored, linkOpen, hasty>>

-----------------------------------------------------------------------------
(* Saves.                                                                   *)

\* persist(attempt, id, option) for each of a set of answers.
NewSave(t, i, o) == [test |-> t, id |-> i, option |-> o, after |-> chains[i],
                     tries |-> 0, state |-> "ready", stale |-> FALSE]

\* The order of a map's entries makes no difference: they are of different questions.
Persist(t, answers) ==
    LET ids   == {i \in Ids : answers[i] # None}
        order == SetToSeq(ids)
    IN  /\ saves' = saves \o [k \in DOMAIN order |-> NewSave(t, order[k], answers[order[k]])]
        /\ chains' = [i \in Ids |->
              IF i \in ids THEN Len(saves) + CHOOSE k \in DOMAIN order : order[k] = i
              ELSE chains[i]]

\* choose(): blocked only while the submit itself is pending.
Choose(i, o) ==
    /\ Running(i[1])
    /\ submitting = 0
    /\ Len(saves) < MaxSaves
    /\ shown' = [shown EXCEPT ![i] = o] /\ given' = [given EXCEPT ![i] = o]
    /\ unsaved' = [unsaved EXCEPT ![i] = None]
    /\ Persist(i[1], [NoAnswers EXCEPT ![i] = o])
    /\ hasty' = IF \E n \in DOMAIN saves : saves[n].id = i /\ Unsettled(n)
                THEN hasty \cup {i} ELSE hasty
    /\ UNCHANGED <<screen, problem, starting, timedOut, failed, opened, finals,
                   server>>

\* Mutant: a save doesn't wait for the one before it.
TurnAlways(n) == TRUE

\* The chain: the earlier save has succeeded or failed for good.
Turn(n) == saves[n].after # 0 => ~Unsettled(saves[n].after)

SetSave(n, s) == saves' = [saves EXCEPT ![n].state = s]

SendSave(n) ==
    /\ saves[n].state = "ready" /\ Turn(n)
    /\ SetSave(n, "sent")
    /\ UNCHANGED <<page, chains, unsaved, finals, server, hasty>>

\* The guard and answer(), which closes a test whose grace is over.
ServeSave(n) ==
    LET t == saves[n].test  i == saves[n].id IN
    /\ saves[n].state = "sent"
    /\ \/ /\ ~linkOpen
          /\ SetSave(n, "no link") /\ UNCHANGED <<status, stored>>
       \/ /\ linkOpen /\ status[t] = "IN_PROGRESS" /\ time[t] = "over"
          /\ SetSave(n, "time up")
          /\ status' = [status EXCEPT ![t] = "EXPIRED"] /\ UNCHANGED stored
       \/ /\ linkOpen /\ status[t] = "IN_PROGRESS" /\ time[t] # "over" /\ i[1] = t
          /\ SetSave(n, "saved")
          /\ stored' = [stored EXCEPT ![i] = saves[n].option] /\ UNCHANGED status
       \/ /\ linkOpen /\ (IsClosed(t) \/ (time[t] # "over" /\ i[1] # t))
          /\ SetSave(n, "refused") /\ UNCHANGED <<status, stored>>
    /\ UNCHANGED <<page, chains, unsaved, finals, visit, time, linkOpen, hasty>>

\* Mutant: an answer that couldn't be saved is forgotten.
KeepNothing(n) == unsaved

\* unsaved, when a save failed for good.
Keep(n) == [unsaved EXCEPT ![saves[n].id] = saves[n].option]

\* The promise has settled: what it was about is forgotten.
Settle(n) == saves' = [saves EXCEPT ![n] =
    [@ EXCEPT !.state = "settled", !.option = None, !.after = 0, !.tries = 0, !.stale = FALSE]]

SaveReplies(n) ==
    /\ \/ /\ saves[n].state = "saved"
          /\ UNCHANGED <<page, unsaved>>
       \/ /\ saves[n].state = "time up"
          /\ Finish(saves[n].test, TRUE)
          /\ UNCHANGED <<problem, failed, starting, unsaved>>
       \/ /\ saves[n].state = "no link"
          /\ problem' = TRUE
          /\ UNCHANGED <<screen, starting, failed, runner, unsaved>>
       \/ /\ saves[n].state = "refused"
          /\ unsaved' = Keep(n)
          /\ UNCHANGED page
    /\ Settle(n)
    /\ UNCHANGED <<chains, finals, server, hasty>>

GivesUp(n) == saves[n].tries + 1 >= Tries

\* The request or its reply is lost, or the server is overloaded: saveWithRetry
\* tries again, a few times.
SaveFails(n) ==
    /\ saves[n].state \notin {"ready", "settled"}
    /\ IF GivesUp(n)
       THEN /\ Settle(n)
            /\ unsaved' = Keep(n)
       ELSE /\ saves' = [saves EXCEPT ![n] =
                    [@ EXCEPT !.tries = saves[n].tries + 1, !.state = "ready"]]
            /\ UNCHANGED unsaved
    /\ UNCHANGED <<page, chains, finals, server, hasty>>

-----------------------------------------------------------------------------
(* Handing in.                                                              *)

\* handleSubmit() tries the unsaved answers again and waits for every chain.
HandIn(t, late) ==
    /\ Persist(t, unsaved)
    /\ unsaved' = NoAnswers
    /\ handIns' = Append(handIns, [test |-> t, timedOut |-> late, state |-> "waiting",
                                   waits |-> {chains'[i] : i \in Ids} \ {0}])
    /\ UNCHANGED <<submitting, server, hasty>>

\* The dialog of the last question; the keyboard opens it at any time.
Confirm(t) ==
    /\ Running(t)
    /\ Len(handIns) < MaxHandIns
    /\ HandIn(t, FALSE)
    /\ UNCHANGED page

\* The countdown, on the server's clock, comes to zero: once per runner.
TimesUp(t) ==
    /\ Running(t) /\ time[t] # "left" /\ ~timedOut
    /\ Cardinality({h \in DOMAIN handIns : handIns[h].test = t}) <= MaxHandIns
    /\ timedOut' = TRUE
    /\ HandIn(t, TRUE)
    /\ UNCHANGED <<screen, problem, starting, shown, failed, opened, given>>

SetHandIn(h, s) == handIns' = [handIns EXCEPT ![h].state = s]

\* Only the latest submit.mutate() is watched.
EndHandIn(h, s) ==
    /\ handIns' = [handIns EXCEPT ![h] = [@ EXCEPT !.state = s, !.waits = {}, !.timedOut = FALSE]]
    /\ submitting' = IF submitting = h THEN 0 ELSE submitting

\* Mutant: the submit doesn't wait for the saves.
WaitedForNone(h) == TRUE

\* Mutant: the submit waits until nothing is left to save.
WaitedForAll(h) == unsaved = NoAnswers /\ \A n \in DOMAIN saves : ~Unsettled(n)

WaitedFor(h) == \A n \in handIns[h].waits : ~Unsettled(n)

\* submit.mutate(): failed saves don't stop it.  While the browser is offline it
\* is pending too, but isn't sent.
SendHandIn(h) ==
    /\ handIns[h].state = "waiting" /\ WaitedFor(h)
    /\ SetHandIn(h, "sent") \/ (visit.outages /\ SetHandIn(h, "paused"))
    /\ submitting' = h
    /\ UNCHANGED <<page, queue, server, hasty>>

\* The guard and submit().
ServeHandIn(h) ==
    LET t == handIns[h].test
        final == IF IsClosed(t) THEN status[t]
                 ELSE IF time[t] = "over" THEN "EXPIRED" ELSE "SUBMITTED"
    IN  /\ handIns[h].state = "sent"
        /\ IF linkOpen
           THEN /\ SetHandIn(h, final)
                /\ status' = [status EXCEPT ![t] = final]
           ELSE SetHandIn(h, "no link") /\ UNCHANGED status
        /\ UNCHANGED <<page, queue, submitting, visit, time, stored, linkOpen, hasty>>

\* Mutant: the finish screen only knows of the timer.
LateByTimer(h) == handIns[h].timedOut

\* The runner hands in inside the grace period.
Late(h) == handIns[h].timedOut \/ handIns[h].state = "EXPIRED"

HandInReplies(h) ==
    /\ \/ /\ handIns[h].state \in {"SUBMITTED", "EXPIRED"}
          /\ Finish(handIns[h].test, Late(h))
          /\ UNCHANGED <<problem, failed>>
       \/ /\ handIns[h].state = "no link"
          /\ problem' = TRUE
          /\ UNCHANGED <<screen, failed, runner>>
    /\ EndHandIn(h, "settled")
    /\ UNCHANGED <<starting, queue, server, hasty>>

\* Mutations don't retry.
HandInFails(h) ==
    /\ handIns[h].state \notin {"waiting", "paused", "settled", "failed"}
    /\ EndHandIn(h, "failed")
    /\ UNCHANGED <<page, queue, server, hasty>>

-----------------------------------------------------------------------------
(* The connection, and the overview.                                        *)

\* The browser was offline: hand-ins that wait are sent, and retryUnsaved() saves
\* what couldn't be saved, whether or not the runner is on screen.
BackOnline ==
    /\ screen.kind = "running" /\ unsaved # NoAnswers => Len(saves) < MaxSaves
    /\ handIns' = [h \in DOMAIN handIns |->
                      IF handIns[h].state = "paused" THEN [handIns[h] EXCEPT !.state = "sent"]
                      ELSE handIns[h]]
    /\ \/ /\ screen.kind = "running"
          /\ Persist(screen.test, unsaved)
          /\ unsaved' = NoAnswers
       \/ /\ screen.kind # "running"
          /\ UNCHANGED <<saves, chains, unsaved>>
    /\ UNCHANGED <<page, submitting, server, hasty>>

\* A read of the overview fails, with its retries: at any time, since the browser
\* may just have been back online.  The data stays, but the page looks at the
\* error.  The runner is gone; the next will be mounted with what the start
\* request replied with.  Other screens come back as they were.
OverviewFails ==
    /\ visit.outages /\ screen.kind = "running" /\ ~problem /\ ~failed
    /\ failed' = TRUE
    /\ shown' = opened /\ timedOut' = FALSE
    /\ UNCHANGED <<screen, problem, starting, opened, given, queue, finals, server, hasty>>

\* Another succeeds, after "Try again" or by itself.
OverviewComes ==
    /\ failed /\ linkOpen
    /\ failed' = FALSE
    /\ UNCHANGED <<screen, problem, starting, runner, queue, finals, server, hasty>>

-----------------------------------------------------------------------------
(* Elsewhere.                                                               *)

\* The limit of a started test passes, then its grace, unless nobody asks any more.
Pass(t) ==
    /\ \/ status[t] # "NOT_STARTED" /\ time[t] = "left"
       \/ status[t] = "IN_PROGRESS" /\ time[t] = "up"
    /\ time' = [time EXCEPT ![t] = IF @ = "left" THEN "up" ELSE "over"]
    /\ UNCHANGED <<page, queue, finals, visit, status, stored, linkOpen, hasty>>

\* Somebody at the company reads the results: the sweep closes the test.
Sweep(t) ==
    /\ status[t] = "IN_PROGRESS" /\ time[t] = "over"
    /\ status' = [status EXCEPT ![t] = "EXPIRED"]
    /\ UNCHANGED <<page, queue, finals, visit, time, stored, linkOpen, hasty>>

\* The link is revoked, or expires with no test running.
CloseLink ==
    /\ visit.closes /\ linkOpen /\ linkOpen' = FALSE
    /\ UNCHANGED <<page, queue, finals, visit, status, time, stored, hasty>>

Work ==
    \/ \E t \in Tests : TimesUp(t)
    \/ \E n \in DOMAIN saves : SendSave(n) \/ ServeSave(n) \/ SaveReplies(n) \/ SaveFails(n)
    \/ \E h \in DOMAIN handIns :
          SendHandIn(h) \/ ServeHandIn(h) \/ HandInReplies(h) \/ HandInFails(h)

Next ==
    \/ Work
    \/ Back \/ CloseLink
    \/ BackOnline \/ OverviewFails \/ OverviewComes
    \/ \E t \in Tests :
          \/ Open(t) \/ ClickStart(t) \/ StartReplies(t) \/ StartFails(t)
          \/ Confirm(t) \/ Pass(t) \/ Sweep(t)
    \/ \E i \in Ids, o \in Options : Choose(i, o)

\* The browser runs its promises and timers, and every save or hand-in it has
\* sent is answered or given up.  Nobody has to click, nothing else has to be
\* answered, and the connection may never come back.
Spec == Init /\ [][Next]_vars /\ WF_vars(Work)

-----------------------------------------------------------------------------
(* Properties.                                                              *)

\* The page, its saves and the server's rows are well formed.
TypeOK ==
    /\ visit \in Visits /\ screen \in Screens /\ problem \in BOOLEAN /\ starting \in SUBSET Tests
    /\ {shown, opened, given} \subseteq [Ids -> Options \cup {None}] /\ timedOut \in BOOLEAN
    /\ failed \in BOOLEAN
    /\ saves \in Seq(Saves) /\ chains \in [Ids -> 0 .. Len(saves)]
    /\ unsaved \in [Ids -> Options \cup {None}]
    /\ handIns \in Seq(HandIns) /\ submitting \in 0 .. Len(handIns)
    /\ status \in [Tests -> {"NOT_STARTED", "IN_PROGRESS", "SUBMITTED", "EXPIRED"}]
    /\ time \in [Tests -> {"left", "up", "over"}]
    /\ stored \in [Ids -> Options \cup {None}] /\ linkOpen \in BOOLEAN
    /\ hasty \in SUBSET Ids

\* What the candidate chose last is on the server, on its way there, or kept to
\* be tried again, whatever the network loses and whether or not the runner is
\* on screen, unless it replaced one whose save was still under way, or the test
\* was opened anew during that save (a late reply about another test can take
\* the page away from this one).  A runner that shows something else shows what
\* the test was opened with: it was away while the overview couldn't be read.
NothingDropped ==
    \A i \in Ids :
        /\ (given[i] # None /\ i \notin hasty /\ ~IsClosed(i[1]) /\ linkOpen)
           => \/ stored[i] = given[i]
              \/ unsaved[i] = given[i]
              \/ \E n \in DOMAIN saves :
                    saves[n].id = i /\ saves[n].option = given[i] /\ Unsettled(n)
        /\ shown[i] \in {given[i], opened[i]}

\* "A question's saves go in order, so a quick change of mind can't arrive
\* first": a save the server takes was not overtaken by a later one of its
\* question, unless the test was opened anew in between.
SavesInOrder ==
    [][\A n \in DOMAIN saves :
          (saves[n].state = "sent" /\ saves'[n].state = "saved" /\ ~saves[n].stale)
          => \A m \in DOMAIN saves :
                (m > n /\ saves[m].id = saves[n].id)
                => saves[m].state = "ready" /\ saves[m].tries = 0]_vars

\* A hand-in closes a test only when every save the page had made by then, of
\* every question, has been answered or given up: no answer arrives late, but
\* those made before the test was opened anew.
HandInIsComplete ==
    [][\A h \in DOMAIN handIns :
          (handIns[h].state = "sent" /\ handIns'[h].state = "SUBMITTED")
          => \A m \in handIns[h].waits : \A n \in 1 .. m :
                saves[n].id = saves[m].id /\ ~saves[n].stale => ~Unsettled(n)]_vars

\* The finish screen is shown for a test that the server has closed, and says
\* that time was up exactly when the limit had passed.
DoneIsTrue ==
    screen.kind = "done" =>
        /\ IsClosed(screen.test)
        /\ screen.timedOut => time[screen.test] # "left"
        /\ status[screen.test] = "EXPIRED" => screen.timedOut

\* When the time is up in a runner, the page leaves the test by itself, unless
\* its request to hand in gets no answer or waits for a connection, or the
\* overview's error took the runner away before it handed in: the timer is gone
\* then, and nobody hands in until the overview has come back.
TimerHandsIn ==
    \A t \in Tests :
        (Running(t) /\ time[t] # "left")
        ~> LET tried == {handIns[h].state : h \in {k \in DOMAIN handIns : handIns[k].test = t}}
           IN  \/ problem \/ ~(screen.kind = "running" /\ screen.test = t)
               \/ tried \cap {"failed", "paused"} # {}
               \/ failed /\ tried = {}

\* "A question's saves go in order, so a quick change of mind can't arrive
\* first", and nothing is lost: when no save is under way and none is kept to
\* be tried again, the server has what the candidate chose last.
SavedIsLastChoice ==
    \A i \in Ids :
        /\ Running(i[1]) /\ given[i] # None /\ ~IsClosed(i[1]) /\ linkOpen
        /\ \A n \in DOMAIN saves : ~Unsettled(n)
        /\ unsaved = NoAnswers
        => stored[i] = given[i]

=============================================================================
