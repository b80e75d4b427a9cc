-------------------------------- MODULE Take --------------------------------
(***************************************************************************)
(* A candidate's link and the attempts behind it: TakeService,             *)
(* AttemptsService, InvitationTokenGuard, and what staff do to the same    *)
(* rows (revoke a link, read results).                                     *)
(*                                                                         *)
(* The API is stateless: all shared state is in PostgreSQL, and a handler  *)
(* awaits one statement after another, so other requests run between any   *)
(* two of them.  An action here is one statement together with the         *)
(* JavaScript that runs before the handler's next await.  What a handler   *)
(* still holds from earlier statements is its record in req.               *)
(***************************************************************************)
EXTENDS Integers, FiniteSets

CONSTANTS
    Attempts,    \* the tests behind the link
    Questions,   \* question ids in the frozen copies
    Options,     \* option ids a request may name
    Offered,     \* Offered[a][q]: the options of question q in a's snapshot
    Layouts,     \* the orders buildLayout() can draw
    Duration,    \* Duration[a]: the snapshot's time limit, in ticks
    Grace,       \* DEADLINE_GRACE_MS, in ticks
    LinkExpiry,  \* the invitation's expiresAt
    Requests,    \* requests that can be in flight at once
    Lag,         \* bound: ticks from one statement of a handler to the next
    MaxTime,     \* bound: the clock stops here
    None         \* SQL NULL

\* A snapshot's options per question, and a time limit of at least a minute.
ASSUME SnapshotAssumption ==
    /\ Offered \in [Attempts -> [Questions -> SUBSET Options]]
    /\ Duration \in [Attempts -> Nat \ {0}]

ASSUME TimeAssumption ==
    /\ Grace \in Nat
    /\ LinkExpiry \in Nat
    /\ Lag \in Nat
    /\ MaxTime \in Nat

\* Statements arrive sooner than the shortest test lasts, grace included.
ASSUME LagAssumption == \A a \in Attempts : Lag <= Duration[a] + Grace

ASSUME NoneAssumption ==
    /\ None \notin Int
    /\ None \notin Options \cup Layouts \cup Attempts \cup Questions
    /\ None \notin [start : Nat, deadline : Nat, order : Layouts]

VARIABLES
    now,       \* the server's clock
    revokedAt, \* the invitation's revokedAt
    opened,    \* the invitation's lastOpenedAt is set
    attempt,   \* assessment_attempts, by id
    answers,   \* attempt_answers: answers[a][q] is the stored option or None
    req        \* requests in flight: where each is and what it remembers

vars == <<now, revokedAt, opened, attempt, answers, req>>

-----------------------------------------------------------------------------
(* Rows, requests and the initial state.                                    *)

Statuses == {"NOT_STARTED", "IN_PROGRESS", "SUBMITTED", "EXPIRED"}
FINISHED_STATUSES == {"SUBMITTED", "EXPIRED"}

Times  == Nat \cup {None}
Sheets == [Questions -> Options \cup {None}]

\* score, bandLabel, sectionScores and flags are functions of the snapshot and
\* the answers read, so scored keeps those answers in their place.
Rows == [status     : Statuses,
         startedAt  : Times,
         deadlineAt : Times,
         layout     : Layouts \cup {None},
         finishedAt : Times,
         scored     : Sheets \cup {None},
         timeTaken  : Times]

NewRow == [status |-> "NOT_STARTED", startedAt |-> None, deadlineAt |-> None,
           layout |-> None, finishedAt |-> None, scored |-> None,
           timeTaken |-> None]

\* Routes.  "results" stands for the staff reads that sweep first: the Sent
\* list, an invitation's detail and the dashboard.
CandidateOps == {"overview", "start", "answer", "submit"}
Ops == CandidateOps \cup {"results"}

\* Where a handler is: the statement it awaits next.
Pcs == {"idle", "sweep", "score", "close", "find", "clock", "reread", "view",
        "save", "status", "read"}

Calls == [pc      : Pcs,
          op      : Ops \cup {"none"},
          att     : Attempts \cup {None},     \* the attempt in the route
          ques    : Questions \cup {None},    \* answer(): the question ...
          opt     : Options \cup {None},      \* ... and the chosen option
          at      : Times,                    \* when the request arrived
          since   : Times,                    \* when its last statement ran
          todo    : SUBSET Attempts,          \* attempts it still has to finish
          verdict : FINISHED_STATUSES \cup {"none"},  \* the status finish() gets
          cur     : Attempts \cup {None},     \* finish(): the attempt read ...
          sheet   : Sheets \cup {None},       \* ... and the answers read with it
          row     : Rows \cup {None}]         \* start(): the row the view shows

Idle == [pc |-> "idle", op |-> "none", att |-> None, ques |-> None, opt |-> None,
         at |-> None, since |-> None, todo |-> {}, verdict |-> "none",
         cur |-> None, sheet |-> None, row |-> None]

Init ==
    /\ now = 0
    /\ revokedAt = None
    /\ opened = FALSE
    /\ attempt = [a \in Attempts |-> NewRow]
    /\ answers = [a \in Attempts |-> [q \in Questions |-> None]]
    /\ req = [r \in Requests |-> Idle]

invitation == <<revokedAt, opened>>
tables == <<attempt, answers>>

-----------------------------------------------------------------------------
(* Request plumbing.                                                        *)

\* The handler's next statement is at p.
Goto(r, p) == req' = [req EXCEPT ![r].pc = p, ![r].since = now]

\* The handler answered, or threw.
Return(r) == req' = [req EXCEPT ![r] = Idle]

\* overview(), start() and every staff read call finalizeOverdue() first.
FirstStatement(op) == IF op \in {"answer", "submit"} THEN "find" ELSE "sweep"

\* finish() is to run on every attempt of todo, one after the other.
FinishAll(r, todo, verdict) ==
    req' = [req EXCEPT ![r].pc = "score", ![r].since = now,
                       ![r].todo = todo, ![r].verdict = verdict]

\* Where an operation goes on once its finish() calls have returned.
AfterFinish(op) == CASE op = "start"  -> "find"
                     [] op = "submit" -> "status"
                     [] OTHER         -> "read"

\* finish() returned for attempt a: on to the next, or back to the caller.
\* Only answer() has nothing left to do: it throws TIME_UP.
Remaining(r, a) == req[r].todo \ {a}

Finished(r, a) ==
    LET rest == Remaining(r, a)
        done == [req[r] EXCEPT !.since = now, !.todo = rest,
                               !.cur = None, !.sheet = None]
    IN  req' = [req EXCEPT ![r] =
                  CASE rest # {}            -> [done EXCEPT !.pc = "score"]
                    [] rest = {} /\ req[r].op = "answer" -> Idle
                    [] OTHER -> [done EXCEPT !.pc = AfterFinish(req[r].op),
                                             !.verdict = "none"]]

-----------------------------------------------------------------------------
(* A request arrives.  A refusal (404, 410) writes nothing, so only the     *)
(* requests that pass the guard are steps.                                  *)

\* InvitationTokenGuard: some test is still running, grace included.
Running == \E a \in Attempts :
    /\ attempt[a].status = "IN_PROGRESS"
    /\ attempt[a].deadlineAt # None
    /\ attempt[a].deadlineAt + Grace > now

\* Mutant: the guard forgets revokedAt.
GuardAllowsRevoked == LinkExpiry > now \/ Running

GuardAllows == revokedAt = None /\ (LinkExpiry > now \/ Running)

Accept(r, op, a, q, o) ==
    /\ req[r].pc = "idle"
    /\ req' = [req EXCEPT ![r] = [Idle EXCEPT !.pc = FirstStatement(op),
                    !.op = op, !.att = a, !.ques = q, !.opt = o,
                    !.at = now, !.since = now]]
    /\ UNCHANGED <<now, invitation, tables>>

CandidateRequest(r) ==
    /\ GuardAllows
    /\ \/ Accept(r, "overview", None, None, None)
       \/ \E a \in Attempts : Accept(r, "start", a, None, None)
       \/ \E a \in Attempts : Accept(r, "submit", a, None, None)
       \/ \E a \in Attempts, q \in Questions, o \in Options :
              Accept(r, "answer", a, q, o)

\* Staff open the Sent list, an invitation's results or the dashboard.
StaffRead(r) == Accept(r, "results", None, None, None)

-----------------------------------------------------------------------------
(* finalizeOverdue() and finish().                                          *)

\* Mutant: the sweep adds a tick to the grace period.
OverdueTooLate(t) == {a \in Attempts : /\ attempt[a].status = "IN_PROGRESS"
                                       /\ attempt[a].deadlineAt # None
                                       /\ attempt[a].deadlineAt < t - Grace - 1}

Overdue(t) == {a \in Attempts : /\ attempt[a].status = "IN_PROGRESS"
                                /\ attempt[a].deadlineAt # None
                                /\ attempt[a].deadlineAt < t - Grace}

\* t is the clock reading before the SELECT.
Sweep(r) ==
    /\ req[r].pc = "sweep"
    /\ \E t \in req[r].since .. now :
          IF Overdue(t) = {} THEN Goto(r, AfterFinish(req[r].op))
          ELSE FinishAll(r, Overdue(t), "EXPIRED")
    /\ UNCHANGED <<now, invitation, tables>>

\* finish() reads the attempt with its answers; nothing to do unless it's running.
ReadForScore(r) ==
    /\ req[r].pc = "score"
    /\ \E a \in req[r].todo :
          IF attempt[a].status # "IN_PROGRESS" THEN Finished(r, a)
          ELSE req' = [req EXCEPT ![r].pc = "close", ![r].since = now,
                                  ![r].cur = a, ![r].sheet = answers[a]]
    /\ UNCHANGED <<now, invitation, tables>>

\* Mutant: the closing update matches by id only.
ClosableById(a) == TRUE

\* The WHERE clause of the closing update.
Closable(a) == attempt[a].status = "IN_PROGRESS"

\* Mutant: the time taken runs on until somebody closes the attempt.
TimeTakenToClose(row, t) == IF row.startedAt = None THEN None ELSE t - row.startedAt

\* From the start to the deadline or the finish, whichever is first.
TimeTaken(row, t) ==
    IF row.startedAt = None THEN None
    ELSE LET end == IF row.deadlineAt # None /\ row.deadlineAt < t
                    THEN row.deadlineAt ELSE t
         IN  IF end < row.startedAt THEN 0 ELSE end - row.startedAt

\* The row as the closing update leaves it; t is finish()'s own clock reading.
Closed(row, verdict, sheet, t) ==
    [row EXCEPT !.status = verdict, !.finishedAt = t, !.scored = sheet,
                !.timeTaken = TimeTaken(row, t)]

Close(r) ==
    /\ req[r].pc = "close"
    /\ LET a == req[r].cur IN
       /\ IF Closable(a)
          THEN \E t \in req[r].since .. now :
                 attempt' = [attempt EXCEPT ![a] =
                               Closed(@, req[r].verdict, req[r].sheet, t)]
          ELSE UNCHANGED attempt
       /\ Finished(r, a)
    /\ UNCHANGED <<now, invitation, answers>>

-----------------------------------------------------------------------------
(* start(), answer(), submit(): each looks its attempt up first.            *)

isFinished(row) == row.status \in FINISHED_STATUSES

\* Mutant: no grace period.
isOverdueAtDeadline(row) == row.deadlineAt # None /\ now > row.deadlineAt

\* Past the deadline plus the grace period.
isOverdue(row) == row.deadlineAt # None /\ now > row.deadlineAt + Grace

FindForStart(r, row) ==
    /\ req[r].op = "start"
    /\ CASE isFinished(row)             -> Return(r)
         [] row.status = "NOT_STARTED"  ->
              req' = [req EXCEPT ![r].pc = "clock", ![r].since = now, ![r].row = row]
         [] row.status = "IN_PROGRESS"  ->
              req' = [req EXCEPT ![r].pc = "view", ![r].since = now, ![r].row = row]

\* assertOpen() and the option check.
FindForAnswer(r, row) ==
    /\ req[r].op = "answer"
    /\ CASE row.status # "IN_PROGRESS" -> Return(r)
         [] row.status = "IN_PROGRESS" /\ isOverdue(row) ->
              FinishAll(r, {req[r].att}, "EXPIRED")
         [] row.status = "IN_PROGRESS" /\ ~isOverdue(row) ->
              IF req[r].opt \in Offered[req[r].att][req[r].ques]
              THEN Goto(r, "save") ELSE Return(r)

SubmitVerdict(row) == IF isOverdue(row) THEN "EXPIRED" ELSE "SUBMITTED"

FindForSubmit(r, row) ==
    /\ req[r].op = "submit"
    /\ CASE row.status = "NOT_STARTED" -> Return(r)
         [] row.status = "IN_PROGRESS" -> FinishAll(r, {req[r].att}, SubmitVerdict(row))
         [] isFinished(row)            -> Goto(r, "status")

Find(r) ==
    /\ req[r].pc = "find"
    /\ LET row == attempt[req[r].att] IN
       FindForStart(r, row) \/ FindForAnswer(r, row) \/ FindForSubmit(r, row)
    /\ UNCHANGED <<now, invitation, tables>>

\* start()'s own expiry check: the guard also lets a running test through.
LinkOpenAt(t) == LinkExpiry > t

\* The WHERE clause of the starting update.
Startable(a) == attempt[a].status = "NOT_STARTED"

Started(row, a, t, l) ==
    [row EXCEPT !.status = "IN_PROGRESS", !.startedAt = t,
                !.deadlineAt = t + Duration[a], !.layout = l]

\* t is the clock reading between finding the row and updating it.
StartClock(r) ==
    /\ req[r].pc = "clock"
    /\ LET a == req[r].att IN
       \E t \in req[r].since .. now :
          \/ ~LinkOpenAt(t) /\ Return(r) /\ UNCHANGED attempt
          \/ /\ LinkOpenAt(t)
             /\ IF Startable(a)
                THEN \E l \in Layouts :
                       attempt' = [attempt EXCEPT ![a] = Started(@, a, t, l)]
                ELSE UNCHANGED attempt
             /\ Goto(r, "reread")
    /\ UNCHANGED <<now, invitation, answers>>

\* Mutant: start() shows the row it found before the update.
RereadNothing(r) ==
    /\ req[r].pc = "reread"
    /\ Goto(r, "view")
    /\ UNCHANGED <<now, invitation, tables>>

Reread(r) ==
    /\ req[r].pc = "reread"
    /\ req' = [req EXCEPT ![r].pc = "view", ![r].since = now,
                          ![r].row = attempt[req[r].att]]
    /\ UNCHANGED <<now, invitation, tables>>

\* The saved answers complete the view that start() returns.
View(r) ==
    /\ req[r].pc = "view"
    /\ Return(r)
    /\ UNCHANGED <<now, invitation, tables>>

\* The upsert: it looks at nothing but its key.
Save(r) ==
    /\ req[r].pc = "save"
    /\ answers' = [answers EXCEPT ![req[r].att][req[r].ques] = req[r].opt]
    /\ Return(r)
    /\ UNCHANGED <<now, invitation, attempt>>

\* submit() answers with the status it reads back.
ReadStatus(r) ==
    /\ req[r].pc = "status"
    /\ Return(r)
    /\ UNCHANGED <<now, invitation, tables>>

\* The rows a sweeping reader shows; overview() also stamps lastOpenedAt.
Read(r) ==
    /\ req[r].pc = "read"
    /\ opened' = (opened \/ req[r].op = "overview")
    /\ Return(r)
    /\ UNCHANGED <<now, revokedAt, tables>>

-----------------------------------------------------------------------------
(* The system.                                                              *)

\* One conditional update, so a second revoke changes nothing.
Revoke ==
    /\ revokedAt = None
    /\ revokedAt' = now
    /\ UNCHANGED <<now, opened, tables, req>>

\* A statement fails or the process restarts: the handler is gone, and what it
\* wrote stays.
Drop(r) ==
    /\ req[r].pc # "idle"
    /\ Return(r)
    /\ UNCHANGED <<now, invitation, tables>>

\* Time passes, but no handler waits longer than Lag for its next statement.
Tick ==
    /\ now < MaxTime
    /\ \A r \in Requests : req[r].pc # "idle" => now < req[r].since + Lag
    /\ now' = now + 1
    /\ UNCHANGED <<invitation, tables, req>>

Handle(r) ==
    \/ Sweep(r) \/ ReadForScore(r) \/ Close(r) \/ Find(r) \/ StartClock(r)
    \/ Reread(r) \/ View(r) \/ Save(r) \/ ReadStatus(r) \/ Read(r)

NextUp ==
    \/ Tick
    \/ Revoke
    \/ \E r \in Requests : CandidateRequest(r) \/ StaffRead(r) \/ Handle(r)

Next == NextUp \/ \E r \in Requests : Drop(r)

Spec == Init /\ [][Next]_vars

\* The runtime keeps running a handler whose promise has settled; nothing
\* obliges candidates or staff to call, and here no process dies.
LiveSpec == Init /\ [][NextUp]_vars /\ \A r \in Requests : WF_vars(Handle(r))

-----------------------------------------------------------------------------
(* Properties.                                                              *)

\* Every row, stored answer and request in flight is well formed.
TypeOK ==
    /\ now \in Nat
    /\ revokedAt \in Times
    /\ opened \in BOOLEAN
    /\ attempt \in [Attempts -> Rows]
    /\ answers \in [Attempts -> Sheets]
    /\ req \in [Requests -> Calls]

\* A result, once written, is never written again, whatever submits, late
\* answers and staff reads race to close the attempt: AttemptsService.finish().
ResultIsFinal ==
    [][\A a \in Attempts : isFinished(attempt[a]) => attempt'[a] = attempt[a]]_vars

\* An attempt gets one clock and one question order, however many tabs start
\* it: TakeService.start().
OneClock ==
    [][\A a \in Attempts : attempt[a].status # "NOT_STARTED" =>
          /\ attempt'[a].startedAt = attempt[a].startedAt
          /\ attempt'[a].deadlineAt = attempt[a].deadlineAt
          /\ attempt'[a].layout = attempt[a].layout]_vars

\* The final status tells whether time ran out.  Nobody's test is closed as
\* EXPIRED inside the grace period, and a SUBMITTED one was handed in by its
\* end, give or take the two statements between the check and the update.
StatusTellsTime ==
    \A a \in Attempts :
        /\ attempt[a].status = "EXPIRED" =>
              attempt[a].finishedAt > attempt[a].deadlineAt + Grace
        /\ attempt[a].status = "SUBMITTED" =>
              attempt[a].finishedAt <= attempt[a].deadlineAt + Grace + 2 * Lag

\* The time taken shown to staff never exceeds the test's limit, though the
\* attempt may be closed long after its deadline.
TimeTakenInLimit ==
    \A a \in Attempts :
        isFinished(attempt[a]) => attempt[a].timeTaken \in 0 .. Duration[a]

\* No test starts after the link expired, though the guard keeps an expired
\* link open while another of its tests is running.
StartedWhileOpen ==
    \A a \in Attempts :
        attempt[a].startedAt # None => attempt[a].startedAt < LinkExpiry

\* What start() returns carries the stored clock and order: of two tabs that
\* start at once, the one that lost shows the winner's.
ViewShowsStored ==
    \A r \in Requests : req[r].pc = "view" =>
        LET row == attempt[req[r].att] IN
        /\ req[r].row.deadlineAt = row.deadlineAt /\ row.deadlineAt # None
        /\ req[r].row.layout = row.layout /\ row.layout # None

\* No reader that sweeps shows a stale "in progress": an attempt whose grace
\* was over when the request arrived is closed by the time its rows are read.
\* It needs a statement to arrive within the shortest test plus its grace
\* (LagAssumption below): a start held up longer writes an overdue deadline.
ReadersSeeNoStale ==
    \A r \in Requests, a \in Attempts :
        /\ req[r].pc = "read"
        /\ attempt[a].status = "IN_PROGRESS"
        => attempt[a].deadlineAt + Grace >= req[r].at

\* submit() always answers with a final status, also when another request
\* closed the attempt under it.
SubmitAnswersFinal ==
    \A r \in Requests :
        req[r].pc = "status" => isFinished(attempt[req[r].att])

\* What only a candidate's request does: an answer is saved, a test is started
\* or handed in.  Closing a test as EXPIRED is everybody's.
CandidateWrites(a) ==
    \/ answers'[a] # answers[a]
    \/ attempt'[a] # attempt[a] /\ attempt'[a].status # "EXPIRED"

\* A revoked link takes nothing more: what is still saved, started or handed in
\* belongs to a request that had passed the guard by then.
RevokedIsQuiet ==
    [][revokedAt # None /\ (\E a \in Attempts : CandidateWrites(a)) =>
          \E r \in Requests : /\ req'[r] # req[r]
                              /\ req[r].op \in CandidateOps
                              /\ req[r].at <= revokedAt]_vars

\* The answers staff see next to a score are the ones that were scored.  True
\* of one request at a time; overlapping requests break it.
ScoreIsOfStoredAnswers ==
    \A a \in Attempts :
        isFinished(attempt[a]) => attempt[a].scored = answers[a]

\* "Refuses answers before the start, after the finish, and after the
\* deadline" (TakeService.assertOpen): a finished test's answers stay.
NoAnswerAfterFinish ==
    [][\A a \in Attempts : isFinished(attempt[a]) => answers'[a] = answers[a]]_vars

\* An attempt that was overdue when a sweeping request arrived gets closed.
SweepCloses ==
    \A r \in Requests, a \in Attempts :
        (/\ req[r].pc = "sweep" /\ attempt[a].status = "IN_PROGRESS"
         /\ attempt[a].deadlineAt + Grace < req[r].since)
            ~> isFinished(attempt[a])

\* Every request gets its answer: the loop over overdue attempts ends although
\* other requests close, start and sweep the same attempts meanwhile.
CallsReturn == \A r \in Requests : (req[r].pc # "idle") ~> (req[r].pc = "idle")

\* A sweep comes to an end, and by then what it was to close is closed.
SweepsEnd == SweepCloses /\ CallsReturn

\* Take implements AttemptLife: a row holds the clock and the result.
ClockOf(row) ==
    IF row.status = "NOT_STARTED" THEN None
    ELSE [start |-> row.startedAt, deadline |-> row.deadlineAt, order |-> row.layout]

ResultOf(row) ==
    IF ~isFinished(row) THEN None
    ELSE [status |-> row.status, at |-> row.finishedAt,
          scored |-> row.scored, taken |-> row.timeTaken]

Life == INSTANCE AttemptLife WITH
    clock  <- [a \in Attempts |-> ClockOf(attempt[a])],
    result <- [a \in Attempts |-> ResultOf(attempt[a])]

\* Every step of every request is one of the promised steps or changes
\* nothing that was promised.
ImplementsLife == Life!Spec

=============================================================================
