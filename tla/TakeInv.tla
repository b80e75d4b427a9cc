------------------------------- MODULE TakeInv -------------------------------
(***************************************************************************)
(* The inductive invariant of Take: what each handler may rely on at each  *)
(* of its awaits, whatever other requests did since its last statement.    *)
(***************************************************************************)
EXTENDS Take

\* An attempt row holds its clock once started and its result once finished.
RowShape(a) ==
    LET row == attempt[a] IN
    /\ row.status = "NOT_STARTED" =>
          row.startedAt = None /\ row.deadlineAt = None /\ row.layout = None
    /\ row.status # "NOT_STARTED" =>
          /\ row.startedAt \in 0 .. now
          /\ row.startedAt < LinkExpiry
          /\ row.deadlineAt = row.startedAt + Duration[a]
          /\ row.layout \in Layouts
    /\ isFinished(row) =>
          /\ row.finishedAt \in row.startedAt .. now
          /\ row.timeTaken \in 0 .. Duration[a]
    /\ row.status = "EXPIRED" => row.finishedAt > row.deadlineAt + Grace
    /\ row.status = "SUBMITTED" => row.finishedAt <= row.deadlineAt + Grace + 2 * Lag

\* A handler's arguments fit its operation, and its last statement was not
\* more than Lag ago.
CallShape(r) ==
    /\ req[r].pc = "idle" => req[r] = Idle
    /\ req[r].pc # "idle" =>
          /\ req[r].op \in Ops
          /\ req[r].at \in Nat /\ req[r].since \in Nat
          /\ req[r].at <= req[r].since
          /\ req[r].since <= now /\ now <= req[r].since + Lag
    /\ req[r].op \in {"start", "submit", "answer"} => req[r].att \in Attempts
    /\ req[r].op = "answer" => req[r].ques \in Questions /\ req[r].opt \in Options
    /\ req[r].pc \in {"find", "save"} => req[r].op \in {"start", "submit", "answer"}
    /\ req[r].pc = "save" => req[r].op = "answer"
    /\ req[r].pc \in {"clock", "reread", "view"} => req[r].op = "start"
    /\ req[r].pc = "status" => req[r].op = "submit"
    /\ req[r].pc = "sweep" => req[r].op \in {"overview", "results", "start"}
    /\ req[r].pc = "read" => req[r].op \in {"overview", "results"}

\* A handler that is finishing attempts has found them started, and overdue
\* if it is going to expire them.
Finishing(r) ==
    req[r].pc \in {"score", "close"} =>
        /\ req[r].todo # {}
        /\ req[r].verdict \in FINISHED_STATUSES
        /\ \A a \in req[r].todo :
              /\ attempt[a].status # "NOT_STARTED"
              /\ attempt[a].startedAt <= req[r].since
              /\ req[r].verdict = "EXPIRED" =>
                    attempt[a].deadlineAt + Grace < req[r].since
              /\ req[r].verdict = "SUBMITTED" =>
                    req[r].since <= attempt[a].deadlineAt + Grace
                                      + (IF req[r].pc = "close" THEN Lag ELSE 0)
        /\ req[r].op \in {"overview", "results", "start"} => req[r].verdict = "EXPIRED"
        /\ req[r].op \in {"submit", "answer"} => req[r].todo = {req[r].att}
        /\ req[r].pc = "close" => req[r].cur \in req[r].todo /\ req[r].sheet \in Sheets

\* What start() and submit() have established by their later statements.
Reached(r) ==
    /\ req[r].pc = "reread" => attempt[req[r].att].status # "NOT_STARTED"
    /\ req[r].pc = "view" =>
          /\ attempt[req[r].att].status # "NOT_STARTED"
          /\ req[r].row \in Rows
          /\ req[r].row.deadlineAt = attempt[req[r].att].deadlineAt
          /\ req[r].row.layout = attempt[req[r].att].layout
    /\ req[r].pc = "status" => isFinished(attempt[req[r].att])

\* Past its sweep, a reader still has every attempt on its list that was
\* overdue when it arrived and is not closed yet.
SweptSoFar(r) ==
    req[r].op \in {"overview", "results"} /\ req[r].pc # "sweep" =>
        \A a \in Attempts :
            /\ attempt[a].status = "IN_PROGRESS"
            /\ attempt[a].deadlineAt + Grace < req[r].at
            => req[r].pc \in {"score", "close"} /\ a \in req[r].todo

IInv ==
    /\ TypeOK
    /\ \A a \in Attempts : RowShape(a)
    /\ \A r \in Requests : /\ CallShape(r)
                           /\ Finishing(r)
                           /\ Reached(r)
                           /\ SweptSoFar(r)

\* A candidate's request in flight passed the guard before any revoke.
LetIn ==
    \A r \in Requests :
        revokedAt # None /\ req[r].op \in CandidateOps => req[r].at <= revokedAt

-----------------------------------------------------------------------------

(* The clock is kept.  A status tells whether time ran out, with the grace   *)
(* and two statements to spare; the time taken lies within the limit; no     *)
(* test starts on a link that has expired.                                   *)
ClockIsKept == StatusTellsTime /\ TimeTakenInLimit /\ StartedWhileOpen

(* Answers to the candidate and the staff are true.  start() returns the     *)
(* stored clock and order, submit() a final status, and a reader that sweeps *)
(* shows no attempt as running that was over when it was asked.              *)
RepliesAreTrue == ViewShowsStored /\ SubmitAnswersFinal /\ ReadersSeeNoStale

=============================================================================
