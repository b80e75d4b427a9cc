----------------------------- MODULE TakeProofs -----------------------------
(***************************************************************************)
(* IInv is an invariant of Take, for any number of attempts, questions and *)
(* requests, and what follows from it.                                     *)
(***************************************************************************)
EXTENDS TakeInv, TLAPS

CallInv(r) == CallShape(r) /\ Finishing(r) /\ Reached(r) /\ SweptSoFar(r)

\* What one step may do to an attempt's row.
RowStep(a) ==
    \/ attempt'[a] = attempt[a]
    \/ /\ attempt[a].status = "NOT_STARTED"
       /\ attempt'[a].status = "IN_PROGRESS"
       /\ attempt'[a].startedAt \in Nat
       /\ attempt'[a].deadlineAt \in Nat
       /\ attempt'[a].deadlineAt + Grace >= now
    \/ /\ attempt[a].status = "IN_PROGRESS"
       /\ attempt'[a].status \in FINISHED_STATUSES
       /\ attempt'[a].startedAt = attempt[a].startedAt
       /\ attempt'[a].deadlineAt = attempt[a].deadlineAt
       /\ attempt'[a].layout = attempt[a].layout

-----------------------------------------------------------------------------

LEMMA RecordTypes ==
    ASSUME TypeOK, NEW r \in Requests
    PROVE  /\ req[r] \in Calls
           /\ req[r].pc \in Pcs /\ req[r].op \in Ops \cup {"none"}
           /\ req[r].att \in Attempts \cup {None}
           /\ req[r].todo \subseteq Attempts
  BY DEF TypeOK, Calls

\* A request keeps its part of the invariant while other requests move rows on.
LEMMA OthersKeep ==
    ASSUME IInv, NEW s \in Requests, req'[s] = req[s], now' = now,
           \A a \in Attempts : RowStep(a)
    PROVE  CallInv(s)'
<1> USE TimeAssumption, NoneAssumption
<1>1. req[s] \in Calls
  BY RecordTypes DEF IInv
<1>2. CallShape(s)'
  BY DEF IInv, CallShape
<1>3. Finishing(s)'
  <2> SUFFICES ASSUME req[s].pc \in {"score", "close"} PROVE Finishing(s)'
    BY DEF Finishing
  <2>1. \A a \in req[s].todo : /\ a \in Attempts
                               /\ attempt'[a].status # "NOT_STARTED"
                               /\ attempt'[a].startedAt = attempt[a].startedAt
                               /\ attempt'[a].deadlineAt = attempt[a].deadlineAt
    BY <1>1 DEF IInv, Finishing, RowStep, FINISHED_STATUSES, Calls
  <2> QED BY <2>1 DEF IInv, Finishing
<1>4. Reached(s)'
  <2>1. CASE req[s].pc \in {"reread", "view", "status"}
    <3>1. req[s].att \in Attempts
      BY <2>1 DEF IInv, CallShape
    <3> QED BY <2>1, <3>1 DEF IInv, Reached, RowStep, isFinished, FINISHED_STATUSES
  <2>2. CASE req[s].pc \notin {"reread", "view", "status"}
    BY <2>2 DEF Reached
  <2> QED BY <2>1, <2>2
<1>5. SweptSoFar(s)'
  <2> SUFFICES ASSUME req[s].op \in {"overview", "results"}, req[s].pc # "sweep",
                      NEW a \in Attempts, attempt'[a].status = "IN_PROGRESS",
                      attempt'[a].deadlineAt + Grace < req[s].at
               PROVE  req[s].pc \in {"score", "close"} /\ a \in req[s].todo
    BY DEF SweptSoFar
  <2>1. req[s].pc # "idle"
    BY NoneAssumption DEF IInv, CallShape, Idle
  <2>2. req[s].at \in Nat /\ now \in Nat /\ req[s].at <= now
    BY <2>1 DEF IInv, CallShape, TypeOK
  <2>3. attempt'[a] = attempt[a]
    BY <2>2 DEF RowStep, FINISHED_STATUSES
  <2> QED BY <2>3 DEF IInv, SweptSoFar
<1> QED BY <1>2, <1>3, <1>4, <1>5 DEF CallInv


\* The part of a step that concerns requests other than the one that moves.
LEMMA StepOfOne ==
    ASSUME IInv, NEW r \in Requests, now' = now, TypeOK',
           \A a \in Attempts : RowShape(a)',
           \A a \in Attempts : RowStep(a),
           \A s \in Requests \ {r} : req'[s] = req[s],
           CallInv(r)'
    PROVE  IInv'
<1>1. \A s \in Requests : CallInv(s)'
  BY OthersKeep
<1> QED BY <1>1 DEF IInv, CallInv

\* A handler that returned is idle, and an idle request owes nothing.
LEMMA IdleIsFine ==
    ASSUME NEW r \in Requests, req'[r] = Idle
    PROVE  CallInv(r)'
  BY DEF CallInv, CallShape, Finishing, Reached, SweptSoFar, Idle

LEMMA IdleCall == Idle \in Calls
  BY DEF Idle, Calls, Pcs, Times

LEMMA ReturnKeeps ==
    ASSUME IInv, NEW r \in Requests, Return(r), UNCHANGED <<now, revokedAt, attempt>>,
           opened' \in BOOLEAN, answers' \in [Attempts -> Sheets]
    PROVE  IInv'
<1>1. /\ req'[r] = Idle
      /\ \A s \in Requests \ {r} : req'[s] = req[s]
  BY DEF IInv, TypeOK, Return
<1>2. TypeOK'
  BY IdleCall DEF IInv, TypeOK, Return
<1>3. \A a \in Attempts : RowShape(a)'
  BY DEF IInv, RowShape, isFinished
<1>4. \A a \in Attempts : RowStep(a)
  BY DEF RowStep
<1> QED BY <1>1, <1>2, <1>3, <1>4, IdleIsFine, StepOfOne

\* Only r's record moves, and stays well typed.
Moves(r) == req' = [req EXCEPT ![r] = req'[r]] /\ req'[r] \in Calls

\* The request's arguments and arrival time stay with it.
SameCall(r) ==
    /\ req'[r].op = req[r].op /\ req'[r].att = req[r].att
    /\ req'[r].ques = req[r].ques /\ req'[r].opt = req[r].opt
    /\ req'[r].at = req[r].at

\* A read-only step of one handler.
LEMMA ReadOnlyKeeps ==
    ASSUME IInv, NEW r \in Requests, UNCHANGED <<now, revokedAt, opened, attempt, answers>>,
           Moves(r), CallInv(r)'
    PROVE  IInv'
<1>1. \A s \in Requests \ {r} : req'[s] = req[s]
  BY DEF IInv, TypeOK, Moves
<1>2. TypeOK'
  BY DEF IInv, TypeOK, Moves
<1>3. \A a \in Attempts : RowShape(a)'
  BY DEF IInv, RowShape, isFinished
<1>4. \A a \in Attempts : RowStep(a)
  BY DEF RowStep
<1> QED BY <1>1, <1>2, <1>3, <1>4, StepOfOne

\* What Goto() and FinishAll() leave in the record.
LEMMA GotoMoves ==
    ASSUME TypeOK, NEW r \in Requests, NEW p \in Pcs, Goto(r, p)
    PROVE  /\ Moves(r) /\ SameCall(r)
           /\ req'[r].pc = p /\ req'[r].since = now
           /\ req'[r].todo = req[r].todo /\ req'[r].row = req[r].row
<1> DEFINE c == [req[r] EXCEPT !.pc = p, !.since = now]
<1>0. req[r] \in Calls /\ now \in Times
  BY RecordTypes DEF TypeOK, Times
<1>1. c \in Calls
  BY <1>0 DEF Calls
<1>2. req' = [req EXCEPT ![r] = c] /\ req'[r] = c
  BY RecordTypes DEF Goto, TypeOK
<1>3. /\ c.op = req[r].op /\ c.att = req[r].att /\ c.ques = req[r].ques
      /\ c.opt = req[r].opt /\ c.at = req[r].at
      /\ c.pc = p /\ c.since = now /\ c.todo = req[r].todo /\ c.row = req[r].row
  BY <1>0 DEF Calls
<1> HIDE DEF c
<1> QED BY <1>1, <1>2, <1>3 DEF Moves, SameCall

LEMMA FinishAllMoves ==
    ASSUME TypeOK, NEW r \in Requests, NEW todo \in SUBSET Attempts,
           NEW verdict \in FINISHED_STATUSES, FinishAll(r, todo, verdict)
    PROVE  /\ Moves(r) /\ SameCall(r)
           /\ req'[r].pc = "score" /\ req'[r].since = now
           /\ req'[r].todo = todo /\ req'[r].verdict = verdict
<1> DEFINE c == [req[r] EXCEPT !.pc = "score", !.since = now,
                               !.todo = todo, !.verdict = verdict]
<1>0. /\ req[r] \in Calls /\ "score" \in Pcs /\ now \in Times
      /\ verdict \in FINISHED_STATUSES \cup {"none"}
  BY RecordTypes DEF Pcs, TypeOK, Times
<1>1. c \in Calls
  BY <1>0 DEF Calls
<1>2. req' = [req EXCEPT ![r] = c] /\ req'[r] = c
  BY RecordTypes DEF FinishAll, TypeOK
<1>3. /\ c.op = req[r].op /\ c.att = req[r].att /\ c.ques = req[r].ques
      /\ c.opt = req[r].opt /\ c.at = req[r].at
      /\ c.pc = "score" /\ c.since = now /\ c.todo = todo /\ c.verdict = verdict
  BY <1>0 DEF Calls
<1> HIDE DEF c
<1> QED BY <1>1, <1>2, <1>3 DEF Moves, SameCall

-----------------------------------------------------------------------------
(* The statements of a handler, one lemma each.                             *)

LEMMA SweepKeeps ==
    ASSUME IInv, NEW r \in Requests, Sweep(r)
    PROVE  IInv'
<1> USE TimeAssumption, NoneAssumption
<1>0. /\ req[r] \in Calls /\ req[r].pc = "sweep" /\ now \in Nat
      /\ req[r].op \in {"overview", "results", "start"}
      /\ req[r].at \in Nat /\ req[r].at <= now
      /\ UNCHANGED <<now, revokedAt, opened, attempt, answers>>
  BY RecordTypes DEF IInv, TypeOK, CallShape, Sweep, invitation, tables
<1>t. PICK t \in req[r].since .. now :
          IF Overdue(t) = {} THEN Goto(r, AfterFinish(req[r].op))
          ELSE FinishAll(r, Overdue(t), "EXPIRED")
  BY DEF Sweep
<1>u. /\ t \in Nat /\ t <= now /\ req[r].at <= t
  BY <1>0, <1>t DEF IInv, CallShape
<1>1. \A a \in Attempts : attempt[a].status = "IN_PROGRESS" =>
          /\ attempt[a].startedAt \in Nat /\ attempt[a].startedAt <= now
          /\ attempt[a].deadlineAt \in Nat
  BY SnapshotAssumption, <1>0 DEF IInv, RowShape
<1>2. CASE Overdue(t) = {}
  <2> DEFINE p == AfterFinish(req[r].op)
  <2>1. p \in Pcs /\ p = (IF req[r].op = "start" THEN "find" ELSE "read")
    BY <1>0 DEF AfterFinish, Pcs
  <2>2. TypeOK /\ Goto(r, p)
    BY <1>2, <1>t DEF IInv
  <2>3. Moves(r) /\ SameCall(r) /\ req'[r].pc = p /\ req'[r].since = now
    BY <2>1, <2>2, GotoMoves
  <2>4. CallShape(r)'
    BY <1>0, <2>1, <2>3 DEF SameCall, IInv, CallShape, Ops, CandidateOps
  <2>5. Finishing(r)' /\ Reached(r)'
    BY <2>1, <2>3 DEF Finishing, Reached
  <2>6. SweptSoFar(r)'
    BY <1>0, <1>1, <1>2, <1>u, <2>1, <2>3 DEF SameCall, SweptSoFar, Overdue
  <2> QED BY <1>0, <2>3, <2>4, <2>5, <2>6, ReadOnlyKeeps DEF CallInv
<1>3. CASE Overdue(t) # {}
  <2>1. /\ Overdue(t) \in SUBSET Attempts /\ "EXPIRED" \in FINISHED_STATUSES
        /\ TypeOK /\ FinishAll(r, Overdue(t), "EXPIRED")
    BY <1>3, <1>t DEF Overdue, FINISHED_STATUSES, IInv
  <2>3. /\ Moves(r) /\ SameCall(r) /\ req'[r].pc = "score" /\ req'[r].since = now
        /\ req'[r].todo = Overdue(t) /\ req'[r].verdict = "EXPIRED"
    BY <2>1, FinishAllMoves
  <2>4. CallShape(r)'
    BY <1>0, <2>3 DEF SameCall, IInv, CallShape, Ops, CandidateOps
  <2>5. Finishing(r)' /\ Reached(r)'
    BY <1>0, <1>1, <1>3, <1>u, <2>3 DEF SameCall, Finishing, Reached, Overdue, FINISHED_STATUSES
  <2>6. SweptSoFar(r)'
    BY <1>0, <1>1, <1>u, <2>3 DEF SameCall, SweptSoFar, Overdue
  <2> QED BY <1>0, <2>3, <2>4, <2>5, <2>6, ReadOnlyKeeps DEF CallInv
<1> QED BY <1>2, <1>3

\* Tabs, staff and reads start here.
LEMMA AcceptKeeps ==
    ASSUME IInv, NEW r \in Requests, NEW op \in Ops,
           NEW a \in Attempts \cup {None}, NEW q \in Questions \cup {None},
           NEW o \in Options \cup {None}, Accept(r, op, a, q, o),
           op \in {"start", "submit", "answer"} => a \in Attempts,
           op = "answer" => q \in Questions /\ o \in Options
    PROVE  IInv'
<1> USE TimeAssumption, NoneAssumption
<1> DEFINE c == [Idle EXCEPT !.pc = FirstStatement(op), !.op = op, !.att = a,
                             !.ques = q, !.opt = o, !.at = now, !.since = now]
<1>0. now \in Nat /\ UNCHANGED <<now, revokedAt, opened, attempt, answers>>
  BY DEF IInv, TypeOK, Accept, invitation, tables
<1>1. Moves(r) /\ req'[r] = c
  BY <1>0 DEF Moves, Accept, Idle, FirstStatement, Calls, Pcs, Times, IInv, TypeOK
<1>2. /\ c.pc \in {"find", "sweep"} /\ (c.pc = "find" <=> op \in {"answer", "submit"})
      /\ c.op = op /\ c.att = a /\ c.ques = q /\ c.opt = o /\ c.at = now /\ c.since = now
  BY DEF FirstStatement, Idle
<1> HIDE DEF c
<1>3. CallShape(r)'
  BY <1>0, <1>1, <1>2 DEF CallShape, Ops, CandidateOps
<1>4. Finishing(r)' /\ Reached(r)'
  BY <1>1, <1>2 DEF Finishing, Reached
<1>5. SweptSoFar(r)'
  BY <1>1, <1>2 DEF SweptSoFar, Ops, CandidateOps
<1> QED BY <1>0, <1>1, <1>3, <1>4, <1>5, ReadOnlyKeeps DEF CallInv

\* finish() returned: what its caller then holds.
LEMMA FinishedMoves ==
    ASSUME IInv, NEW r \in Requests, req[r].pc \in {"score", "close"},
           NEW a \in req[r].todo, Finished(r, a)
    PROVE  /\ Moves(r)
           /\ \/ /\ req[r].todo \ {a} # {} /\ SameCall(r)
                 /\ req'[r].pc = "score" /\ req'[r].since = now
                 /\ req'[r].todo = req[r].todo \ {a}
                 /\ req'[r].verdict = req[r].verdict
              \/ req'[r] = Idle
              \/ /\ req[r].todo \ {a} = {} /\ req[r].op # "answer" /\ SameCall(r)
                 /\ req'[r].pc = AfterFinish(req[r].op) /\ req'[r].since = now
<1> DEFINE rest == req[r].todo \ {a}
           done == [req[r] EXCEPT !.since = now, !.todo = rest,
                                  !.cur = None, !.sheet = None]
<1>0. /\ req[r] \in Calls /\ now \in Times /\ rest \in SUBSET Attempts
      /\ req \in [Requests -> Calls]
  BY RecordTypes DEF IInv, TypeOK, Times
<1>1. /\ done \in Calls /\ done.op = req[r].op /\ done.att = req[r].att
      /\ done.ques = req[r].ques /\ done.opt = req[r].opt /\ done.at = req[r].at
      /\ done.since = now /\ done.todo = rest /\ done.verdict = req[r].verdict
  <2> HIDE DEF rest
  <2> QED BY <1>0 DEF Calls
<1>2. req' = [req EXCEPT ![r] =
                CASE rest # {}            -> [done EXCEPT !.pc = "score"]
                  [] rest = {} /\ req[r].op = "answer" -> Idle
                  [] OTHER -> [done EXCEPT !.pc = AfterFinish(req[r].op),
                                           !.verdict = "none"]]
  BY DEF Finished, Remaining
<1> HIDE DEF done, rest
<1>3. CASE rest # {}
  <2> DEFINE c == [done EXCEPT !.pc = "score"]
  <2>1. req' = [req EXCEPT ![r] = c]
    BY <1>2, <1>3
  <2>2. /\ c \in Calls /\ c.op = done.op /\ c.att = done.att /\ c.ques = done.ques
        /\ c.opt = done.opt /\ c.at = done.at /\ c.since = done.since
        /\ c.todo = done.todo /\ c.verdict = done.verdict /\ c.pc = "score"
    BY <1>1 DEF Calls, Pcs
  <2> HIDE DEF c
  <2>3. req'[r] = c
    BY <1>0, <2>1
  <2> QED BY <1>1, <1>3, <2>1, <2>2, <2>3 DEF Moves, SameCall, rest
<1>4. CASE rest = {} /\ req[r].op = "answer"
  <2>1. req' = [req EXCEPT ![r] = Idle] /\ req'[r] = Idle
    BY <1>0, <1>2, <1>4
  <2> QED BY <2>1, IdleCall DEF Moves
<1>5. CASE rest = {} /\ req[r].op # "answer"
  <2> DEFINE p == AfterFinish(req[r].op)
             c == [done EXCEPT !.pc = p, !.verdict = "none"]
  <2>1. req' = [req EXCEPT ![r] = c]
    BY <1>2, <1>5
  <2>2. p \in Pcs
    BY DEF AfterFinish, Pcs
  <2> HIDE DEF p
  <2>3. /\ c \in Calls /\ c.op = done.op /\ c.att = done.att /\ c.ques = done.ques
        /\ c.opt = done.opt /\ c.at = done.at /\ c.since = done.since /\ c.pc = p
    BY <1>1, <2>2 DEF Calls
  <2> HIDE DEF c
  <2>4. req'[r] = c
    BY <1>0, <2>1
  <2> QED BY <1>1, <1>5, <2>1, <2>3, <2>4 DEF Moves, SameCall, rest, p
<1> QED BY <1>3, <1>4, <1>5

\* The attempt finish() was called for is finished when it returns.
LEMMA FinishedKeeps ==
    ASSUME IInv, NEW r \in Requests, req[r].pc \in {"score", "close"},
           NEW a \in req[r].todo, Finished(r, a), now' = now,
           isFinished(attempt'[a]), \A b \in Attempts : RowStep(b)
    PROVE  Moves(r) /\ CallInv(r)'
<1> USE TimeAssumption, NoneAssumption
<1>0. /\ req[r] \in Calls /\ req[r].todo \subseteq Attempts /\ now \in Nat
      /\ req[r].at \in Nat /\ req[r].since \in Nat
      /\ req[r].at <= req[r].since /\ req[r].since <= now
  BY RecordTypes DEF IInv, CallShape, TypeOK
<1>1. \A b \in req[r].todo : /\ attempt'[b].status # "NOT_STARTED"
                             /\ attempt'[b].startedAt = attempt[b].startedAt
                             /\ attempt'[b].deadlineAt = attempt[b].deadlineAt
  BY <1>0 DEF IInv, Finishing, RowStep, FINISHED_STATUSES
<1>2. /\ req[r].verdict \in FINISHED_STATUSES
      /\ req[r].op \in {"submit", "answer"} => req[r].todo = {req[r].att}
      /\ req[r].op \in {"overview", "results", "start"} => req[r].verdict = "EXPIRED"
      /\ req[r].op \in {"submit", "answer", "overview", "results", "start"}
  BY DEF IInv, Finishing, CallShape, Ops, CandidateOps
<1>3. CASE /\ req[r].todo \ {a} # {} /\ SameCall(r) /\ Moves(r)
           /\ req'[r].pc = "score" /\ req'[r].since = now
           /\ req'[r].todo = req[r].todo \ {a}
           /\ req'[r].verdict = req[r].verdict
  <2>1. CallShape(r)'
    BY <1>0, <1>3 DEF IInv, CallShape, SameCall
  <2>2. req[r].verdict = "EXPIRED" /\ req[r].op \in {"overview", "results", "start"}
    BY <1>2, <1>3
  <2>3. \A b \in req[r].todo : /\ b \in Attempts /\ attempt[b].startedAt \in Nat
                               /\ attempt[b].deadlineAt \in Nat
                               /\ attempt[b].startedAt <= now
                               /\ attempt[b].deadlineAt + Grace < req[r].since
    BY <1>0, <2>2, SnapshotAssumption DEF IInv, Finishing, RowShape
  <2>4. Finishing(r)'
    BY <1>0, <1>1, <1>2, <1>3, <2>2, <2>3 DEF Finishing, SameCall
  <2>5. Reached(r)'
    BY <1>3 DEF Reached
  <2>6. SweptSoFar(r)'
    <3> SUFFICES ASSUME req[r].op \in {"overview", "results"},
                        NEW b \in Attempts, attempt'[b].status = "IN_PROGRESS",
                        attempt'[b].deadlineAt + Grace < req[r].at
                 PROVE  b \in req[r].todo \ {a}
      BY <1>3 DEF SweptSoFar, SameCall
    <3>1. attempt'[b] = attempt[b] /\ b # a
      BY <1>0 DEF RowStep, FINISHED_STATUSES, isFinished
    <3> QED BY <3>1 DEF IInv, SweptSoFar
  <2> QED BY <1>3, <2>1, <2>4, <2>5, <2>6 DEF CallInv
<1>4. CASE req'[r] = Idle /\ Moves(r)
  BY <1>4, IdleIsFine
<1>5. CASE /\ req[r].todo \ {a} = {} /\ req[r].op # "answer" /\ SameCall(r) /\ Moves(r)
           /\ req'[r].pc = AfterFinish(req[r].op) /\ req'[r].since = now
  <2>1. /\ req[r].op = "start" => req'[r].pc = "find"
        /\ req[r].op = "submit" => req'[r].pc = "status"
        /\ req[r].op \in {"overview", "results"} => req'[r].pc = "read"
    BY <1>5 DEF AfterFinish
  <2>2. CallShape(r)'
    BY <1>0, <1>2, <1>5, <2>1 DEF IInv, CallShape, SameCall
  <2>3. Finishing(r)'
    BY <1>2, <1>5, <2>1 DEF Finishing
  <2>4. Reached(r)'
    BY <1>2, <1>5, <2>1 DEF Reached, SameCall
  <2>5. SweptSoFar(r)'
    <3> SUFFICES ASSUME req[r].op \in {"overview", "results"},
                        NEW b \in Attempts, attempt'[b].status = "IN_PROGRESS",
                        attempt'[b].deadlineAt + Grace < req[r].at
                 PROVE  FALSE
      BY <1>5 DEF SweptSoFar, SameCall
    <3>1. attempt'[b] = attempt[b] /\ b # a
      BY <1>0 DEF RowStep, FINISHED_STATUSES, isFinished
    <3> QED BY <1>5, <3>1 DEF IInv, SweptSoFar
  <2> QED BY <1>5, <2>2, <2>3, <2>4, <2>5 DEF CallInv
<1> QED BY <1>3, <1>4, <1>5, FinishedMoves

LEMMA ReadForScoreKeeps ==
    ASSUME IInv, NEW r \in Requests, ReadForScore(r)
    PROVE  IInv'
<1> USE TimeAssumption, NoneAssumption
<1>0. /\ req[r] \in Calls /\ req \in [Requests -> Calls]
      /\ req[r].todo \subseteq Attempts /\ req[r].pc = "score"
      /\ now \in Nat /\ attempt \in [Attempts -> Rows] /\ answers \in [Attempts -> Sheets]
      /\ UNCHANGED <<now, revokedAt, opened, attempt, answers>>
  BY RecordTypes DEF IInv, TypeOK, ReadForScore, invitation, tables
<1>1. PICK a \in req[r].todo :
          IF attempt[a].status # "IN_PROGRESS" THEN Finished(r, a)
          ELSE req' = [req EXCEPT ![r].pc = "close", ![r].since = now,
                                  ![r].cur = a, ![r].sheet = answers[a]]
  BY DEF ReadForScore
<1>2. CASE attempt[a].status # "IN_PROGRESS"
  <2>1. isFinished(attempt'[a])
    <3>1. a \in Attempts /\ attempt[a].status \in Statuses
      BY <1>0 DEF Rows
    <3>2. attempt[a].status # "NOT_STARTED"
      BY <1>0 DEF IInv, Finishing
    <3> QED BY <1>0, <1>2, <3>1, <3>2 DEF isFinished, Statuses, FINISHED_STATUSES
  <2>2. \A b \in Attempts : RowStep(b)
    BY <1>0 DEF RowStep
  <2>3. Moves(r) /\ CallInv(r)'
    BY <1>0, <1>1, <1>2, <2>1, <2>2, FinishedKeeps
  <2> QED BY <1>0, <2>3, ReadOnlyKeeps
<1>3. CASE attempt[a].status = "IN_PROGRESS"
  <2> DEFINE c == [req[r] EXCEPT !.pc = "close", !.since = now,
                                 !.cur = a, !.sheet = answers[a]]
  <2>1. req' = [req EXCEPT ![r] = c]
    BY <1>0, <1>1, <1>3
  <2>2. a \in Attempts /\ answers[a] \in Sheets /\ "close" \in Pcs /\ now \in Times
    BY <1>0 DEF Pcs, Times
  <2>3. c \in Calls
    BY <1>0, <2>2 DEF Calls
  <2>4. /\ c.pc = "close" /\ c.since = now /\ c.cur = a /\ c.sheet = answers[a]
        /\ c.op = req[r].op /\ c.att = req[r].att /\ c.at = req[r].at
        /\ c.ques = req[r].ques /\ c.opt = req[r].opt
        /\ c.todo = req[r].todo /\ c.verdict = req[r].verdict
    BY <1>0 DEF Calls
  <2> HIDE DEF c
  <2>5. req'[r] = c
    BY <1>0, <2>1
  <2>6. Moves(r)
    BY <2>1, <2>3, <2>5 DEF Moves
  <2>7. CallShape(r)'
    BY <1>0, <2>4, <2>5 DEF IInv, CallShape
  <2>8. Finishing(r)'
    <3>1. /\ req[r].since \in Nat /\ req[r].since <= now /\ now <= req[r].since + Lag
      BY <1>0 DEF IInv, CallShape
    <3>2. \A b \in req[r].todo : /\ attempt[b].startedAt \in Nat
                                 /\ attempt[b].deadlineAt \in Nat
      BY <1>0, SnapshotAssumption DEF IInv, Finishing, RowShape
    <3> QED BY <1>0, <2>2, <2>4, <2>5, <3>1, <3>2 DEF IInv, Finishing, FINISHED_STATUSES
  <2>9. Reached(r)'
    BY <2>4, <2>5 DEF Reached
  <2>10. SweptSoFar(r)'
    BY <1>0, <2>4, <2>5 DEF IInv, SweptSoFar
  <2> QED BY <1>0, <2>6, <2>7, <2>8, <2>9, <2>10, ReadOnlyKeeps DEF CallInv
<1> QED BY <1>2, <1>3

\* The time taken lies between nothing and the whole limit.
LEMMA TimeTakenBounds ==
    ASSUME NEW row \in Rows, NEW a \in Attempts, NEW t \in Nat,
           row.startedAt \in Nat, row.startedAt <= t,
           row.deadlineAt = row.startedAt + Duration[a]
    PROVE  TimeTaken(row, t) \in 0 .. Duration[a]
<1>1. Duration[a] \in Nat /\ row.startedAt # None /\ row.deadlineAt # None
  BY SnapshotAssumption, NoneAssumption
<1> QED BY <1>1 DEF TimeTaken

LEMMA CloseKeeps ==
    ASSUME IInv, NEW r \in Requests, Close(r)
    PROVE  IInv'
<1> USE TimeAssumption, NoneAssumption
<1>0. /\ req[r] \in Calls /\ req \in [Requests -> Calls]
      /\ now \in Nat /\ attempt \in [Attempts -> Rows] /\ answers \in [Attempts -> Sheets]
      /\ UNCHANGED <<now, revokedAt, opened, answers>>
      /\ req[r].pc = "close" /\ req[r].cur \in req[r].todo
  BY RecordTypes DEF IInv, TypeOK, Close, invitation, Finishing
<1> PICK a \in req[r].todo : a = req[r].cur
  BY <1>0
<1>1. /\ req[r].pc = "close" /\ a \in req[r].todo /\ a \in Attempts /\ Finished(r, a)
      /\ req[r].sheet \in Sheets /\ req[r].verdict \in FINISHED_STATUSES
      /\ req[r].since \in Nat /\ req[r].since <= now /\ now <= req[r].since + Lag
  BY <1>0 DEF IInv, Close, Finishing, CallShape, Calls
<1>2. /\ attempt[a].status # "NOT_STARTED"
      /\ attempt[a].startedAt \in Nat /\ attempt[a].deadlineAt \in Nat
      /\ attempt[a].deadlineAt = attempt[a].startedAt + Duration[a]
      /\ Duration[a] \in Nat /\ attempt[a].startedAt < LinkExpiry
      /\ attempt[a].startedAt <= req[r].since
      /\ req[r].verdict = "EXPIRED" => attempt[a].deadlineAt + Grace < req[r].since
      /\ req[r].verdict = "SUBMITTED" =>
            req[r].since <= attempt[a].deadlineAt + Grace + Lag
      /\ attempt[a].layout \in Layouts
  BY <1>0, <1>1, SnapshotAssumption DEF IInv, Finishing, RowShape
<1>3. CASE Closable(a)
  <2>1. PICK t \in req[r].since .. now :
            attempt' = [attempt EXCEPT ![a] =
                          Closed(attempt[a], req[r].verdict, req[r].sheet, t)]
    BY <1>3 DEF Close
  <2> DEFINE row == Closed(attempt[a], req[r].verdict, req[r].sheet, t)
  <2>2. t \in Nat /\ TimeTaken(attempt[a], t) \in 0 .. Duration[a]
    BY <1>0, <1>1, <1>2, TimeTakenBounds
  <2>3. /\ attempt[a] \in Rows /\ req[r].verdict \in Statuses
        /\ t \in Times /\ TimeTaken(attempt[a], t) \in Times
    BY <1>0, <1>1, <1>2, <2>2 DEF FINISHED_STATUSES, Statuses, Times
  <2>4. /\ row \in Rows /\ row.status = req[r].verdict /\ row.finishedAt = t
        /\ row.timeTaken = TimeTaken(attempt[a], t)
        /\ row.startedAt = attempt[a].startedAt /\ row.deadlineAt = attempt[a].deadlineAt
        /\ row.layout = attempt[a].layout
    BY <1>1, <2>3 DEF Closed, Rows
  <2> HIDE DEF row
  <2>5. /\ attempt' = [attempt EXCEPT ![a] = row]
        /\ attempt'[a] = row /\ \A b \in Attempts \ {a} : attempt'[b] = attempt[b]
    <3>1. attempt' = [attempt EXCEPT ![a] = row]
      BY <2>1 DEF row
    <3> QED BY <1>0, <1>1, <3>1
  <2>6. \A b \in Attempts : RowStep(b)
    BY <1>1, <1>3, <2>4, <2>5 DEF RowStep, Closable
  <2>7. Moves(r) /\ CallInv(r)'
    BY <1>0, <1>1, <2>4, <2>5, <2>6, FinishedKeeps DEF isFinished
  <2>8. attempt' \in [Attempts -> Rows]
    BY <1>0, <2>4, <2>5
  <2>9. RowShape(a)'
    BY <1>0, <1>1, <1>2, <2>2, <2>4, <2>5 DEF RowShape, FINISHED_STATUSES, isFinished
  <2>10. \A b \in Attempts : RowShape(b)'
    BY <1>0, <2>5, <2>9 DEF IInv, RowShape, isFinished
  <2>11. TypeOK' /\ \A s \in Requests \ {r} : req'[s] = req[s]
    BY <1>0, <2>7, <2>8 DEF IInv, TypeOK, Moves
  <2> QED BY <1>0, <2>6, <2>7, <2>10, <2>11, StepOfOne
<1>4. CASE ~Closable(a)
  <2>1. attempt' = attempt
    BY <1>4 DEF Close
  <2>2. isFinished(attempt'[a])
    BY <1>0, <1>1, <1>2, <1>4, <2>1 DEF Closable, isFinished, Rows, Statuses, FINISHED_STATUSES
  <2>3. \A b \in Attempts : RowStep(b)
    BY <2>1 DEF RowStep
  <2>4. Moves(r) /\ CallInv(r)'
    BY <1>0, <1>1, <2>2, <2>3, FinishedKeeps
  <2> QED BY <1>0, <2>1, <2>4, ReadOnlyKeeps
<1> QED BY <1>3, <1>4

\* start() carries a row from one statement to the next.
LEMMA RowMoves ==
    ASSUME TypeOK, NEW r \in Requests, NEW p \in Pcs, NEW w \in Rows,
           req' = [req EXCEPT ![r].pc = p, ![r].since = now, ![r].row = w]
    PROVE  /\ Moves(r) /\ SameCall(r)
           /\ req'[r].pc = p /\ req'[r].since = now /\ req'[r].row = w
<1> DEFINE c == [req[r] EXCEPT !.pc = p, !.since = now, !.row = w]
<1>0. req[r] \in Calls /\ now \in Times
  BY RecordTypes DEF TypeOK, Times
<1>1. c \in Calls
  BY <1>0 DEF Calls
<1>2. req' = [req EXCEPT ![r] = c] /\ req'[r] = c
  BY RecordTypes DEF TypeOK
<1>3. /\ c.op = req[r].op /\ c.att = req[r].att /\ c.ques = req[r].ques
      /\ c.opt = req[r].opt /\ c.at = req[r].at
      /\ c.pc = p /\ c.since = now /\ c.row = w
  BY <1>0 DEF Calls
<1> HIDE DEF c
<1> QED BY <1>1, <1>2, <1>3 DEF Moves, SameCall

\* A handler of start(), answer() or submit() goes on to a plain statement.
LEMMA GoesOn ==
    ASSUME IInv, NEW r \in Requests, req[r].pc # "idle",
           req[r].op \in {"start", "answer", "submit"},
           Moves(r), SameCall(r), req'[r].since = now,
           UNCHANGED <<now, revokedAt, opened, attempt, answers>>,
           req'[r].pc \in {"clock", "reread", "view", "save", "status"},
           req'[r].pc \in {"clock", "reread", "view"} => req[r].op = "start",
           req'[r].pc = "save" => req[r].op = "answer",
           req'[r].pc = "status" => req[r].op = "submit",
           Reached(r)'
    PROVE  IInv'
<1> USE TimeAssumption, NoneAssumption
<1>1. now \in Nat
  BY DEF IInv, TypeOK
<1>2. CallShape(r)'
  BY <1>1 DEF IInv, CallShape, SameCall
<1>3. Finishing(r)'
  BY DEF Finishing
<1>4. SweptSoFar(r)'
  BY DEF SweptSoFar, SameCall
<1> QED BY <1>2, <1>3, <1>4, ReadOnlyKeeps DEF CallInv

\* answer() and submit() found an attempt running and are to finish it.
LEMMA FinishFound ==
    ASSUME IInv, NEW r \in Requests, req[r].pc = "find",
           req[r].op \in {"answer", "submit"}, NEW v \in FINISHED_STATUSES,
           FinishAll(r, {req[r].att}, v),
           attempt[req[r].att].status = "IN_PROGRESS",
           v = "EXPIRED" <=> isOverdue(attempt[req[r].att]),
           UNCHANGED <<now, revokedAt, opened, attempt, answers>>
    PROVE  IInv'
<1> USE TimeAssumption, NoneAssumption
<1>0. req[r].att \in Attempts /\ now \in Nat
  BY DEF IInv, CallShape, TypeOK
<1> PICK a \in Attempts : a = req[r].att
  BY <1>0
<1>1. /\ attempt[a].startedAt \in Nat /\ attempt[a].startedAt <= now
      /\ attempt[a].deadlineAt \in Nat
  BY <1>0, SnapshotAssumption DEF IInv, RowShape
<1>2. /\ v = "EXPIRED" => attempt[a].deadlineAt + Grace < now
      /\ v = "SUBMITTED" => now <= attempt[a].deadlineAt + Grace
  BY <1>0, <1>1 DEF isOverdue
<1>3. /\ Moves(r) /\ SameCall(r)
      /\ req'[r].pc = "score" /\ req'[r].since = now
      /\ req'[r].todo = {a} /\ req'[r].verdict = v
  <2>1. TypeOK /\ FinishAll(r, {a}, v) /\ {a} \in SUBSET Attempts
    BY DEF IInv
  <2> QED BY <2>1, FinishAllMoves
<1>4. CallShape(r)'
  BY <1>0, <1>3 DEF IInv, CallShape, SameCall
<1>5. Finishing(r)'
  BY <1>0, <1>1, <1>2, <1>3 DEF Finishing, SameCall
<1>6. Reached(r)' /\ SweptSoFar(r)'
  BY <1>3 DEF Reached, SweptSoFar, SameCall
<1> QED BY <1>3, <1>4, <1>5, <1>6, ReadOnlyKeeps DEF CallInv

LEMMA FindKeeps ==
    ASSUME IInv, NEW r \in Requests, Find(r)
    PROVE  IInv'
<1>0. /\ req[r].pc = "find" /\ req[r].op \in {"start", "submit", "answer"}
      /\ UNCHANGED <<now, revokedAt, opened, attempt, answers>> /\ TypeOK
      /\ req[r].att \in Attempts /\ attempt[req[r].att] \in Rows
  BY DEF IInv, TypeOK, CallShape, Find, invitation, tables
<1> PICK a \in Attempts : a = req[r].att
  BY <1>0
<1> DEFINE row == attempt[a]
<1>1. row \in Rows /\ row.status \in Statuses
  BY <1>0 DEF Rows
<1>2. CASE Return(r)
  BY <1>0, <1>2, ReturnKeeps DEF IInv, TypeOK
<1>3. CASE FindForStart(r, row) /\ ~Return(r)
  <2>1. PICK p \in {"clock", "view"} :
            /\ req' = [req EXCEPT ![r].pc = p, ![r].since = now, ![r].row = row]
            /\ p = "view" => row.status = "IN_PROGRESS"
    BY <1>1, <1>3 DEF FindForStart, isFinished, Statuses, FINISHED_STATUSES
  <2>2. p \in Pcs
    BY DEF Pcs
  <2>3. /\ Moves(r) /\ SameCall(r) /\ req[r].op = "start"
        /\ req'[r].pc = p /\ req'[r].since = now /\ req'[r].row = row
    <3>1. req[r].op = "start"
      BY <1>3 DEF FindForStart
    <3> HIDE DEF row
    <3>2. TypeOK /\ p \in Pcs /\ row \in Rows
      BY <1>0, <1>1, <2>2
    <3>3. req' = [req EXCEPT ![r].pc = p, ![r].since = now, ![r].row = row]
      BY <2>1
    <3> QED BY <3>1, <3>2, <3>3, RowMoves
  <2>4. Reached(r)'
    BY <1>0, <1>1, <2>1, <2>3 DEF Reached, SameCall
  <2> QED BY <1>0, <2>3, <2>4, GoesOn
<1>4. CASE FindForAnswer(r, row) /\ ~Return(r)
  <2>1. CASE Goto(r, "save")
    <3>1. Moves(r) /\ SameCall(r) /\ req'[r].pc = "save" /\ req'[r].since = now
      BY <1>0, <2>1, GotoMoves DEF Pcs
    <3>2. Reached(r)' /\ req[r].op = "answer"
      BY <1>4, <3>1 DEF Reached, FindForAnswer
    <3> QED BY <1>0, <3>1, <3>2, GoesOn
  <2>2. CASE FinishAll(r, {req[r].att}, "EXPIRED") /\ ~Goto(r, "save")
    BY <1>0, <1>1, <1>4, <2>2, FinishFound
       DEF FindForAnswer, FINISHED_STATUSES, Statuses
  <2> QED BY <1>4, <2>1, <2>2 DEF FindForAnswer
<1>5. CASE FindForSubmit(r, row) /\ ~Return(r)
  <2>1. CASE isFinished(row) /\ Goto(r, "status")
    <3>1. Moves(r) /\ SameCall(r) /\ req'[r].pc = "status" /\ req'[r].since = now
      BY <1>0, <2>1, GotoMoves DEF Pcs
    <3>2. Reached(r)' /\ req[r].op = "submit"
      BY <1>0, <1>5, <2>1, <3>1 DEF Reached, FindForSubmit, SameCall
    <3> QED BY <1>0, <3>1, <3>2, GoesOn
  <2>2. CASE row.status = "IN_PROGRESS" /\ FinishAll(r, {req[r].att}, SubmitVerdict(row))
    <3>1. /\ SubmitVerdict(row) \in FINISHED_STATUSES /\ req[r].op = "submit"
          /\ SubmitVerdict(row) = "EXPIRED" <=> isOverdue(row)
      BY <1>5 DEF SubmitVerdict, FINISHED_STATUSES, FindForSubmit
    <3> QED BY <1>0, <2>2, <3>1, FinishFound
  <2> QED BY <1>1, <1>5, <2>1, <2>2
          DEF FindForSubmit, isFinished, Statuses, FINISHED_STATUSES
<1> QED BY <1>2, <1>3, <1>4, <1>5 DEF Find

LEMMA StartClockKeeps ==
    ASSUME IInv, NEW r \in Requests, StartClock(r)
    PROVE  IInv'
<1> USE TimeAssumption, NoneAssumption
<1>0. /\ req[r].pc = "clock" /\ req[r].op = "start" /\ TypeOK
      /\ UNCHANGED <<now, revokedAt, opened, answers>>
      /\ req[r].att \in Attempts /\ now \in Nat /\ attempt \in [Attempts -> Rows]
      /\ req[r].since \in Nat /\ req[r].since <= now /\ now <= req[r].since + Lag
  BY DEF IInv, TypeOK, CallShape, StartClock, invitation
<1> PICK a \in Attempts : a = req[r].att
  BY <1>0
<1>1. PICK t \in req[r].since .. now :
          \/ ~LinkOpenAt(t) /\ Return(r) /\ UNCHANGED attempt
          \/ /\ LinkOpenAt(t)
             /\ IF Startable(a)
                THEN \E l \in Layouts : attempt' = [attempt EXCEPT ![a] = Started(@, a, t, l)]
                ELSE UNCHANGED attempt
             /\ Goto(r, "reread")
  BY DEF StartClock
<1>2. CASE Return(r) /\ UNCHANGED attempt
  BY <1>0, <1>2, ReturnKeeps DEF TypeOK
<1>3. CASE UNCHANGED attempt /\ ~Startable(a) /\ Goto(r, "reread")
  <2>1. Moves(r) /\ SameCall(r) /\ req'[r].pc = "reread" /\ req'[r].since = now
    BY <1>0, <1>3, GotoMoves DEF Pcs
  <2>2. Reached(r)'
    BY <1>3, <2>1 DEF Reached, SameCall, Startable
  <2> QED BY <1>0, <1>3, <2>1, <2>2, GoesOn
<1>4. CASE LinkOpenAt(t) /\ Startable(a) /\ Goto(r, "reread")
           /\ \E l \in Layouts : attempt' = [attempt EXCEPT ![a] = Started(@, a, t, l)]
  <2>1. PICK l \in Layouts : attempt' = [attempt EXCEPT ![a] = Started(attempt[a], a, t, l)]
    BY <1>4
  <2> DEFINE row == Started(attempt[a], a, t, l)
  <2>2. /\ t \in Nat /\ t <= now /\ now <= t + Lag /\ t < LinkExpiry
        /\ Duration[a] \in Nat /\ t + Duration[a] \in Nat /\ Lag <= Duration[a] + Grace
    <3>1. t \in Nat /\ t <= now /\ now <= t + Lag
      BY <1>0
    <3>2. t < LinkExpiry
      BY <1>4, <3>1 DEF LinkOpenAt
    <3>3. Duration[a] \in Nat /\ Lag <= Duration[a] + Grace
      BY SnapshotAssumption, LagAssumption
    <3> QED BY <3>1, <3>2, <3>3
  <2>3. /\ attempt[a] \in Rows /\ "IN_PROGRESS" \in Statuses
        /\ t \in Times /\ t + Duration[a] \in Times
    BY <1>0, <2>2 DEF Statuses, Times
  <2>4. /\ row \in Rows /\ row.status = "IN_PROGRESS" /\ row.startedAt = t
        /\ row.deadlineAt = t + Duration[a] /\ row.layout = l
    BY <2>3 DEF Started, Rows
  <2>5. attempt' = [attempt EXCEPT ![a] = row]
    BY <2>1
  <2> HIDE DEF row
  <2>6. attempt'[a] = row /\ \A b \in Attempts \ {a} : attempt'[b] = attempt[b]
    BY <1>0, <2>5
  <2>7. \A b \in Attempts : RowStep(b)
    <3>1. row.deadlineAt + Grace >= now /\ row.startedAt \in Nat /\ row.deadlineAt \in Nat
      BY <1>0, <2>2, <2>4
    <3>2. RowStep(a)
      BY <1>4, <2>4, <2>6, <3>1 DEF RowStep, Startable
    <3> QED BY <2>6, <3>2 DEF RowStep
  <2>8. Moves(r) /\ SameCall(r) /\ req'[r].pc = "reread" /\ req'[r].since = now
    BY <1>0, <1>4, GotoMoves DEF Pcs
  <2>9. RowShape(a)'
    BY <1>0, <2>2, <2>4, <2>6 DEF RowShape, isFinished, FINISHED_STATUSES
  <2>10. \A b \in Attempts : RowShape(b)'
    BY <1>0, <2>6, <2>9 DEF IInv, RowShape, isFinished
  <2>11. TypeOK' /\ \A s \in Requests \ {r} : req'[s] = req[s]
    BY <1>0, <2>4, <2>5, <2>8 DEF TypeOK, Moves
  <2>12. CallShape(r)'
    BY <1>0, <2>8 DEF IInv, CallShape, SameCall
  <2>13. CallInv(r)'
    BY <1>0, <2>4, <2>6, <2>8, <2>12
       DEF CallInv, Finishing, Reached, SweptSoFar, SameCall
  <2> QED BY <1>0, <2>7, <2>10, <2>11, <2>13, StepOfOne
<1> QED BY <1>1, <1>2, <1>3, <1>4

LEMMA RereadKeeps ==
    ASSUME IInv, NEW r \in Requests, Reread(r)
    PROVE  IInv'
<1>0. /\ req[r].pc = "reread" /\ req[r].op = "start" /\ TypeOK
      /\ UNCHANGED <<now, revokedAt, opened, attempt, answers>>
      /\ req[r].att \in Attempts /\ attempt[req[r].att] \in Rows /\ "view" \in Pcs
  BY DEF IInv, TypeOK, CallShape, Reread, invitation, tables, Pcs
<1>1. req' = [req EXCEPT ![r].pc = "view", ![r].since = now,
                         ![r].row = attempt[req[r].att]]
  BY DEF Reread
<1>2. /\ Moves(r) /\ SameCall(r)
      /\ req'[r].pc = "view" /\ req'[r].since = now /\ req'[r].row = attempt[req[r].att]
  BY <1>0, <1>1, RowMoves
<1>3. Reached(r)'
  BY <1>0, <1>2 DEF IInv, Reached, SameCall
<1> QED BY <1>0, <1>2, <1>3, GoesOn

\* The statements a handler returns from.
LEMMA LastStatementKeeps ==
    ASSUME IInv, NEW r \in Requests,
           View(r) \/ Save(r) \/ ReadStatus(r) \/ Read(r) \/ Drop(r)
    PROVE  IInv'
<1>1. Return(r) /\ UNCHANGED <<now, revokedAt, attempt>> /\ opened' \in BOOLEAN
  BY DEF View, Save, ReadStatus, Read, Drop, invitation, tables, IInv, TypeOK
<1>2. answers' \in [Attempts -> Sheets]
  <2>1. CASE Save(r)
    <3>1. /\ req[r].att \in Attempts /\ req[r].ques \in Questions
          /\ req[r].opt \in Options /\ answers \in [Attempts -> Sheets]
      BY <2>1 DEF IInv, CallShape, Save, TypeOK
    <3>2. [answers[req[r].att] EXCEPT ![req[r].ques] = req[r].opt] \in Sheets
      BY <3>1 DEF Sheets
    <3> QED BY <2>1, <3>1, <3>2 DEF Save
  <2>2. CASE ~Save(r)
    BY <2>2 DEF View, ReadStatus, Read, Drop, tables, IInv, TypeOK
  <2> QED BY <2>1, <2>2
<1> QED BY <1>1, <1>2, ReturnKeeps

LEMMA ArriveKeeps ==
    ASSUME IInv, NEW r \in Requests, CandidateRequest(r) \/ StaffRead(r)
    PROVE  IInv'
<1>1. CASE StaffRead(r) \/ Accept(r, "overview", None, None, None)
  BY <1>1, AcceptKeeps DEF StaffRead, Ops, CandidateOps
<1>2. CASE \E a \in Attempts : Accept(r, "start", a, None, None)
  BY <1>2, AcceptKeeps DEF Ops, CandidateOps
<1>3. CASE \E a \in Attempts : Accept(r, "submit", a, None, None)
  BY <1>3, AcceptKeeps DEF Ops, CandidateOps
<1>4. CASE \E a \in Attempts, q \in Questions, o \in Options :
               Accept(r, "answer", a, q, o)
  BY <1>4, AcceptKeeps DEF Ops, CandidateOps
<1> QED BY <1>1, <1>2, <1>3, <1>4 DEF CandidateRequest

LEMMA TickKeeps ==
    ASSUME IInv, Tick
    PROVE  IInv'
<1> USE TimeAssumption, NoneAssumption
<1>1. now \in Nat /\ now' = now + 1 /\ UNCHANGED <<revokedAt, opened, attempt, answers, req>>
  BY DEF IInv, TypeOK, Tick, invitation, tables
<1>2. TypeOK'
  BY <1>1 DEF IInv, TypeOK
<1>3. ASSUME NEW a \in Attempts PROVE RowShape(a)'
  <2>1. RowShape(a)
    BY DEF IInv
  <2>2. attempt[a].status # "NOT_STARTED" => attempt[a].startedAt \in Nat
    BY <1>1, <2>1 DEF RowShape
  <2>3. isFinished(attempt[a]) => attempt[a].status # "NOT_STARTED"
    BY DEF isFinished, FINISHED_STATUSES
  <2> QED BY <1>1, <2>1, <2>2, <2>3 DEF RowShape, isFinished
<1>4. ASSUME NEW s \in Requests PROVE CallInv(s)'
  <2>1. CallShape(s)'
    BY <1>1 DEF IInv, CallShape, Tick
  <2> QED BY <1>1, <2>1 DEF IInv, CallInv, Finishing, Reached, SweptSoFar, isFinished
<1> QED BY <1>2, <1>3, <1>4 DEF IInv, CallInv

LEMMA NothingKeeps ==
    ASSUME IInv, UNCHANGED <<now, attempt, answers, req>>,
           revokedAt' \in Times, UNCHANGED opened
    PROVE  IInv'
  BY DEF IInv, TypeOK, RowShape, CallShape, Finishing, Reached, SweptSoFar, isFinished

-----------------------------------------------------------------------------
(* The invariant.                                                           *)

LEMMA InitInv == Init => IInv
<1> SUFFICES ASSUME Init PROVE IInv
  OBVIOUS
<1> USE TimeAssumption, NoneAssumption
<1>1. NewRow \in Rows
  BY DEF NewRow, Rows, Statuses, Times
<1>2. TypeOK
  BY <1>1, IdleCall DEF Init, TypeOK, Sheets, Times
<1>3. \A a \in Attempts : RowShape(a)
  BY DEF Init, RowShape, NewRow, isFinished, FINISHED_STATUSES
<1>4. \A r \in Requests : CallInv(r)
  BY DEF Init, CallInv, CallShape, Finishing, Reached, SweptSoFar, Idle
<1> QED BY <1>2, <1>3, <1>4 DEF IInv, CallInv

LEMMA StepInv == IInv /\ [Next]_vars => IInv'
<1> SUFFICES ASSUME IInv, [Next]_vars PROVE IInv'
  OBVIOUS
<1>1. CASE Tick
  BY <1>1, TickKeeps
<1>2. CASE Revoke
  BY <1>2, NothingKeeps DEF Revoke, tables, IInv, TypeOK, Times
<1>3. CASE \E r \in Requests : CandidateRequest(r) \/ StaffRead(r)
  BY <1>3, ArriveKeeps
<1>4. CASE \E r \in Requests : Handle(r)
  BY <1>4, SweepKeeps, ReadForScoreKeeps, CloseKeeps, FindKeeps, StartClockKeeps,
     RereadKeeps, LastStatementKeeps DEF Handle
<1>5. CASE \E r \in Requests : Drop(r)
  BY <1>5, LastStatementKeeps
<1>6. CASE UNCHANGED vars
  BY <1>6, NothingKeeps DEF vars, IInv, TypeOK
<1> QED BY <1>1, <1>2, <1>3, <1>4, <1>5, <1>6 DEF Next, NextUp

\* What every handler relies on at each of its awaits holds at all times.
THEOREM Invariance == Spec => []IInv
  BY InitInv, StepInv, PTL DEF Spec

-----------------------------------------------------------------------------
(* What follows in every state.                                             *)

\* Rows, answers and requests in flight are well formed.
THEOREM TypeCorrect == Spec => []TypeOK
<1>1. IInv => TypeOK
  BY DEF IInv
<1> QED BY <1>1, Invariance, PTL

\* EXPIRED only after the grace, SUBMITTED by its end (finish(), submit()).
THEOREM StatusTruthful == Spec => []StatusTellsTime
<1>1. IInv => StatusTellsTime
  BY DEF IInv, RowShape, StatusTellsTime
<1> QED BY <1>1, Invariance, PTL

\* The time taken never exceeds the limit (finish()).
THEOREM TimeTakenFair == Spec => []TimeTakenInLimit
<1>1. IInv => TimeTakenInLimit
  BY DEF IInv, RowShape, TimeTakenInLimit
<1> QED BY <1>1, Invariance, PTL

\* No test starts after the link expired (start()).
THEOREM NoStartAfterExpiry == Spec => []StartedWhileOpen
<1>1. IInv => StartedWhileOpen
  BY DEF IInv, RowShape, StartedWhileOpen
<1> QED BY <1>1, Invariance, PTL

\* start() returns the stored clock and order, whichever tab won.
THEOREM ViewTruthful == Spec => []ViewShowsStored
<1>1. ASSUME IInv, NEW r \in Requests, req[r].pc = "view"
      PROVE  LET row == attempt[req[r].att] IN
             /\ req[r].row.deadlineAt = row.deadlineAt /\ row.deadlineAt # None
             /\ req[r].row.layout = row.layout /\ row.layout # None
  <2>1. PICK a \in Attempts : a = req[r].att
    BY <1>1 DEF IInv, CallShape
  <2>2. /\ attempt[a].status # "NOT_STARTED"
        /\ req[r].row.deadlineAt = attempt[a].deadlineAt
        /\ req[r].row.layout = attempt[a].layout
    BY <1>1, <2>1 DEF IInv, Reached
  <2>3. attempt[a].deadlineAt \in Int /\ attempt[a].layout \in Layouts
    BY <1>1, <2>2, SnapshotAssumption DEF IInv, RowShape, TypeOK
  <2> QED BY <2>1, <2>2, <2>3, NoneAssumption
<1>2. IInv => ViewShowsStored
  BY <1>1 DEF ViewShowsStored
<1> QED BY <1>2, Invariance, PTL

\* A reader that sweeps shows no stale "in progress" (finalizeOverdue()).
THEOREM NoStaleReads == Spec => []ReadersSeeNoStale
<1>1. ASSUME IInv, NEW r \in Requests, NEW a \in Attempts,
             req[r].pc = "read", attempt[a].status = "IN_PROGRESS"
      PROVE  attempt[a].deadlineAt + Grace >= req[r].at
  <2>1. req[r].op \in {"overview", "results"} /\ req[r].at \in Nat
    BY <1>1 DEF IInv, CallShape
  <2>2. attempt[a].deadlineAt + Grace \in Nat
    BY <1>1, SnapshotAssumption, TimeAssumption DEF IInv, RowShape, TypeOK
  <2>3. ~(attempt[a].deadlineAt + Grace < req[r].at)
    BY <1>1, <2>1 DEF IInv, SweptSoFar
  <2> QED BY <2>1, <2>2, <2>3
<1>2. IInv => ReadersSeeNoStale
  BY <1>1 DEF ReadersSeeNoStale
<1> QED BY <1>2, Invariance, PTL

\* submit() answers with a final status.
THEOREM SubmitFinal == Spec => []SubmitAnswersFinal
<1>1. IInv => SubmitAnswersFinal
  BY DEF IInv, Reached, SubmitAnswersFinal
<1> QED BY <1>1, Invariance, PTL

\* The clock of a test, from its start to its result.
THEOREM ClockKept == Spec => []ClockIsKept
<1>1. StatusTellsTime /\ TimeTakenInLimit /\ StartedWhileOpen => ClockIsKept
  BY DEF ClockIsKept
<1> QED BY <1>1, StatusTruthful, TimeTakenFair, NoStartAfterExpiry, PTL

\* What start(), submit() and the sweeping readers answer.
THEOREM RepliesTrue == Spec => []RepliesAreTrue
<1>1. ViewShowsStored /\ SubmitAnswersFinal /\ ReadersSeeNoStale => RepliesAreTrue
  BY DEF RepliesAreTrue
<1> QED BY <1>1, ViewTruthful, SubmitFinal, NoStaleReads, PTL

-----------------------------------------------------------------------------
(* What a step may do to the rows.                                          *)

\* The update of start() took effect.
Starts(a) ==
    /\ attempt[a].status = "NOT_STARTED"
    /\ \E t \in 0 .. now, l \in Layouts :
          /\ t < LinkExpiry
          /\ attempt' = [attempt EXCEPT ![a] = Started(attempt[a], a, t, l)]
    /\ now' = now

\* The update of finish() took effect.
Closes(a) ==
    /\ attempt[a].status = "IN_PROGRESS"
    /\ \E t \in attempt[a].startedAt .. now, v \in FINISHED_STATUSES, sheet \in Sheets :
          /\ v = "EXPIRED" => t > attempt[a].deadlineAt + Grace
          /\ attempt' = [attempt EXCEPT ![a] = Closed(attempt[a], v, sheet, t)]
    /\ now' = now

LEMMA StartClockRows ==
    ASSUME IInv, NEW r \in Requests, StartClock(r)
    PROVE  UNCHANGED attempt \/ \E a \in Attempts : Starts(a)
<1>1. /\ req[r].att \in Attempts /\ now' = now /\ now \in Nat
      /\ req[r].since \in Nat
  BY DEF IInv, TypeOK, CallShape, StartClock
<1>2. ASSUME NEW t \in req[r].since .. now, LinkOpenAt(t), NEW a \in Attempts,
             Startable(a), NEW l \in Layouts,
             attempt' = [attempt EXCEPT ![a] = Started(attempt[a], a, t, l)]
      PROVE  Starts(a)
  <2>1. t \in 0 .. now /\ t < LinkExpiry
    BY <1>1, <1>2, TimeAssumption DEF LinkOpenAt
  <2> QED BY <1>1, <1>2, <2>1 DEF Starts, Startable
<1> QED BY <1>1, <1>2 DEF StartClock

LEMMA CloseRows ==
    ASSUME IInv, NEW r \in Requests, Close(r)
    PROVE  UNCHANGED attempt \/ \E a \in Attempts : Closes(a)
<1> USE TimeAssumption
<1>1. /\ req[r].cur \in req[r].todo /\ req[r].todo \subseteq Attempts
      /\ req[r].sheet \in Sheets /\ req[r].verdict \in FINISHED_STATUSES
      /\ now' = now /\ now \in Nat /\ req[r].since \in Nat /\ req[r].since <= now
  BY RecordTypes DEF IInv, TypeOK, CallShape, Finishing, Close
<1> PICK a \in Attempts : a = req[r].cur
  BY <1>1
<1>2. /\ attempt[a].startedAt \in Nat /\ attempt[a].startedAt <= req[r].since
      /\ attempt[a].deadlineAt \in Nat
      /\ req[r].verdict = "EXPIRED" => attempt[a].deadlineAt + Grace < req[r].since
  BY <1>1, SnapshotAssumption DEF IInv, Finishing, RowShape, Close
<1>3. CASE Closable(a)
  <2>1. PICK t \in req[r].since .. now :
            attempt' = [attempt EXCEPT ![a] =
                          Closed(attempt[a], req[r].verdict, req[r].sheet, t)]
    BY <1>3 DEF Close
  <2>2. t \in attempt[a].startedAt .. now
    BY <1>1, <1>2
  <2>3. req[r].verdict = "EXPIRED" => t > attempt[a].deadlineAt + Grace
    BY <1>1, <1>2
  <2> QED BY <1>1, <1>3, <2>1, <2>2, <2>3 DEF Closes, Closable
<1>4. CASE ~Closable(a)
  BY <1>4 DEF Close
<1> QED BY <1>3, <1>4

\* Only start() and finish() write rows, one row at a time.
LEMMA RowsMove ==
    ASSUME IInv, [Next]_vars
    PROVE  \/ UNCHANGED attempt /\ (UNCHANGED now \/ now' = now + 1)
           \/ \E a \in Attempts : Starts(a) \/ Closes(a)
<1>1. CASE Tick \/ Revoke \/ UNCHANGED vars
  BY <1>1 DEF Tick, Revoke, vars, tables
<1>2. ASSUME NEW r \in Requests, StartClock(r)
      PROVE  \/ UNCHANGED attempt /\ UNCHANGED now
             \/ \E a \in Attempts : Starts(a)
  BY <1>2, StartClockRows DEF StartClock
<1>3. ASSUME NEW r \in Requests, Close(r)
      PROVE  \/ UNCHANGED attempt /\ UNCHANGED now
             \/ \E a \in Attempts : Closes(a)
  BY <1>3, CloseRows DEF Close
<1>4. ASSUME NEW r \in Requests,
             \/ CandidateRequest(r) \/ StaffRead(r) \/ Sweep(r) \/ ReadForScore(r)
             \/ Find(r) \/ Reread(r) \/ View(r) \/ Save(r) \/ ReadStatus(r) \/ Read(r)
             \/ Drop(r)
      PROVE  UNCHANGED <<attempt, now>>
  BY <1>4 DEF CandidateRequest, StaffRead, Accept, Sweep, ReadForScore, Find, Reread,
              View, Save, ReadStatus, Read, Drop, tables
<1> QED BY <1>1, <1>2, <1>3, <1>4 DEF Next, NextUp, Handle

\* A result is written once (finish()).
THEOREM ResultOnce == Spec => ResultIsFinal
<1>1. ASSUME IInv, [Next]_vars
      PROVE  [\A a \in Attempts : isFinished(attempt[a]) => attempt'[a] = attempt[a]]_vars
  <2>1. ASSUME NEW b \in Attempts, Starts(b) \/ Closes(b), NEW a \in Attempts,
               isFinished(attempt[a])
        PROVE  attempt'[a] = attempt[a]
    BY <1>1, <2>1 DEF Starts, Closes, isFinished, FINISHED_STATUSES, IInv, TypeOK
  <2> QED BY <1>1, <2>1, RowsMove
<1> QED BY <1>1, Invariance, PTL DEF Spec, ResultIsFinal

\* An attempt gets one clock and one question order (start()).
THEOREM OneClockEver == Spec => OneClock
<1> DEFINE Keeps(a) == attempt[a].status # "NOT_STARTED" =>
                         /\ attempt'[a].startedAt = attempt[a].startedAt
                         /\ attempt'[a].deadlineAt = attempt[a].deadlineAt
                         /\ attempt'[a].layout = attempt[a].layout
<1>1. ASSUME IInv, [Next]_vars
      PROVE  [\A a \in Attempts : Keeps(a)]_vars
  <2>1. attempt \in [Attempts -> Rows]
    BY <1>1 DEF IInv, TypeOK
  <2>2. ASSUME NEW b \in Attempts, Starts(b), NEW a \in Attempts
        PROVE  Keeps(a)
    BY <2>1, <2>2 DEF Starts
  <2>3. ASSUME NEW b \in Attempts, Closes(b), NEW a \in Attempts
        PROVE  Keeps(a)
    BY <2>1, <2>3 DEF Closes, Closed, Rows
  <2> QED BY <1>1, <2>2, <2>3, RowsMove
<1> QED BY <1>1, Invariance, PTL DEF Spec, OneClock

-----------------------------------------------------------------------------
(***************************************************************************)
(* A revoked link takes nothing more, for every value of the constants.    *)
(***************************************************************************)

\* A handler's step leaves other requests alone and its own route and arrival.
KeepsCall(r) ==
    /\ \A s \in Requests \ {r} : req'[s] = req[s]
    /\ req'[r] = Idle \/ SameCall(r)

LEMMA ReturnKeepsCall ==
    ASSUME TypeOK, NEW r \in Requests, Return(r)
    PROVE  KeepsCall(r) /\ req'[r] = Idle
  BY DEF TypeOK, Return, KeepsCall

LEMMA FinishedKeepsCall ==
    ASSUME IInv, NEW r \in Requests, req[r].pc \in {"score", "close"},
           NEW a \in req[r].todo, Finished(r, a)
    PROVE  KeepsCall(r) /\ req'[r].pc # "close"
<1>1. /\ Moves(r)
      /\ \/ SameCall(r) /\ req'[r].pc = "score"
         \/ req'[r] = Idle
         \/ SameCall(r) /\ req'[r].pc = AfterFinish(req[r].op)
  BY FinishedMoves
<1>2. \A s \in Requests \ {r} : req'[s] = req[s]
  BY <1>1 DEF Moves, IInv, TypeOK
<1> QED BY <1>1, <1>2 DEF KeepsCall, AfterFinish, Idle

LEMMA HandlerKeepsCall ==
    ASSUME IInv, NEW r \in Requests, Handle(r) \/ Drop(r)
    PROVE  KeepsCall(r)
<1>0. TypeOK /\ now \in Nat /\ req \in [Requests -> Calls] /\ req[r] \in Calls
  BY DEF IInv, TypeOK
<1>1. CASE Sweep(r)
  <2>1. PICK t \in req[r].since .. now :
            IF Overdue(t) = {} THEN Goto(r, AfterFinish(req[r].op))
            ELSE FinishAll(r, Overdue(t), "EXPIRED")
    BY <1>1 DEF Sweep
  <2>2. CASE Goto(r, AfterFinish(req[r].op))
    BY <1>0, <2>2 DEF Goto, KeepsCall, SameCall, Calls
  <2>3. CASE FinishAll(r, Overdue(t), "EXPIRED")
    BY <1>0, <2>3 DEF FinishAll, KeepsCall, SameCall, Calls
  <2> QED BY <2>1, <2>2, <2>3
<1>2. CASE ReadForScore(r)
  <2>1. PICK a \in req[r].todo :
            IF attempt[a].status # "IN_PROGRESS" THEN Finished(r, a)
            ELSE req' = [req EXCEPT ![r].pc = "close", ![r].since = now,
                                    ![r].cur = a, ![r].sheet = answers[a]]
    BY <1>2 DEF ReadForScore
  <2>2. CASE Finished(r, a)
    BY <1>2, <2>2, FinishedKeepsCall DEF ReadForScore
  <2>3. CASE req' = [req EXCEPT ![r].pc = "close", ![r].since = now,
                                ![r].cur = a, ![r].sheet = answers[a]]
    BY <1>0, <2>3 DEF KeepsCall, SameCall, Calls
  <2> QED BY <2>1, <2>2, <2>3
<1>3. CASE Close(r)
  <2>1. req[r].cur \in req[r].todo /\ Finished(r, req[r].cur) /\ req[r].pc = "close"
    BY <1>3 DEF Close, IInv, Finishing
  <2> QED BY <2>1, FinishedKeepsCall
<1>4. CASE Find(r)
  <2> DEFINE row == attempt[req[r].att]
  <2>1. \/ Return(r) \/ Goto(r, "save") \/ Goto(r, "status")
        \/ \E v \in FINISHED_STATUSES : FinishAll(r, {req[r].att}, v)
        \/ \E p \in Pcs : req' = [req EXCEPT ![r].pc = p, ![r].since = now, ![r].row = row]
    <3>1. row.status \in Statuses /\ "clock" \in Pcs /\ "view" \in Pcs
      BY <1>0, <1>4 DEF Find, IInv, CallShape, TypeOK, Rows, Pcs
    <3> HIDE DEF row
    <3>2. FindForStart(r, row) \/ FindForAnswer(r, row) \/ FindForSubmit(r, row)
      BY <1>4 DEF Find, row
    <3>3. "EXPIRED" \in FINISHED_STATUSES /\ SubmitVerdict(row) \in FINISHED_STATUSES
      BY DEF FINISHED_STATUSES, SubmitVerdict
    <3>4. CASE FindForStart(r, row)
      BY <3>1, <3>4 DEF FindForStart, Statuses, FINISHED_STATUSES, isFinished
    <3>5. CASE FindForAnswer(r, row)
      BY <3>1, <3>3, <3>5 DEF FindForAnswer
    <3>6. CASE FindForSubmit(r, row)
      BY <3>1, <3>3, <3>6 DEF FindForSubmit, Statuses, FINISHED_STATUSES, isFinished
    <3> QED BY <3>2, <3>4, <3>5, <3>6
  <2>2. CASE Return(r)
    BY <1>0, <2>2, ReturnKeepsCall
  <2>3. CASE Goto(r, "save") \/ Goto(r, "status")
    BY <1>0, <2>3 DEF Goto, KeepsCall, SameCall, Calls
  <2>4. ASSUME NEW v \in FINISHED_STATUSES, FinishAll(r, {req[r].att}, v)
        PROVE  KeepsCall(r)
    BY <1>0, <2>4 DEF FinishAll, KeepsCall, SameCall, Calls
  <2>5. ASSUME NEW p \in Pcs,
               req' = [req EXCEPT ![r].pc = p, ![r].since = now, ![r].row = row]
        PROVE  KeepsCall(r)
    BY <1>0, <2>5 DEF KeepsCall, SameCall, Calls
  <2> QED BY <2>1, <2>2, <2>3, <2>4, <2>5
<1>5. CASE StartClock(r)
  <2>1. Return(r) \/ Goto(r, "reread")
    BY <1>5 DEF StartClock
  <2>2. CASE Goto(r, "reread")
    BY <1>0, <2>2 DEF Goto, KeepsCall, SameCall, Calls
  <2> QED BY <1>0, <2>1, <2>2, ReturnKeepsCall
<1>6. CASE Reread(r)
  BY <1>0, <1>6 DEF Reread, KeepsCall, SameCall, Calls
<1>7. CASE View(r) \/ Save(r) \/ ReadStatus(r) \/ Read(r) \/ Drop(r)
  BY <1>0, <1>7, ReturnKeepsCall DEF View, Save, ReadStatus, Read, Drop
<1> QED BY <1>1, <1>2, <1>3, <1>4, <1>5, <1>6, <1>7 DEF Handle

LEMMA HandlerKeepsRevoked ==
    ASSUME NEW r \in Requests, Handle(r) \/ Drop(r)
    PROVE  revokedAt' = revokedAt
  BY DEF Handle, Drop, Sweep, ReadForScore, Close, Find, StartClock, Reread, View,
         Save, ReadStatus, Read, invitation

-----------------------------------------------------------------------------
(* Whoever is past the guard got there before the revoke.                   *)

LEMMA InitLetIn == Init => LetIn
  BY DEF Init, LetIn

LEMMA AcceptLetIn ==
    ASSUME IInv, LetIn, NEW r \in Requests, CandidateRequest(r) \/ StaffRead(r)
    PROVE  LetIn'
<1>1. PICK op \in Ops, a \in Attempts \cup {None},
            q \in Questions \cup {None}, o \in Options \cup {None} :
          Accept(r, op, a, q, o) /\ (op \in CandidateOps => revokedAt = None)
  BY DEF CandidateRequest, StaffRead, GuardAllows, Ops, CandidateOps
<1>2. /\ revokedAt' = revokedAt
      /\ req'[r].op = op
      /\ \A s \in Requests \ {r} : req'[s] = req[s]
  BY <1>1 DEF Accept, invitation, Idle, IInv, TypeOK
<1> QED BY <1>1, <1>2 DEF LetIn

LEMMA StepLetIn == IInv /\ LetIn /\ [Next]_vars => LetIn'
<1> SUFFICES ASSUME IInv, LetIn, [Next]_vars PROVE LetIn'
  OBVIOUS
<1>1. CASE Tick \/ UNCHANGED vars
  BY <1>1 DEF Tick, vars, invitation, LetIn
<1>2. CASE Revoke
  <2>1. revokedAt' = now /\ req' = req
    BY <1>2 DEF Revoke
  <2>2. ASSUME NEW r \in Requests, req[r].op \in CandidateOps
        PROVE  req[r].at <= now
    <3>1. req[r].pc # "idle"
      BY <2>2 DEF IInv, CallShape, Idle, CandidateOps
    <3> QED BY <3>1 DEF IInv, CallShape, TypeOK
  <2> QED BY <2>1, <2>2 DEF LetIn
<1>3. CASE \E r \in Requests : CandidateRequest(r) \/ StaffRead(r)
  BY <1>3, AcceptLetIn
<1>4. CASE \E r \in Requests : Handle(r) \/ Drop(r)
  <2>1. PICK r \in Requests : Handle(r) \/ Drop(r)
    BY <1>4
  <2>2. KeepsCall(r) /\ revokedAt' = revokedAt
    BY <2>1, HandlerKeepsCall, HandlerKeepsRevoked
  <2>3. CASE req'[r] = Idle
    BY <2>2, <2>3 DEF LetIn, KeepsCall, Idle, CandidateOps
  <2>4. CASE SameCall(r)
    BY <2>2, <2>4 DEF LetIn, KeepsCall, SameCall
  <2> QED BY <2>2, <2>3, <2>4 DEF KeepsCall
<1> QED BY <1>1, <1>2, <1>3, <1>4 DEF Next, NextUp

\* A candidate's request in flight passed the guard before any revoke.
THEOREM LetInAlways == Spec => []LetIn
  BY Invariance, InitLetIn, StepLetIn, PTL DEF Spec

-----------------------------------------------------------------------------
(* Who writes what a candidate's request writes.                            *)

\* Only an open link, or a handler of a candidate's request, saves, starts or
\* hands in; the sweep of a staff read can only expire.
LEMMA OnlyCandidatesWrite ==
    ASSUME IInv, [Next]_vars, NEW a \in Attempts, CandidateWrites(a)
    PROVE  \E r \in Requests : req'[r] # req[r] /\ req[r].op \in CandidateOps
<1>1. PICK r \in Requests : StartClock(r) \/ Close(r) \/ Save(r)
  BY DEF CandidateWrites, Next, NextUp, Handle, Tick, Revoke, CandidateRequest,
         StaffRead, Accept, Sweep, ReadForScore, Find, Reread, View, ReadStatus,
         Read, Drop, vars, tables
<1>0. TypeOK /\ req[r] \in Calls /\ req \in [Requests -> Calls]
  BY DEF IInv, TypeOK
<1>2. CASE StartClock(r)
  <2>1. req[r].pc = "clock" /\ req[r].op = "start"
    BY <1>2 DEF StartClock, IInv, CallShape
  <2>2. Return(r) \/ Goto(r, "reread")
    BY <1>2 DEF StartClock
  <2>3. req'[r].pc # "clock"
    BY <1>0, <2>2 DEF Return, Goto, Idle, Calls
  <2> QED BY <2>1, <2>3 DEF CandidateOps
<1>3. CASE Save(r)
  <2>1. req[r].pc = "save" /\ req[r].op = "answer" /\ Return(r)
    BY <1>3 DEF Save, IInv, CallShape
  <2>2. req'[r].pc # "save"
    BY <1>0, <2>1 DEF Return, Idle
  <2> QED BY <2>1, <2>2 DEF CandidateOps
<1>4. CASE Close(r)
  <2>1. /\ req[r].pc = "close" /\ req[r].cur \in req[r].todo
        /\ req[r].op \in Ops /\ Finished(r, req[r].cur)
        /\ req[r].op \in {"overview", "results", "start"} => req[r].verdict = "EXPIRED"
    BY <1>4 DEF Close, IInv, Finishing, CallShape
  <2>2. req'[r].pc # "close"
    BY <2>1, FinishedKeepsCall
  <2>3. attempt'[a] # attempt[a] /\ attempt'[a].status # "EXPIRED"
    BY <1>4 DEF Close, CandidateWrites
  <2>4. PICK t : attempt' = [attempt EXCEPT ![req[r].cur] =
                     Closed(attempt[req[r].cur], req[r].verdict, req[r].sheet, t)]
    BY <1>4, <2>3 DEF Close
  <2>5. a = req[r].cur /\ attempt \in [Attempts -> Rows]
    BY <2>3, <2>4 DEF IInv, TypeOK
  <2>6. attempt'[a].status = req[r].verdict
    BY <2>4, <2>5 DEF Closed, Rows
  <2>7. req[r].op # "results"
    BY <2>1, <2>3, <2>6
  <2> QED BY <2>1, <2>2, <2>7 DEF Ops
<1> QED BY <1>1, <1>2, <1>3, <1>4

\* After a revoke, only requests let in before it save, start or hand in
\* (InvitationTokenGuard, TakeService).
THEOREM RevokeQuiet == Spec => RevokedIsQuiet
<1>1. ASSUME IInv, LetIn, [Next]_vars
      PROVE  [revokedAt # None /\ (\E a \in Attempts : CandidateWrites(a)) =>
                \E r \in Requests : /\ req'[r] # req[r]
                                    /\ req[r].op \in CandidateOps
                                    /\ req[r].at <= revokedAt]_vars
  BY <1>1, OnlyCandidatesWrite DEF LetIn
<1> QED BY <1>1, Invariance, LetInAlways, PTL DEF Spec, RevokedIsQuiet

-----------------------------------------------------------------------------
(***************************************************************************)
(* Take implements AttemptLife, for every value of the constants: what the *)
(* overlapping handlers do to the rows is what AttemptLife promises.       *)
(***************************************************************************)

clockBar == [a \in Attempts |-> ClockOf(attempt[a])]
resultBar == [a \in Attempts |-> ResultOf(attempt[a])]

LEMMA InitLife == Init => Life!Init
  BY DEF Init, Life!Init, NewRow, ClockOf, ResultOf, isFinished, FINISHED_STATUSES

LEMMA StartLife ==
    ASSUME IInv, NEW a \in Attempts, Starts(a)
    PROVE  Life!Start(a)
<1>1. PICK t \in 0 .. now, l \in Layouts :
          /\ t < LinkExpiry
          /\ attempt' = [attempt EXCEPT ![a] = Started(attempt[a], a, t, l)]
  BY DEF Starts
<1> DEFINE row == Started(attempt[a], a, t, l)
<1>2. /\ attempt \in [Attempts -> Rows] /\ attempt[a] \in Rows
      /\ attempt[a].status = "NOT_STARTED" /\ now' = now
  BY DEF IInv, TypeOK, Starts
<1>3. /\ row.status = "IN_PROGRESS" /\ row.startedAt = t
      /\ row.deadlineAt = t + Duration[a] /\ row.layout = l
  BY <1>2 DEF Started, Rows
<1> HIDE DEF row
<1>4. /\ attempt' = [attempt EXCEPT ![a] = row] /\ attempt'[a] = row
      /\ \A b \in Attempts \ {a} : attempt'[b] = attempt[b]
  BY <1>1, <1>2 DEF row
<1>5. clockBar[a] = None
  BY <1>2 DEF clockBar, ClockOf
<1>6. clockBar' = [clockBar EXCEPT ![a] =
                     [start |-> t, deadline |-> t + Duration[a], order |-> l]]
  BY <1>3, <1>4 DEF clockBar, ClockOf
<1>7. resultBar' = resultBar
  BY <1>2, <1>3, <1>4 DEF resultBar, ResultOf, isFinished, FINISHED_STATUSES
<1> QED BY <1>1, <1>2, <1>5, <1>6, <1>7 DEF Life!Start, clockBar, resultBar

LEMMA CloseLife ==
    ASSUME IInv, NEW a \in Attempts, Closes(a)
    PROVE  Life!Finish(a)
<1> USE NoneAssumption
<1>1. PICK t \in attempt[a].startedAt .. now, v \in FINISHED_STATUSES, sheet \in Sheets :
          /\ v = "EXPIRED" => t > attempt[a].deadlineAt + Grace
          /\ attempt' = [attempt EXCEPT ![a] = Closed(attempt[a], v, sheet, t)]
  BY DEF Closes
<1> DEFINE old == attempt[a]
           row == Closed(attempt[a], v, sheet, t)
<1>2. /\ attempt \in [Attempts -> Rows] /\ old \in Rows
      /\ old.status = "IN_PROGRESS" /\ now' = now
  BY DEF IInv, TypeOK, Closes
<1>3. /\ old.startedAt \in Nat /\ old.startedAt <= t /\ t \in Nat
      /\ old.deadlineAt \in Nat /\ old.startedAt <= old.deadlineAt
      /\ old.layout \in Layouts
  BY <1>2, SnapshotAssumption DEF IInv, RowShape, TypeOK
<1>4. TimeTaken(old, t) = Life!Earlier(t, old.deadlineAt) - old.startedAt
  BY <1>3 DEF TimeTaken, Life!Earlier
<1>5. /\ row.status = v /\ row.finishedAt = t /\ row.scored = sheet
      /\ row.timeTaken = TimeTaken(old, t) /\ row.startedAt = old.startedAt
      /\ row.deadlineAt = old.deadlineAt /\ row.layout = old.layout
  BY <1>2 DEF Closed, Rows
<1>6. clockBar[a] = [start |-> old.startedAt, deadline |-> old.deadlineAt, order |-> old.layout]
  BY <1>2 DEF clockBar, ClockOf
<1>7. clockBar[a] # None
  BY <1>3, <1>6
<1>8. resultBar[a] = None
  BY <1>2 DEF resultBar, ResultOf, isFinished, FINISHED_STATUSES
<1> HIDE DEF row
<1>9. /\ attempt' = [attempt EXCEPT ![a] = row] /\ attempt'[a] = row
      /\ \A b \in Attempts \ {a} : attempt'[b] = attempt[b]
  BY <1>1, <1>2 DEF row
<1>10. resultBar' = [resultBar EXCEPT ![a] =
           [status |-> v, at |-> t, scored |-> sheet, taken |-> TimeTaken(old, t)]]
  BY <1>5, <1>9 DEF resultBar, ResultOf, isFinished
<1>11. clockBar' = clockBar
  BY <1>2, <1>5, <1>9 DEF clockBar, ClockOf, FINISHED_STATUSES
<1>12. sheet \in [Questions -> Options \cup {None}] /\ v \in {"SUBMITTED", "EXPIRED"}
  BY DEF Sheets, FINISHED_STATUSES
<1>13. /\ t \in clockBar[a].start .. now
       /\ v = "EXPIRED" => t > clockBar[a].deadline + Grace
  BY <1>1, <1>6
<1>14. resultBar' = [resultBar EXCEPT ![a] =
           [status |-> v, at |-> t, scored |-> sheet,
            taken |-> Life!Earlier(t, clockBar[a].deadline) - clockBar[a].start]]
  BY <1>4, <1>6, <1>10
<1> QED BY <1>2, <1>7, <1>8, <1>11, <1>12, <1>13, <1>14
        DEF Life!Finish, clockBar, resultBar

LEMMA StepLife == IInv /\ [Next]_vars => [Life!Next]_Life!vars
<1> SUFFICES ASSUME IInv, [Next]_vars PROVE [Life!Next]_Life!vars
  OBVIOUS
<1>1. CASE UNCHANGED attempt /\ UNCHANGED now
  BY <1>1 DEF Life!vars
<1>2. CASE UNCHANGED attempt /\ now' = now + 1
  BY <1>2 DEF Life!Next, Life!Tick
<1>3. CASE \E a \in Attempts : Starts(a) \/ Closes(a)
  BY <1>3, StartLife, CloseLife DEF Life!Next
<1> QED BY <1>1, <1>2, <1>3, RowsMove

\* The handlers of TakeService and AttemptsService, however they overlap or
\* crash, start an attempt at most once and finish it at most once.
THEOREM Implementation == Spec => ImplementsLife
  BY InitLife, StepLife, Invariance, PTL DEF Spec, ImplementsLife, Life!Spec

=============================================================================
