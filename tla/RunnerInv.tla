----------------------------- MODULE RunnerInv -----------------------------
(***************************************************************************)
(* The inductive invariant of Runner: how far the run has come, what its   *)
(* timer and the question that leaves still know of that, and which test   *)
(* the score under way can be of.                                          *)
(***************************************************************************)
EXTENDS Runner

\* The first n questions have been the runner's.
Came(n) == \A i \in 1 .. n : paper.questions[i] \in seen

\* Whatever the runner can still do starts from a question it has shown: the
\* one on screen, the one that leaves, or the one before the timer's.
RunCame ==
    /\ run.index \in 1 .. Size(paper) /\ Came(run.index)
    /\ run.timer # 0 => run.timer \in 2 .. Size(paper) /\ Came(run.timer - 1)
    /\ run.leaving # NotLeaving =>
          /\ run.leaving.index \in 1 .. Size(paper) /\ run.leaving.last = Size(paper)
          /\ run.leaving.question = paper.questions[run.leaving.index]
          /\ Came(run.leaving.index)
    /\ run.review => Came(Size(paper))

\* Without going back: the timer leads forward, unless its choice came late.
RunForward ==
    /\ run.timer # 0 /\ ~late => run.timer >= run.index
    /\ \A i \in DOMAIN paper.questions : paper.questions[i] \in passed => i < run.index

RunInv ==
    run # None => /\ screen = "running"
                  /\ steady => RunCame /\ (~paper.back => RunForward)

\* A candidate's paper never changes, and what is saved, or was when the test was
\* opened, has come, in this visit or an earlier one.
CandidateInv ==
    ~Staff =>
        /\ steady /\ refresh.state = "none" /\ calls = <<>> /\ score = NoScore
        /\ screen = "running" => paper.questions # <<>>
        /\ \A i \in DOMAIN paper.questions :
              saved[paper.questions[i]] # None \/ opened[paper.questions[i]] # None => Came(i)
        /\ ~paper.back =>
              \A i \in DOMAIN paper.questions : paper.questions[i] \in passed => i < Size(paper)

OfLastHandIn(result) == \E t \in since : result = ScoreOf(t, handed.answers)

\* The request the page watches is of the answers handed in last.
ScoreInv ==
    /\ since # {} => test \in since
    /\ score.call # 0 =>
          /\ since # {}
          /\ calls[score.call].state = "sent" => calls[score.call].answers = handed.answers
          /\ calls[score.call].state = "served" => OfLastHandIn(calls[score.call].result)
    /\ score.state = "shown" => OfLastHandIn(score.result)

\* The runner counts what has been heard.
ClipsInv ==
    /\ run # None => run.plays = heard
    /\ ClipsPlayAsOften

RInv ==
    /\ TypeOK /\ RunInv /\ CandidateInv /\ ScoreInv /\ ClipsInv /\ EveryQuestionCame

=============================================================================
