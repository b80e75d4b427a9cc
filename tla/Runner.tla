------------------------------- MODULE Runner -------------------------------
(***************************************************************************)
(* The screen that puts a test's questions one at a time, as candidates    *)
(* get it (assessment-runner.tsx) and as staff preview it with a score at  *)
(* the end (preview-flow.tsx).  A choice moves on by itself after a        *)
(* moment; keys, pointer, timer, the preview's "Shuffle again" and edits   *)
(* of the test come in any order.                                          *)
(*                                                                         *)
(* TakeFlow models how a candidate's answers are saved; here a save of a   *)
(* choice arrives or is lost.  A runner goes with its page, and also while *)
(* the overview behind it cannot be read; the one mounted then starts from *)
(* the answers the test was opened with.                                   *)
(*                                                                         *)
(* A result is who was right and who was left blank: Scoring models how it *)
(* is scored.                                                              *)
(***************************************************************************)
EXTENDS Integers, SequencesExt, Null

CONSTANTS
    Questions, Options,
    Visits,   \* bound: who comes, to which test, what they choose among, what it may
              \* be edited to meanwhile, how often, how many runs, and whether for clips
    Replays   \* the setting audioReplays

ASSUME RunnerAssumption ==
    /\ Replays \in Nat /\ IsFiniteSet(Questions)
    /\ None \notin Questions \cup Options /\ None # "submitted"

VARIABLES
    visit,
    test,     \* server: each question's right option, and allowBackNavigation
    edits,    \* of the test so far
    paper,    \* the test as the page holds it, its questions in order
    refresh,  \* router.refresh() under way
    screen,
    begun,    \* runs so far
    run,      \* the runner's state while it is mounted
    saved,    \* server: a candidate's answers
    opened,   \* those that the start request replied with
    calls,    \* every request to score the preview
    score,    \* the one the page watches, and what it shows
    handed,   \* history: what was handed in last
    since,    \* history: the tests there have been since
    passed,   \* history: questions that were moved on from and lie behind
    seen,     \* history: questions that have been the runner's
    heard,    \* history: how often each clip has started from the beginning
              \* since the runner was mounted
    steady,   \* history: the page has held one paper since the run began
    late      \* history: this move, or the choice whose moment runs, was made on a
              \* question that was leaving after the runner had moved on twice

server == <<visit, test, edits>>
scores == <<calls, score, since>>
vars   == <<server, paper, refresh, screen, begun, run, saved, opened, scores, handed,
            passed, seen, heard, steady, late>>

Staff == visit.visitor = "staff"

Tests == [key : UNION {[S -> Options] : S \in SUBSET Questions}, back : BOOLEAN]

ASSUME VisitsAssumption ==
    Visits \subseteq [visitor : {"candidate", "staff"}, test : Tests, options : SUBSET Options, edits : Nat,
                      later : SUBSET Tests, runs : Nat, clips : BOOLEAN]

Orders(S) == {s \in [1 .. Cardinality(S) -> S] : \A i, k \in DOMAIN s : s[i] = s[k] => i = k}

\* preview(): freshly shuffled, with the key.
preview(t) ==
    {[questions |-> s, key |-> t.key, back |-> t.back] : s \in Orders(DOMAIN t.key)}

NoAnswers == [q \in Questions |-> None]
NotLeaving == [question |-> None, index |-> 0, last |-> 0]
NoClip == [playing |-> FALSE, time |-> "start"]

\* The runner as it is mounted.
NewRun(answers, at) ==
    [index |-> at, answers |-> answers, timer |-> 0, review |-> FALSE, pointer |-> FALSE,
     leaving |-> NotLeaving, plays |-> [q \in Questions |-> 0], clip |-> NoClip]

NoScore == [call |-> 0, state |-> "none", result |-> None]
NotHanded == [answers |-> NoAnswers, reason |-> None]
NoRefresh == [state |-> "none", paper |-> None]

Init ==
    /\ visit \in Visits
    /\ test = visit.test /\ edits = 0
    /\ paper \in preview(test) /\ refresh = NoRefresh
    /\ screen = "intro" /\ begun = 0 /\ run = None
    /\ saved = NoAnswers /\ opened = NoAnswers
    /\ calls = <<>> /\ score = NoScore /\ since = {}
    /\ handed = NotHanded /\ passed = {} /\ seen = {}
    /\ heard = [q \in Questions |-> 0] /\ steady = TRUE /\ late = FALSE

-----------------------------------------------------------------------------
(* Where the runner is.                                                     *)

Size(p) == Len(p.questions)

QuestionAt(p, i) == IF i \in DOMAIN p.questions THEN p.questions[i] ELSE None

Current == IF run = None THEN None ELSE QuestionAt(paper, run.index)

\* Mutant: the first as yet unanswered by count.
resumeByCount(p, answers) ==
    LET n == Cardinality({i \in DOMAIN p.questions : answers[p.questions[i]] # None})
    IN  IF n < Size(p) THEN n + 1 ELSE Size(p)

\* Without going back, the one after the last answer; else the first open one.
resumeAt(p, answers) ==
    LET open(i) == answers[p.questions[i]] = None
        after(i) == \A k \in DOMAIN p.questions : k >= i => open(k)
    IN  CHOOSE i \in DOMAIN p.questions :
          IF p.back
          THEN /\ open(i) \/ i = Size(p)
               /\ \A k \in 1 .. i - 1 : ~open(k)
          ELSE /\ after(i) \/ i = Size(p)
               /\ \A k \in 1 .. i - 1 : ~after(k)

Behind(p, i) == {p.questions[k] : k \in {n \in DOMAIN p.questions : n < i}}

\* The history of a step to the run r, on the page's next paper.
Noted(r) ==
    /\ run' = r
    /\ passed' = IF r = None THEN passed
                 ELSE (passed \cup {Current}) \cap Behind(paper', r.index)
    /\ seen' = IF r = None THEN seen ELSE (seen \cup {QuestionAt(paper', r.index)}) \ {None}

\* A choice that was late stays so until its moment is over or it is replaced.
StaysLate(r) == late /\ run.timer # 0 /\ r.timer = run.timer

\* A step inside the runner, late or not.
Moves(r, isLate) ==
    /\ UNCHANGED <<server, paper, refresh, screen, begun, opened, scores, handed, steady>>
    /\ Noted(r)
    /\ late' = (isLate \/ StaysLate(r))

Becomes(r) == Moves(r, FALSE)

\* The runner takes input: nothing lies over it.
Open == run # None /\ ~run.review

\* The question is on screen, the one before it has left.
Displayed == Open /\ run.leaving = NotLeaving /\ Current # None

-----------------------------------------------------------------------------
(* go(), next() and choose().                                               *)

\* The question that leaves stays on screen, with its handlers, until it has;
\* only then does the next one come (AnimatePresence, mode "wait").
Leaves(r, target) ==
    IF r.leaving # NotLeaving
    THEN IF r.leaving.question = QuestionAt(paper, target) THEN NotLeaving ELSE r.leaving
    ELSE IF QuestionAt(paper, r.index) = None THEN NotLeaving
    ELSE [question |-> QuestionAt(paper, r.index), index |-> r.index, last |-> Size(paper)]

Show(r, target) ==
    IF target = r.index THEN r
    ELSE [r EXCEPT !.index = target, !.pointer = FALSE, !.clip = NoClip,
                   !.leaving = Leaves(r, target)]

\* Mutant: the timer is left running.
Stay(r) == r

\* window.clearTimeout(advanceTimer.current)
Cleared(r) == [r EXCEPT !.timer = 0]

MayGo(from, target) ==
    target \in 1 .. Size(paper) /\ target # from /\ (target > from \/ paper.back)

go(r, from, target) ==
    IF MayGo(from, target) THEN Show(Cleared(r), target) ELSE Cleared(r)

\* Mutant: the last question but one is the last.
isLastTooEarly(index, last) == index >= last - 1

isLast(index, last) == index = last

next(r, from) ==
    IF isLast(from, Size(paper)) THEN [r EXCEPT !.review = TRUE] ELSE go(r, from, from + 1)

\* choose() of the question q, `from` of `last`.
chosen(r, q, from, last, o, confirmed) ==
    [Cleared(r) EXCEPT !.answers[q] = o,
                       !.timer = IF confirmed /\ from # last THEN from + 1 ELSE 0]

\* onAnswer: a candidate's choice is saved, or the save is lost.
Save(q, o) ==
    IF Staff THEN UNCHANGED saved ELSE saved' \in {saved, [saved EXCEPT ![q] = o]}

Choose(o, confirmed, pointer) ==
    /\ Becomes([chosen(run, Current, run.index, Size(paper), o, confirmed)
                  EXCEPT !.pointer = pointer])
    /\ Save(Current, o)
    /\ UNCHANGED heard

\* A letter or number key, also while the last question is leaving.
Letter(o) == Open /\ Current # None /\ Choose(o, TRUE, run.pointer)

\* An option is clicked; the chosen one again moves on, and no change is
\* reported that would take the pointer back.
Click(o) ==
    /\ Displayed
    /\ \/ run.answers[Current] # o /\ Choose(o, TRUE, FALSE)
       \/ /\ run.answers[Current] = o
          /\ Becomes(next([run EXCEPT !.pointer = TRUE], run.index))
          /\ UNCHANGED <<saved, heard>>

\* Pressed and let go elsewhere.
PressAway ==
    /\ Displayed /\ ~run.pointer
    /\ Becomes([run EXCEPT !.pointer = TRUE]) /\ UNCHANGED <<saved, heard>>

Arrow(o) == Displayed /\ run.answers[Current] # o /\ Choose(o, run.pointer, FALSE)

\* Enter, "OK", "Skip" or the footer's button.
Enter ==
    /\ Open
    /\ Becomes(next(run, run.index)) /\ UNCHANGED <<saved, heard>>

Previous ==
    /\ Open /\ paper.back /\ run.index # 1
    /\ Becomes(go(run, run.index, run.index - 1)) /\ UNCHANGED <<saved, heard>>

\* The moment after a choice is over.
Advance ==
    /\ run # None /\ run.timer # 0
    /\ Moves(Show(Cleared(run), run.timer), late) /\ UNCHANGED <<saved, heard>>

Left ==
    /\ run # None /\ run.leaving # NotLeaving
    /\ Becomes([run EXCEPT !.leaving = NotLeaving]) /\ UNCHANGED <<saved, heard>>

\* On the question that is leaving: its handlers know only where it was.
Leaving == Open /\ run.leaving # NotLeaving

MovedOnTwice == run.index > run.leaving.index + 1

ClickLeaving(o) ==
    LET was == run.leaving
    IN  /\ Leaving /\ run.answers[was.question] # o
        /\ Moves(chosen(run, was.question, was.index, was.last, o, TRUE), MovedOnTwice)
        /\ Save(was.question, o)
        /\ UNCHANGED heard

NextLeaving ==
    /\ Leaving
    /\ Moves(next(run, run.leaving.index), MovedOnTwice) /\ UNCHANGED <<saved, heard>>

-----------------------------------------------------------------------------
(* The question's clip (runner-audio.tsx).                                  *)

Clip == run.clip

\* It hasn't played, or less than 0.05 s of it are left.
atStart == Clip.time \in {"start", "near end", "end"}

\* Mutant: the player counts, anew for each time the question is shown.
leftByPlayer(plays) == IF Clip.time = "start" THEN 1 ELSE Replays + 1 - plays

left(plays) == Replays + 1 - plays

toggle ==
    LET q == Current
        plays == run.plays[q]
    IN  /\ Displayed /\ visit.clips
        /\ \/ /\ Clip.playing
              /\ Becomes([run EXCEPT !.clip.playing = FALSE]) /\ UNCHANGED heard
           \/ /\ ~Clip.playing /\ atStart /\ left(plays) > 0
              /\ Becomes([run EXCEPT !.plays[q] = @ + 1,
                                     !.clip = [playing |-> TRUE, time |-> "start"]])
              /\ heard' = [heard EXCEPT ![q] = @ + 1]
           \/ /\ ~Clip.playing /\ ~atStart
              /\ Becomes([run EXCEPT !.clip.playing = TRUE])
              /\ heard' = [heard EXCEPT ![q] = IF Clip.time = "end" THEN @ + 1 ELSE @]
        /\ UNCHANGED saved

\* It plays on: timeupdate, then ended.
Plays ==
    /\ run # None /\ Clip.playing
    /\ \E t \in {"mid", "near end", "end"} \ {Clip.time} :
          /\ t = "mid" => Clip.time = "start"
          /\ Becomes([run EXCEPT !.clip = [playing |-> t # "end", time |-> t]])
    /\ UNCHANGED <<saved, heard>>

-----------------------------------------------------------------------------
(* Starting, handing in, leaving.                                           *)

\* begin(): "Start", and "Try again" on the preview's result.
begin ==
    /\ Staff /\ screen \in {"intro", "result"}
    /\ passed' = {} /\ seen' = {paper.questions[1]}
    /\ run' = NewRun(NoAnswers, 1) /\ UNCHANGED opened

\* A runner with a candidate's answers, where they say.
Mounted(answers) ==
    LET at == resumeAt(paper, answers)
    IN  /\ run' = NewRun(answers, at)
        /\ passed' = passed \cap Behind(paper, at)
        /\ seen' = seen \cup {paper.questions[at]}
        /\ heard' = [q \in Questions |-> 0] /\ late' = FALSE

\* A candidate starts, or continues with the saved answers.
Continue ==
    /\ ~Staff /\ screen = "intro"
    /\ opened' = saved /\ Mounted(saved)

Begin ==
    /\ begun < visit.runs /\ paper.questions # <<>>
    /\ begin \/ Continue
    /\ screen' = "running" /\ begun' = begun + 1
    /\ score' = NoScore /\ handed' = NotHanded /\ since' = {} /\ steady' = TRUE
    /\ heard' = [q \in Questions |-> 0] /\ late' = FALSE
    /\ UNCHANGED <<server, paper, refresh, saved, calls>>

\* The candidate's overview can't be read: an error stands in the runner's place.
OverviewFails ==
    /\ ~Staff /\ run # None
    /\ run' = None /\ late' = FALSE
    /\ UNCHANGED <<server, paper, refresh, screen, begun, saved, opened, scores, handed, passed,
                   seen, heard, steady>>

\* It can again: the runner is mounted with the answers of the start reply.
OverviewComes ==
    /\ ~Staff /\ screen = "running" /\ run = None
    /\ Mounted(opened)
    /\ UNCHANGED <<server, paper, refresh, screen, begun, saved, opened, scores, handed, steady>>

\* onSubmit: the preview has it scored, the candidate's test is over.
HandOver(reason) ==
    /\ screen' = IF Staff THEN "result" ELSE "done"
    /\ run' = None /\ late' = FALSE
    /\ handed' = [answers |-> run.answers, reason |-> reason]
    /\ IF Staff
       THEN /\ calls' = Append(calls, [answers |-> run.answers, state |-> "sent", result |-> None])
            /\ score' = [call |-> Len(calls) + 1, state |-> "pending", result |-> None]
            /\ since' = {test}
       ELSE UNCHANGED scores
    /\ UNCHANGED <<server, paper, refresh, begun, saved, opened, passed, seen, heard, steady>>

Confirm == run # None /\ run.review /\ HandOver("submitted")

TimesUp == run # None /\ HandOver("timed-out")

KeepGoing ==
    /\ run # None /\ run.review
    /\ Becomes([run EXCEPT !.review = FALSE]) /\ UNCHANGED <<saved, heard>>

\* A question left blank, from the dialog.
JumpTo(i) ==
    /\ run # None /\ run.review /\ paper.back
    /\ i \in DOMAIN paper.questions /\ run.answers[paper.questions[i]] = None
    /\ Becomes(go([run EXCEPT !.review = FALSE], run.index, i)) /\ UNCHANGED <<saved, heard>>

\* The page is closed or loaded again: a preview loads a fresh one.
Leave ==
    /\ screen # "done"
    /\ screen' = "intro" /\ run' = None
    /\ refresh' = NoRefresh /\ score' = NoScore /\ handed' = NotHanded /\ since' = {}
    /\ IF Staff THEN paper' \in preview(test) ELSE paper' = paper
    /\ calls' = [c \in DOMAIN calls |-> [calls[c] EXCEPT !.state = "done", !.answers = NoAnswers,
                                                         !.result = None]]
    /\ steady' = TRUE /\ late' = FALSE /\ opened' = NoAnswers
    /\ UNCHANGED <<server, begun, saved, passed, seen, heard>>

-----------------------------------------------------------------------------
(* The preview's page.                                                      *)

\* "Shuffle again".
Reshuffle ==
    /\ Staff /\ (run # None => ~run.review)
    /\ screen' = "intro" /\ run' = None /\ late' = FALSE
    /\ refresh' = [state |-> "asked", paper |-> None]
    /\ UNCHANGED <<server, paper, begun, saved, opened, scores, handed, passed, seen, heard,
                   steady>>

ServeRefresh ==
    /\ refresh.state = "asked"
    /\ \E p \in preview(test) : refresh' = [state |-> "served", paper |-> p]
    /\ UNCHANGED <<server, paper, screen, begun, run, saved, opened, scores, handed, passed, seen,
                   heard, steady, late>>

\* Wherever the page is by now; its state stays, unless there are no questions.
Refreshed ==
    LET p == refresh.paper
        fresh == p.questions # <<>> /\ paper.questions = <<>> /\ screen = "running"
    IN  /\ refresh.state = "served"
        /\ paper' = p /\ refresh' = NoRefresh
        /\ Noted(IF p.questions = <<>> THEN None
                 ELSE IF fresh THEN NewRun(NoAnswers, 1)
                 ELSE run)
        /\ heard' = IF fresh THEN [q \in Questions |-> 0] ELSE heard
        /\ steady' = FALSE
        /\ UNCHANGED <<server, screen, begun, saved, opened, scores, handed, late>>

ScoreOf(t, answers) ==
    [right |-> {q \in DOMAIN t.key : answers[q] = t.key[q]},
     blank |-> {q \in DOMAIN t.key : answers[q] = None}]

\* previewScore(), of the test as it is by now.
ServeScore(c) ==
    /\ calls[c].state = "sent"
    /\ calls' = [calls EXCEPT ![c].state = "served", ![c].result = ScoreOf(test, calls[c].answers)]
    /\ UNCHANGED <<server, paper, refresh, screen, begun, run, saved, opened, score, since, handed,
                   passed, seen, heard, steady, late>>

\* Mutant: whichever request answers is shown.
anyCall(c) == score.call # 0

\* The mutation watches its latest request.
watched(c) == score.call = c

Settle(c, state, result) ==
    /\ calls' = [calls EXCEPT ![c] = [answers |-> NoAnswers, state |-> "done", result |-> None]]
    /\ score' = IF watched(c) THEN [score EXCEPT !.state = state, !.result = result] ELSE score
    /\ UNCHANGED <<server, paper, refresh, screen, begun, run, saved, opened, since, handed,
                   passed, seen, heard, steady, late>>

ScoreReplies(c) == calls[c].state = "served" /\ Settle(c, "shown", calls[c].result)

ScoreFails(c) == calls[c].state \in {"sent", "served"} /\ Settle(c, "failed", None)

\* Someone edits the test.
Edit ==
    /\ edits < visit.edits
    /\ edits' = edits + 1
    /\ test' \in visit.later \ {test}
    /\ since' = IF since = {} THEN {} ELSE since \cup {test'}
    /\ UNCHANGED <<visit, paper, refresh, screen, begun, run, saved, opened, calls, score, handed,
                   passed, seen, heard, steady, late>>

-----------------------------------------------------------------------------

Next ==
    \/ \E o \in visit.options : Letter(o) \/ Click(o) \/ Arrow(o) \/ ClickLeaving(o)
    \/ PressAway \/ Enter \/ Previous \/ Advance \/ Left \/ NextLeaving
    \/ toggle \/ Plays
    \/ OverviewFails \/ OverviewComes
    \/ Begin \/ Confirm \/ TimesUp \/ KeepGoing \/ Leave
    \/ \E i \in 1 .. Cardinality(Questions) : JumpTo(i)
    \/ Reshuffle \/ ServeRefresh \/ Refreshed \/ Edit
    \/ \E c \in DOMAIN calls : ServeScore(c) \/ ScoreReplies(c) \/ ScoreFails(c)

Spec == Init /\ [][Next]_vars

-----------------------------------------------------------------------------

Answers == [Questions -> Options \cup {None}]

Papers ==
    {p \in [questions : Seq(Questions), key : UNION {[S -> Options] : S \in SUBSET Questions},
            back : BOOLEAN] :
        \A i, k \in DOMAIN p.questions : p.questions[i] = p.questions[k] => i = k}

Runs ==
    [index : Nat \ {0}, answers : Answers, timer : Nat, review : BOOLEAN, pointer : BOOLEAN,
     leaving : {NotLeaving} \cup [question : Questions, index : Nat, last : Nat],
     plays : [Questions -> Nat],
     clip : [playing : BOOLEAN, time : {"start", "mid", "near end", "end"}]]

Results == [right : SUBSET Questions, blank : SUBSET Questions]

\* The test, the page with its runner, and the requests to score are well formed.
TypeOK ==
    /\ visit \in Visits /\ test \in Tests /\ edits \in Nat
    /\ paper \in Papers
    /\ \/ refresh.state \in {"none", "asked"}
       \/ refresh.state = "served" /\ refresh.paper \in Papers
    /\ screen \in {"intro", "running", "result", "done"} /\ begun \in Nat
    /\ run # None => run \in Runs
    /\ saved \in Answers /\ opened \in Answers
    /\ calls \in Seq([answers : Answers, state : {"sent", "served", "done"},
                      result : Results \cup {None}])
    /\ score \in [call : 0 .. Len(calls), state : {"none", "pending", "shown", "failed"},
                  result : Results \cup {None}]
    /\ handed \in [answers : Answers, reason : {"submitted", "timed-out", None}]
    /\ since \in SUBSET Tests /\ passed \in SUBSET Questions /\ seen \in SUBSET Questions
    /\ heard \in [Questions -> Nat] /\ steady \in BOOLEAN /\ late \in BOOLEAN

(* Where going back is not allowed, the runner does not go back to a question *)
(* that was moved on from while the page holds the same paper: not by a late  *)
(* advance, a key or the first thing done on a question that leaves.  There   *)
(* are two ways back.  A question that is still leaving after the runner has  *)
(* moved on twice leads to the one after it.  And a candidate's runner that   *)
(* is mounted anew, after a reload or while an overview could not be read,    *)
(* may find a question again that had no answer when the test was opened.     *)
NoWayBack ==
    [][LET now == Current'
       IN  now # Current /\ now \in passed /\ steady' /\ ~paper'.back =>
             late' \/ (run = None /\ (Staff \/ opened'[now] = None))]_vars

(* A test that is handed in by confirming has had each of its questions as   *)
(* the runner's question, in this visit or an earlier one, unless the page   *)
(* was given another paper in between.                                       *)
EveryQuestionCame ==
    handed.reason = "submitted" /\ steady => Range(paper.questions) \subseteq seen

(* The score that a preview shows is of the answers handed in last, by the   *)
(* key of a test there has been since, whatever earlier requests do.         *)
ScoreIsOfLastHandIn ==
    screen = "result" /\ score.state = "shown" =>
        \E t \in since : score.result = ScoreOf(t, handed.answers)

(* A clip starts from the beginning once and as often again as the test      *)
(* allows while the runner is mounted, however the candidate pauses it, near *)
(* its end too, and moves between questions.                                 *)
ClipsPlayAsOften == \A q \in Questions : heard[q] <= Replays + 1

=============================================================================
