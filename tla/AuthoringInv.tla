----------------------------- MODULE AuthoringInv -----------------------------
(***************************************************************************)
(* The inductive invariant of Authoring: what can be relied on of a        *)
(* question while it is typed, once it is stored, and when it is answered. *)
(***************************************************************************)
EXTENDS Authoring

Texts == {"", "x", "True", "False"}
Types == UNION {questionTypesFor(m) : m \in Methods}

Option   == [text : Texts, value : Nat \cup {None}, correct : BOOLEAN]
Question == [type : Types, options : Seq(Option), employerValue : Nat \cup {None}]

\* Stored: accepted, and without anything its type doesn't have.
Sound(q, m) == q \in Question /\ Accepted(q, m) /\ normalizeQuestion(q) = q

-----------------------------------------------------------------------------
(* The form.                                                                *)

DraftOption(o) ==
    /\ DOMAIN o = {"key", "text", "value", "correct"}
    /\ o.text \in Texts /\ o.value \in Nat \cup {None} /\ o.correct \in BOOLEAN

DraftOptions(os) ==
    /\ Len(os) \in Nat /\ os = [i \in 1..Len(os) |-> os[i]]
    /\ \A i \in DOMAIN os : DraftOption(os[i])

\* The form never offers more options than the API takes, nor fewer points.
Sized(type, n) ==
    CASE type = "TRUE_FALSE"   -> n = 2
      [] type = "RATING_SCALE" -> n \in MinPoints..MaxPoints
      [] OTHER                 -> n <= MaxChoices

DraftTrue(d, m) ==
    /\ DOMAIN d = {"type", "options", "employerKey"}
    /\ d.type \in questionTypesFor(m)
    /\ DraftOptions(d.options) /\ Sized(d.type, Len(d.options))

-----------------------------------------------------------------------------
(* The test that is sent.                                                   *)

\* A question that can be scored.
Scorable(q, m) ==
    /\ q.options \in Seq(Option) /\ Len(q.options) >= 2
    /\ m = "CORRECT_ANSWER" => Cardinality(Corrects(q)) = 1
    /\ m = "ALIGNMENT" =>
          /\ isScale(q.type) /\ Climbing(Values(q))
          /\ q.employerValue \in ToSet(Values(q)) \ {None}

PaperTrue(p) ==
    /\ p.method \in Methods /\ p.bands = Minimums
    /\ p.weights \in [{"s1", "s2"} -> Nat]
    /\ DOMAIN p.questions = 1..3
    /\ \A i \in Places(p) :
          /\ Scorable(p.questions[i], p.method)
          /\ p.questions[i].section \in {"s1", "s2", None}

AnswersTo(p, answers) ==
    /\ DOMAIN answers = Places(p)
    /\ \A i \in Places(p) : answers[i] \in DOMAIN p.questions[i].options \cup {None}

ShownTrue(w) ==
    /\ PaperTrue(w.paper) /\ w.paper.sections = <<"s1", "s2">>
    /\ w.paper.order \in {"FIXED", "SHUFFLE_ALL", "SHUFFLE_WITHIN_SECTION"}
    /\ w.questions \in orderQuestions(w.paper)
    /\ w.options \in orderOptions(w.paper.questions[1], w.setting, w.keepLast)

WInv ==
    /\ "stage" \in DOMAIN work
    /\ At("new") => work.method \in Methods
    /\ At("form") => work.method \in Methods /\ DraftTrue(work.draft, work.method)
    /\ At("stored") => work.method \in Methods /\ Sound(work.question, work.method)
    /\ At("shown") => ShownTrue(work)
    /\ At("answered") => PaperTrue(work.paper) /\ AnswersTo(work.paper, work.answers)

=============================================================================
