------------------------------ MODULE Scoring -------------------------------
(***************************************************************************)
(* What a sent test makes of answers (scoring.ts) and the orders it can be *)
(* shown in (layout.ts).  A paper is the snapshot: [method, sections,      *)
(* questions, bands], a question of it also has its section and whether    *)
(* its options are shuffled.  Questions and options are named by their     *)
(* place; an answer is an option or None.  Numbers are exact fractions     *)
(* <<n, d>>: the code's tolerance EPSILON stands for that.                 *)
(***************************************************************************)
EXTENDS Questions

\* <<n, d>> with d > 0.
Plus(a, b)  == <<a[1] * b[2] + b[1] * a[2], a[2] * b[2]>>
Times(a, b) == <<a[1] * b[1], a[2] * b[2]>>
AtMost(a, b) == a[1] * b[2] <= b[1] * a[2]
Over(a, b)  == <<a[1] * b[2], a[2] * b[1]>>
Same(a, b)  == AtMost(a, b) /\ AtMost(b, a)
Zero == <<0, 1>>
One  == <<1, 1>>
Total(f) == FoldSet(LAMBDA x, sum : Plus(f[x], sum), Zero, DOMAIN f)
Mean(f)  == IF DOMAIN f = {} THEN Zero ELSE Over(Total(f), <<Cardinality(DOMAIN f), 1>>)

Abs(n) == IF n < 0 THEN -n ELSE n

-----------------------------------------------------------------------------

Places(paper) == DOMAIN paper.questions

\* Sections with questions, and None for the questions without one.
Groups(paper) == {paper.questions[i].section : i \in Places(paper)}
Members(paper, s) == {i \in Places(paper) : paper.questions[i].section = s}

\* bandFor(): the highest minimum at or below the score, or None.
bandFor(bands, score) ==
    LET below == {b \in bands : AtMost(b, score)}
    IN  IF below = {} THEN None
        ELSE CHOOSE b \in below : \A x \in below : AtMost(x, b)

Answered(paper, answers, S) == {i \in S : answers[i] # None}

\* Mutant: unanswered questions don't count.
outOfAnswered(paper, answers, S) == Cardinality(Answered(paper, answers, S))

outOf(paper, answers, S) == Cardinality(S)

correctScore(paper, answers, S) ==
    LET right == {i \in Answered(paper, answers, S) :
                    paper.questions[i].options[answers[i]].correct}
        whole == outOf(paper, answers, S)
    IN  IF whole = 0 THEN Zero ELSE <<Cardinality(right), whole>>

itemAlignment(q, value) ==
    LET gap  == Abs(value - q.employerValue)
        span == Max(ToSet(Values(q))) - Min(ToSet(Values(q)))
    IN  IF q.type = "CHOICE_SCALE"
          THEN IF gap = 0 THEN One ELSE IF gap = 1 THEN <<1, 2>> ELSE Zero
        ELSE IF span > 0 THEN <<Max({0, span - gap}), span>> ELSE One

Chosen(paper, answers, i) == paper.questions[i].options[answers[i]].value

sectionAlignment(paper, answers, s) ==
    Mean([i \in Answered(paper, answers, Members(paper, s)) |->
             itemAlignment(paper.questions[i], Chosen(paper, answers, i))])

\* The sections that weigh something.
Weighted(paper) ==
    [s \in {g \in Groups(paper) \ {None} : paper.weights[g] > 0} |-> <<paper.weights[s], 1>>]

\* Their weighted mean, or the plain mean of all.
scoreAlignment(paper, answers) ==
    LET of(s) == sectionAlignment(paper, answers, s)
        weight == Weighted(paper)
    IN  IF DOMAIN weight = {} THEN Mean([s \in Groups(paper) |-> of(s)])
        ELSE Over(Total([s \in DOMAIN weight |-> Times(weight[s], of(s))]), Total(weight))

\* Gaps of two points or more.
flags(paper, answers) ==
    IF paper.method = "CORRECT_ANSWER" THEN {}
    ELSE {i \in Answered(paper, answers, Places(paper)) :
            Abs(Chosen(paper, answers, i) - paper.questions[i].employerValue) >= 2}

scoreAttempt(paper, answers) ==
    IF paper.method = "ALIGNMENT" THEN scoreAlignment(paper, answers)
    ELSE correctScore(paper, answers, Places(paper))

-----------------------------------------------------------------------------
(* layout.ts: the orders one candidate can be given.                         *)

Draws(n) == {d \in [2..n -> 1..n] : \A i \in 2..n : d[i] <= i}

\* Fisher-Yates, from the last place down: place i swaps with place d[i].
shuffled(items, d) ==
    LET swap(s, i) == [s EXCEPT ![i] = s[d[i]], ![d[i]] = s[i]]
    IN  FoldLeft(swap, items, [k \in 1..(Len(items) - 1) |-> Len(items) + 1 - k])

Shuffles(items) == {shuffled(items, d) : d \in Draws(Len(items))}

\* The members of S, lowest first.
InOrder(S) ==
    CHOOSE s \in [1..Cardinality(S) -> S] : \A i, k \in DOMAIN s : i < k => s[i] < s[k]

\* Blocks in section order, then the questions without a section.
Blocks(paper) ==
    [k \in 1..(Len(paper.sections) + 1) |->
        InOrder(Members(paper, IF k <= Len(paper.sections) THEN paper.sections[k] ELSE None))]

\* Mutant: alignment questions are shuffled across their dimensions.
effectiveOrderAsSet(paper) == paper.order

effectiveOrder(paper) ==
    IF paper.order = "SHUFFLE_ALL" /\ paper.method = "ALIGNMENT"
      THEN "SHUFFLE_WITHIN_SECTION" ELSE paper.order

orderQuestions(paper) ==
    LET all == [i \in Places(paper) |-> i]
        append(orders, block) == {o \o s : o \in orders, s \in Shuffles(block)}
    IN  CASE effectiveOrder(paper) = "FIXED" -> {all}
          [] effectiveOrder(paper) = "SHUFFLE_ALL" -> Shuffles(all)
          [] OTHER -> FoldLeft(append, {<<>>}, Blocks(paper))

\* Only single-choice options move.
shufflesOptions(type, setting) == type = "SINGLE_CHOICE" /\ setting

orderOptions(q, setting, keepLast) ==
    LET all == [i \in DOMAIN q.options |-> i]
        n == Len(all)
    IN  IF ~shufflesOptions(q.type, setting) THEN {all}
        ELSE IF keepLast /\ n > 1
          THEN {Append(s, n) : s \in Shuffles(SubSeq(all, 1, n - 1))}
        ELSE Shuffles(all)

=============================================================================
