----------------------------- MODULE Questions ------------------------------
(***************************************************************************)
(* What a question goes through: the form it is typed in                   *)
(* (question-draft.ts), the rules the API applies when it is saved         *)
(* (question-rules.ts) and a row of a question CSV (csv-questions.ts).     *)
(* Columns that are only copied (stem, texts for staff, media) are left    *)
(* out; an option's text is "" when it is blank.                           *)
(***************************************************************************)
EXTENDS Integers, Sequences, FiniteSets, SequencesExt, FiniteSetsExt, Null

CONSTANTS
    MaxChoices,   \* MAX_CHOICE_OPTIONS: as many as there are option letters
    MaxPoints,    \* MAX_SCALE_POINTS
    DefaultPoints, \* DEFAULT_POINTS of a new rating scale
    NewChoices,   \* the options a new choice question is padded to: 4
    NewScaleChoices \* and a new choice scale: 3

MinPoints == 2

Methods == {"CORRECT_ANSWER", "ALIGNMENT"}

questionTypesFor(method) ==
    IF method = "CORRECT_ANSWER" THEN {"SINGLE_CHOICE", "TRUE_FALSE"}
    ELSE {"RATING_SCALE", "CHOICE_SCALE"}

isScale(type) == type \in questionTypesFor("ALIGNMENT")

Climbing(values) ==
    \A i \in DOMAIN values :
        values[i] # None /\ (i > 1 => values[i - 1] # None /\ values[i] > values[i - 1])

-----------------------------------------------------------------------------
(* question-rules.ts: a question is [type, options, employerValue], an       *)
(* option [text, value, correct].                                            *)

TrueFalse == <<[text |-> "True", value |-> None, correct |-> FALSE],
               [text |-> "False", value |-> None, correct |-> FALSE]>>

normalizeQuestion(q) ==
    LET scale  == isScale(q.type)
        source == IF q.type = "TRUE_FALSE" /\ q.options = <<>> THEN TrueFalse ELSE q.options
    IN  [type |-> q.type,
         options |-> [i \in DOMAIN source |->
             [text |-> source[i].text,
              value |-> IF ~scale THEN None
                        ELSE IF source[i].value = None THEN i ELSE source[i].value,
              correct |-> ~scale /\ source[i].correct]],
         employerValue |-> IF scale THEN q.employerValue ELSE None]

AnyBlank(q) == \E i \in DOMAIN q.options : q.options[i].text = ""
Corrects(q) == {i \in DOMAIN q.options : q.options[i].correct}
Values(q)   == [i \in DOMAIN q.options |-> q.options[i].value]

\* The problems of a normalized question, by the part they are about.
questionProblems(q, method) ==
    LET n == Len(q.options)
        most == IF q.type = "RATING_SCALE" THEN MaxPoints ELSE MaxChoices
    IN  {p \in {"type", "count", "text", "correct", "values", "employer"} :
            \/ p = "type" /\ q.type \notin questionTypesFor(method)
            \/ p = "count" /\ (IF q.type = "TRUE_FALSE" THEN n # 2 ELSE n \notin MinPoints..most)
            \/ p = "text" /\ q.type \in {"SINGLE_CHOICE", "CHOICE_SCALE"} /\ AnyBlank(q)
            \/ p = "correct" /\ ~isScale(q.type) /\ Cardinality(Corrects(q)) # 1
            \/ p = "values" /\ isScale(q.type) /\ ~Climbing(Values(q))
            \/ p = "employer" /\ isScale(q.type)
                 /\ q.employerValue \notin ToSet(Values(q)) \ {None}}

Accepted(q, method) == questionProblems(q, method) = {}

-----------------------------------------------------------------------------
(* question-draft.ts: a draft is [type, options, employerKey], its options   *)
(* have a key as well.                                                       *)

Keys(options) == {options[i].key : i \in DOMAIN options}

\* lastKey counts up: keys outside `used`, the options' and the role's pick.
FreshKeys(used, n) == SubSeq(SetToSortSeq((1..(Cardinality(used) + n)) \ used, <), 1, n)

Blank(key, text) == [key |-> key, text |-> text, value |-> None, correct |-> FALSE]

padTo(options, length, used) ==
    LET fresh == FreshKeys(used, length)
    IN  options \o [i \in 1..(length - Len(options)) |-> Blank(fresh[i], "")]

\* The options after the question's type changes.
optionsFor(type, current, used) ==
    LET some(text) == {i \in DOMAIN current : current[i].text = text}
        written == FoldLeft(LAMBDA kept, o : IF o.text = "" THEN kept ELSE Append(kept, o),
                            <<>>, current)
        first   == SubSeq(written, 1, Min({Len(written), MaxChoices}))
        fresh   == FreshKeys(used, DefaultPoints + 2)
        half(i, text) ==
            IF some(text) = {} THEN Blank(fresh[i], text)
            ELSE [current[Min(some(text))] EXCEPT !.value = None]
    IN  CASE type = "TRUE_FALSE" -> <<half(1, "True"), half(2, "False")>>
          [] type = "SINGLE_CHOICE" ->
                padTo([i \in DOMAIN first |-> [first[i] EXCEPT !.value = None]],
                      NewChoices, used)
          [] type = "CHOICE_SCALE" ->
                padTo([i \in DOMAIN first |->
                          [first[i] EXCEPT !.value = None, !.correct = FALSE]],
                      NewScaleChoices, used)
          [] type = "RATING_SCALE" -> [i \in 1..DefaultPoints |-> Blank(fresh[i], "")]

emptyDraft(method) ==
    LET type == IF method = "ALIGNMENT" THEN "RATING_SCALE" ELSE "SINGLE_CHOICE"
    IN  [type |-> type, options |-> optionsFor(type, <<>>, {}), employerKey |-> None]

\* A saved option's id is its key.
draftFromQuestion(q) ==
    LET picks == {i \in DOMAIN q.options :
                    q.options[i].value # None /\ q.options[i].value = q.employerValue}
    IN  [type |-> q.type,
         options |-> [i \in DOMAIN q.options |->
             [key |-> i, text |-> q.options[i].text,
              value |-> q.options[i].value, correct |-> q.options[i].correct]],
         employerKey |-> IF picks = {} THEN None ELSE Min(picks)]

\* A rating scale with `size` points; the end labels stay at the ends.
resizeScale(options, size, used) ==
    LET n == Len(options)
        fresh == FreshKeys(used, size)
        last == n > 1
    IN  [i \in 1..size |->
            IF i = size /\ last THEN [options[n] EXCEPT !.value = None]
            ELSE IF i < n THEN [options[i] EXCEPT !.value = None]
            ELSE Blank(fresh[i], "")]

\* Mutant: each value that is missing is filled in, the others kept.
scaleValuesEach(options) ==
    [i \in DOMAIN options |-> IF options[i].value = None THEN i ELSE options[i].value]

\* The stored values while they still climb, otherwise 1 to n.
scaleValues(options) ==
    LET stored == [i \in DOMAIN options |-> options[i].value]
    IN  IF Climbing(stored) THEN stored ELSE [i \in DOMAIN options |-> i]

toInput(d) ==
    LET scale  == isScale(d.type)
        values == scaleValues(d.options)
        picks  == {i \in DOMAIN d.options : d.options[i].key = d.employerKey}
    IN  [type |-> d.type,
         options |-> [i \in DOMAIN d.options |->
             [text |-> d.options[i].text, value |-> IF scale THEN values[i] ELSE None,
              correct |-> ~scale /\ d.options[i].correct]],
         employerValue |-> IF scale /\ picks # {} THEN values[Min(picks)] ELSE None]

draftProblems(d, method) ==
    {p \in {"type", "options", "employer"} :
        \/ p = "type" /\ d.type \notin questionTypesFor(method)
        \/ p = "options" /\ d.type \in {"SINGLE_CHOICE", "CHOICE_SCALE"}
             /\ (Len(d.options) < 2 \/ AnyBlank(d))
        \/ p = "options" /\ ~isScale(d.type) /\ Cardinality(Corrects(d)) # 1
        \/ p = "employer" /\ isScale(d.type) /\ d.employerKey \notin Keys(d.options)}

-----------------------------------------------------------------------------
(* csv-questions.ts: the columns of a row that say more than they copy.      *)

textAt(texts, i) == IF i \in DOMAIN texts THEN texts[i] ELSE ""

questionRow(q) ==
    LET n == Len(q.options)
        texts == [i \in DOMAIN q.options |-> q.options[i].text]
        rating == q.type = "RATING_SCALE"
    IN  [type |-> q.type,
         scale_size |-> IF rating THEN n ELSE None,
         scale_min_label |-> IF rating THEN textAt(texts, 1) ELSE "",
         scale_max_label |-> IF rating THEN textAt(texts, n) ELSE "",
         option |-> [i \in 1..MaxChoices |-> IF rating THEN "" ELSE textAt(texts, i)],
         correct |-> IF isScale(q.type) \/ Corrects(q) = {} THEN None ELSE Min(Corrects(q)),
         employer_value |-> q.employerValue]

ratingScaleOptions(row) ==
    [i \in 1..row.scale_size |->
        [text |-> IF i = 1 THEN row.scale_min_label
                  ELSE IF i = row.scale_size THEN row.scale_max_label ELSE "",
         value |-> i, correct |-> FALSE]]

\* The option columns up to the last one filled in; `correct` is a letter.
optionCells(row) ==
    LET filled == {i \in DOMAIN row.option : row.option[i] # ""}
        texts  == IF filled = {} THEN <<>> ELSE SubSeq(row.option, 1, Max(filled))
        shown  == IF row.type = "TRUE_FALSE" /\ texts = <<>> THEN <<"True", "False">> ELSE texts
    IN  [i \in DOMAIN shown |->
            [text |-> shown[i], value |-> None, correct |-> i = row.correct]]

\* The row's question; the row is refused, with its errors, if there is a gap
\* between its options or the question is not accepted.
parseRow(row) ==
    normalizeQuestion(
        [type |-> row.type,
         options |-> IF row.type = "RATING_SCALE" THEN ratingScaleOptions(row)
                     ELSE optionCells(row),
         employerValue |-> row.employer_value])

rowAccepted(row, method) ==
    /\ row.type = "RATING_SCALE" => row.scale_size \in MinPoints..MaxPoints
    /\ row.type # "RATING_SCALE" =>
         \A i \in DOMAIN row.option :
             row.option[i] = "" => \A k \in i..MaxChoices : row.option[k] = ""
    /\ Accepted(parseRow(row), method)

=============================================================================
