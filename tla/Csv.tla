-------------------------------- MODULE Csv ---------------------------------
(***************************************************************************)
(* Question spreadsheets as text: the reader and the writer of common/     *)
(* csv.ts, and how parseQuestionCsv() (csv-questions.ts) finds the cells   *)
(* of a row by the names of the columns.  What a row then means is in      *)
(* Questions.                                                              *)
(*                                                                         *)
(* A text is a sequence of pieces: characters that matter to the format,   *)
(* or a run of characters that don't, such as a column's name as the       *)
(* header spells it (in any case, with spaces or hyphens for underscores). *)
(***************************************************************************)
EXTENDS Integers, Sequences, SequencesExt

CONSTANTS
    Columns,    \* QUESTION_CSV_COLUMNS
    Stem        \* the one every file needs

Quote == "\""
Mark  == "BOM"
Whitespace == {" ", "\t", "\n", "\r", Mark}
LineEnds == {"\n", "\r"}
Separators == <<",", ";", "\t">>

trim(text) ==
    LET solid == {i \in DOMAIN text : text[i] \notin Whitespace}
    IN  IF solid = {} THEN <<>> ELSE SubSeq(text, Min(solid), Max(solid))

Has(text, pieces) == ToSet(text) \cap pieces # {}

-----------------------------------------------------------------------------
(* Reading.                                                                  *)

\* The separator used most often in the header row, outside quotes; the first
\* of them if two are.
detectSeparator(text) ==
    LET open(i) == Cardinality({k \in 1..i : text[k] = Quote}) % 2 = 1
        bare    == {i \in DOMAIN text : text[i] # Quote /\ ~open(i)}
        header  == {i \in bare : \A k \in bare : text[k] \in LineEnds => i < k}
        uses    == [s \in DOMAIN Separators |->
                       Cardinality({i \in header : text[i] = Separators[s]})]
    IN  Separators[CHOOSE s \in DOMAIN uses :
                      \A t \in DOMAIN uses : uses[t] < uses[s] \/ (uses[t] = uses[s] /\ s <= t)]

NothingRead == [records |-> <<>>, record |-> <<>>, value |-> <<>>,
                inQuotes |-> FALSE, quotedValue |-> FALSE, skip |-> FALSE]

endValue(s) ==
    [s EXCEPT !.record = Append(@, s.value), !.value = <<>>, !.quotedValue = FALSE]

endRecord(s) ==
    [endValue(s) EXCEPT !.records = Append(@, endValue(s).record), !.record = <<>>]

\* The body of the loop; `next` is the character after this one.
Take1(s, char, next, separator) ==
    CASE s.skip -> [s EXCEPT !.skip = FALSE]
      [] ~s.skip /\ s.inQuotes /\ char # Quote -> [s EXCEPT !.value = Append(@, char)]
      [] ~s.skip /\ s.inQuotes /\ char = Quote ->
           IF next = Quote THEN [s EXCEPT !.value = Append(@, Quote), !.skip = TRUE]
           ELSE [s EXCEPT !.inQuotes = FALSE]
      [] ~s.skip /\ ~s.inQuotes ->
           CASE char = Quote /\ s.value = <<>> /\ ~s.quotedValue ->
                  [s EXCEPT !.inQuotes = TRUE, !.quotedValue = TRUE]
             [] char = separator -> endValue(s)
             [] char \in LineEnds ->
                  [endRecord(s) EXCEPT !.skip = (char = "\r" /\ next = "\n")]
             [] OTHER -> [s EXCEPT !.value = Append(@, char)]

\* Every record of the file, blank ones too, or a quoted value that never closes.
parseCsv(input) ==
    LET text == IF input # <<>> /\ Head(input) = Mark THEN Tail(input) ELSE input
        separator == detectSeparator(text)
        after(i) == IF i < Len(text) THEN text[i + 1] ELSE ""
        end == FoldLeft(LAMBDA s, i : Take1(s, text[i], after(i), separator),
                        NothingRead, [i \in DOMAIN text |-> i])
    IN  IF end.inQuotes THEN [closed |-> FALSE, records |-> <<>>]
        ELSE [closed |-> TRUE,
              records |-> IF end.value # <<>> \/ end.record # <<>> \/ end.quotedValue
                          THEN endRecord(end).records ELSE end.records]

BlankRecord(record) == \A i \in DOMAIN record : trim(record[i]) = <<>>

\* parseQuestionCsv(): what is wrong with the file as a whole, or the cells of
\* each row that isn't blank, by column, with its number in the spreadsheet.
headerProblems(header) ==
    IF BlankRecord(header) THEN {"empty"}
    ELSE {p \in {"twice", "stem"} :
            \/ p = "twice" /\ \E i, k \in DOMAIN header :
                  i < k /\ trim(header[i]) = trim(header[k]) /\ trim(header[i]) \in Columns
            \/ p = "stem" /\ \A i \in DOMAIN header : trim(header[i]) # Stem}

cell(header, record, column) ==
    LET at == {i \in DOMAIN header : trim(header[i]) = column}
    IN  IF at = {} \/ at \cap DOMAIN record = {} THEN <<>> ELSE trim(record[Min(at)])

parseQuestionCsv(text) ==
    LET read == parseCsv(text)
        header == IF read.records = <<>> THEN <<>> ELSE Head(read.records)
        problems == IF read.closed THEN headerProblems(header) ELSE {"unclosed"}
        filled == {row \in 2..Len(read.records) : ~BlankRecord(read.records[row])}
    IN  IF problems # {} THEN [problems |-> problems, rows |-> <<>>]
        ELSE [problems |-> {},
              rows |-> [i \in 1..Cardinality(filled) |->
                  LET row == SetToSortSeq(filled, <)[i]
                  IN  [row |-> row,
                       cells |-> [c \in Columns |-> cell(header, read.records[row], c)]]]]

-----------------------------------------------------------------------------
(* Writing.                                                                  *)

Quoted(value) ==
    <<Quote>> \o FlattenSeq([i \in DOMAIN value |->
                    IF value[i] = Quote THEN <<Quote, Quote>> ELSE <<value[i]>>]) \o <<Quote>>

Joined(parts, between) ==
    FlattenSeq([i \in DOMAIN parts |-> IF i = 1 THEN parts[i] ELSE between \o parts[i]])

\* Mutant: line breaks and blanks around a value are left bare.
quoteOnlyCommas(value) == IF Has(value, {Quote, ","}) THEN Quoted(value) ELSE value

quote(value) ==
    IF Has(value, {Quote, ",", "\r", "\n"}) \/ value # trim(value) THEN Quoted(value) ELSE value

toCsv(rows) ==
    FlattenSeq([r \in DOMAIN rows |->
        Joined([i \in DOMAIN rows[r] |-> quote(rows[r][i])], <<",">>) \o <<"\r", "\n">>])

\* What a spreadsheet application writes: it quotes what it must.
SavedAs(rows, separator, end, mark) ==
    (IF mark THEN <<Mark>> ELSE <<>>) \o
    Joined([r \in DOMAIN rows |->
               Joined([i \in DOMAIN rows[r] |->
                          IF Has(rows[r][i], {Quote, separator} \cup LineEnds)
                          THEN Quoted(rows[r][i]) ELSE rows[r][i]], <<separator>>)],
           end)

=============================================================================
