----------------------------- MODULE Documents ------------------------------
(***************************************************************************)
(* A whole test as a JSON document (canonical.mapper.ts, document-rules.ts *)
(* and assessment-import.service.ts) and as the rows of a question CSV     *)
(* (questions.service.ts): which section a question ends up in, and which  *)
(* uploaded file it plays.                                                 *)
(*                                                                         *)
(* A text is lower-cased and a sequence of words and marks; two words next *)
(* to each other are joined by a hyphen, as slugify() joins them.  A test  *)
(* has the names of its sections in order, and questions that say the      *)
(* place of their section (0 for none) and their audio: the id of an       *)
(* uploaded file, or the name of one still to be uploaded.  The library    *)
(* holds the names of the uploaded files, oldest first; a file's id is its *)
(* place in it.  Settings, weights, bands and what Questions models are    *)
(* copied as they are and left out.                                        *)
(***************************************************************************)
EXTENDS Questions

CONSTANTS
    Marks,          \* the pieces of a text slugify() drops
    MaxSections,    \* MAX_SECTIONS
    MaxQuestions    \* MAX_QUESTIONS

Silent == [id |-> None, file |-> None]

Number == <<"1", "2", "3", "4", "5">>

slugify(text, fallback) ==
    LET words == SelectSeq(text, LAMBDA piece : piece \notin Marks)
    IN  IF words = <<>> THEN <<fallback>> ELSE words

\* The section a text names, when each is called by the texts of a set: the
\* last one to have claimed it.
idOf(called, text) ==
    LET claims == {i \in DOMAIN called : text \in called[i]}
    IN  IF claims = {} THEN 0 ELSE Max(claims)

-----------------------------------------------------------------------------
(* Documents.                                                                *)

\* A key made of each name, numbered until no earlier section has it.
sectionKeys(names) ==
    LET key(used, base) ==
            IF base \notin ToSet(used) THEN base
            ELSE LET free == {n \in 2..Len(Number) : base \o <<Number[n]>> \notin ToSet(used)}
                 IN  base \o <<Number[Min(free)]>>
    IN  FoldLeft(LAMBDA used, name : Append(used, key(used, slugify(name, "section"))),
                 <<>>, names)

MediaOf(library, q) ==
    IF q.media.id # None THEN [file |-> library[q.media.id], asset |-> q.media.id]
    ELSE [file |-> q.media.file, asset |-> None]

toCanonicalAssessment(test, library) ==
    LET keys == sectionKeys(test.sections)
    IN  [sections |-> [i \in DOMAIN keys |-> [key |-> keys[i], name |-> test.sections[i]]],
         questions |-> [i \in DOMAIN test.questions |->
             LET q == test.questions[i]
             IN  [section |-> IF q.section = 0 THEN None ELSE keys[q.section],
                  media   |-> MediaOf(library, q)]]]

Called(document) ==
    [i \in DOMAIN document.sections |-> {document.sections[i].key, document.sections[i].name}]

\* Mutant: only the keys of two sections are compared.
documentProblemsOfKeys(document) ==
    LET called == Called(document)
        s == document.sections
    IN  {p \in {"sections", "unknown"} :
            \/ p = "sections" /\ \E i, k \in DOMAIN s : i < k /\ s[i].key = s[k].key
            \/ p = "unknown" /\ \E q \in ToSet(document.questions) :
                  q.section # None /\ idOf(called, q.section) = 0}

documentProblems(document) ==
    LET called == Called(document)
    IN  {p \in {"sections", "unknown"} :
            \/ p = "sections" /\ \E i, k \in DOMAIN called : i < k /\ called[i] \cap called[k] # {}
            \/ p = "unknown" /\ \E q \in ToSet(document.questions) :
                  q.section # None /\ idOf(called, q.section) = 0}

\* Mutant: the newest file of the name, whatever the test already uses.
mediaLookupNewest(library, preferred, media) ==
    LET named == {i \in DOMAIN library : library[i] = media.file}
    IN  IF media.asset \in DOMAIN library THEN [id |-> media.asset, file |-> None]
        ELSE IF named = {} THEN [id |-> None, file |-> media.file]
        ELSE [id |-> Max(named), file |-> None]

\* The uploaded file a question's media means: by id, otherwise by name, the
\* newest the test already uses or else the newest.
mediaLookup(library, preferred, media) ==
    LET named == {i \in DOMAIN library : library[i] = media.file}
        match == IF named \cap preferred # {} THEN named \cap preferred ELSE named
    IN  IF media.asset \in DOMAIN library THEN [id |-> media.asset, file |-> None]
        ELSE IF match = {} THEN [id |-> None, file |-> media.file]
        ELSE [id |-> Max(match), file |-> None]

writeContent(document, library, preferred) ==
    [sections |-> [i \in DOMAIN document.sections |-> document.sections[i].name],
     questions |-> [i \in DOMAIN document.questions |->
         LET q == document.questions[i]
         IN  [section |-> IF q.section = None THEN 0 ELSE idOf(Called(document), q.section),
              media   |-> mediaLookup(library, preferred, q.media)]]]

Playing(test) == {q.media.id : q \in ToSet(test.questions)} \ {None}

-----------------------------------------------------------------------------
(* Spreadsheets.                                                             *)

exportCsv(test, library) ==
    [i \in DOMAIN test.questions |->
        LET q == test.questions[i]
        IN  [section |-> IF q.section = 0 THEN None ELSE test.sections[q.section],
             media   |-> [MediaOf(library, q) EXCEPT !.asset = None]]]

\* A section by its name, otherwise by the slug of it.
sectionFor(names, text) ==
    LET called == [i \in DOMAIN names |-> {names[i], slugify(names[i], "item")}]
    IN  IF idOf(called, text) # 0 THEN idOf(called, text)
        ELSE idOf(called, slugify(text, "item"))

newSections(names, rows) ==
    FoldLeft(LAMBDA new, row :
                IF row.section = None \/ sectionFor(names, row.section) # 0
                   \/ row.section \in ToSet(new)
                THEN new ELSE Append(new, row.section),
             <<>>, rows)

\* The test after a CSV import.  A created section is known by its name only.
importRows(test, library, rows, mode) ==
    LET new == newSections(test.sections, rows)
        section(text) ==
            IF text = None THEN 0
            ELSE IF text \in ToSet(new)
                 THEN Len(test.sections) + (CHOOSE i \in DOMAIN new : new[i] = text)
            ELSE sectionFor(test.sections, text)
        made == [i \in DOMAIN rows |->
                    [section |-> section(rows[i].section),
                     media |-> mediaLookup(library, Playing(test), rows[i].media)]]
    IN  [sections |-> test.sections \o new,
         questions |-> (IF mode = "replace" THEN <<>> ELSE test.questions) \o made]

Fits(test) == Len(test.sections) <= MaxSections /\ Len(test.questions) <= MaxQuestions

=============================================================================
