---------------------------- MODULE EditorProofs ----------------------------
(***************************************************************************)
(* EInv is an invariant of Editor, for any number of calls, questions,     *)
(* sections, bands and files, and what follows from it.                    *)
(***************************************************************************)
EXTENDS EditorInv, FunctionTheorems, FiniteSetTheorems, WellFoundedInduction, TLAPS

Typing == TypeOK /\ CallsOK

-----------------------------------------------------------------------------
(* Numbers and sets.                                                        *)

LEMMA LargestOfSet ==
    ASSUME NEW S \in SUBSET Nat, IsFiniteSet(S), S # {}
    PROVE  Max(S) \in S /\ \A x \in S : x <= Max(S)
<1> DEFINE Lacks(U) == \A x \in U : \E y \in U : ~(x >= y)
           Bad == {U \in FiniteSubsetsOf(S) : U # {} /\ Lacks(U)}
<1>1. ASSUME Bad # {} PROVE FALSE
  <2>1. PICK U \in Bad : \A V \in Bad : <<V, U>> \notin StrictSubsetOrdering(S)
    <3>1. Bad \subseteq FiniteSubsetsOf(S)
      OBVIOUS
    <3> HIDE DEF Bad
    <3> QED BY <1>1, <3>1, FS_StrictSubsetOrderingWellFounded, WFMin
  <2>2. U \in FiniteSubsetsOf(S) /\ U # {} /\ Lacks(U)
    OBVIOUS
  <2>3. PICK x \in U : TRUE
    BY <2>2
  <2> DEFINE V == U \ {x}
  <2>4. PICK y \in U : ~(x >= y)
    BY <2>2
  <2>5. U \subseteq Nat /\ IsFiniteSet(U)
    BY <2>2 DEF FiniteSubsetsOf
  <2>6. V # {} /\ V \in FiniteSubsetsOf(S) /\ V \subseteq U /\ V # U
    BY <2>2, <2>3, <2>4, <2>5, FS_Subset DEF FiniteSubsetsOf
  <2>7. Lacks(V)
    <3> TAKE u \in V
    <3>1. PICK w \in U : ~(u >= w)
      BY <2>2
    <3>2. CASE w # x
      BY <3>1, <3>2
    <3>3. CASE w = x
      BY <3>1, <3>3, <2>3, <2>4, <2>5
    <3> QED BY <3>2, <3>3
  <2>8. V \in Bad
    BY <2>6, <2>7
  <2>9. <<V, U>> \in StrictSubsetOrdering(S)
    BY <2>2, <2>6 DEF StrictSubsetOrdering, FiniteSubsetsOf
  <2> QED BY <2>1, <2>8, <2>9
<1>2. S \in FiniteSubsetsOf(S)
  BY DEF FiniteSubsetsOf
<1>3. ~Lacks(S)
  BY <1>1, <1>2
<1>4. \E x \in S : \A y \in S : x >= y
  BY <1>3
<1> QED BY <1>4 DEF Max

LEMMA TimesGrows ==
    ASSUME NEW a \in Nat, NEW b \in Nat, NEW r \in Nat, a <= b
    PROVE  a * r \in Nat /\ b * r \in Nat /\ a * r <= b * r
<1>1. b - a \in Nat /\ (b - a) * r \in Nat
  OBVIOUS
<1>2. b * r = a * r + (b - a) * r
  OBVIOUS
<1> QED BY <1>1, <1>2

LEMMA OneMoreTime ==
    ASSUME NEW a \in Nat, NEW r \in Nat
    PROVE  (a + 1) * r = a * r + r
OBVIOUS

LEMMA RowsAreFinite ==
    /\ IsFiniteSet(Qids) /\ IsFiniteSet(Sids)
    /\ \A c \in Calls :
          /\ IsFiniteSet({c} \X (1..MaxRows)) /\ Cardinality({c} \X (1..MaxRows)) = MaxRows
          /\ IsFiniteSet({c} \X Names) /\ Cardinality({c} \X Names) = Cardinality(Names)
    /\ Cardinality(Names) \in Nat
    /\ Cardinality(Calls) - 1 \in Nat
<1>1. IsFiniteSet(1..MaxRows) /\ Cardinality(1..MaxRows) = MaxRows /\ MaxRows \in Nat
  BY FS_Interval, BoundsAssumption
<1>2. IsFiniteSet(Qids) /\ IsFiniteSet(Sids)
  BY <1>1, FS_Product, FS_Union, NamesAssumption DEF Qids, Sids
<1>3. ASSUME NEW c \in Calls
      PROVE  /\ IsFiniteSet({c} \X (1..MaxRows)) /\ Cardinality({c} \X (1..MaxRows)) = MaxRows
             /\ IsFiniteSet({c} \X Names) /\ Cardinality({c} \X Names) = Cardinality(Names)
  <2>1. IsFiniteSet({c}) /\ Cardinality({c}) = 1
    BY FS_Singleton
  <2>2. Cardinality({c} \X (1..MaxRows)) = 1 * MaxRows /\ IsFiniteSet({c} \X (1..MaxRows))
    BY <1>1, <2>1, FS_Product
  <2>3. Cardinality({c} \X Names) = 1 * Cardinality(Names) /\ IsFiniteSet({c} \X Names)
    BY <2>1, FS_Product, NamesAssumption
  <2>4. Cardinality(Names) \in Nat
    BY FS_CardinalityType, NamesAssumption
  <2> QED BY <1>1, <2>2, <2>3, <2>4
<1>4. Cardinality(Names) \in Nat
  BY FS_CardinalityType, NamesAssumption
<1>5. Cardinality(Calls) \in Nat /\ Cardinality(Calls) # 0
  BY FS_CardinalityType, FS_EmptySet, NamesAssumption
<1> QED BY <1>2, <1>3, <1>4, <1>5

LEMMA AddedRows ==
    ASSUME NEW S, IsFiniteSet(S), NEW N, IsFiniteSet(N), NEW T, T \subseteq S \cup N
    PROVE  /\ IsFiniteSet(T)
           /\ Cardinality(T) \in Nat /\ Cardinality(S) \in Nat /\ Cardinality(N) \in Nat
           /\ Cardinality(T) <= Cardinality(S) + Cardinality(N)
<1>1. /\ IsFiniteSet(S \cup N)
      /\ Cardinality(S \cup N) = Cardinality(S) + Cardinality(N) - Cardinality(S \cap N)
  BY FS_Union
<1>2. IsFiniteSet(T) /\ Cardinality(T) <= Cardinality(S \cup N)
  BY <1>1, FS_Subset
<1>3. IsFiniteSet(S \cap N)
  BY FS_Intersection
<1> QED BY <1>1, <1>2, <1>3, FS_CardinalityType

LEMMA InsertedRows ==
    ASSUME NEW rows, NEW table
    PROVE  /\ DOMAIN Insert(rows, table) = DOMAIN rows \cup DOMAIN table
           /\ \A r \in DOMAIN rows : Insert(rows, table)[r] = rows[r]
           /\ \A r \in DOMAIN table \ DOMAIN rows : Insert(rows, table)[r] = table[r]
BY DEF Insert

-----------------------------------------------------------------------------
(* Calls by their kind.                                                     *)

LEMMA CallFields ==
    ASSUME NEW pcs, NEW op, NEW args, NEW k \in Call(pcs, op, args)
    PROVE  /\ k.pc \in pcs /\ k.op = op /\ k.arg \in args /\ k.alone \in BOOLEAN
           /\ k.want \subseteq Rows /\ k.held \subseteq Rows
BY DEF Call

LEMMA NewFields ==
    ASSUME NEW pcs, NEW op, NEW args, NEW k \in Call(pcs, op, args)
    PROVE  /\ \A u : u \in pcs => [k EXCEPT !.pc = u] \in Call(pcs, op, args)
           /\ \A u : u \in args => [k EXCEPT !.arg = u] \in Call(pcs, op, args)
           /\ \A u : u \in BOOLEAN => [k EXCEPT !.alone = u] \in Call(pcs, op, args)
           /\ \A u : u \subseteq Rows => [k EXCEPT !.want = u] \in Call(pcs, op, args)
           /\ \A u : u \subseteq Rows => [k EXCEPT !.held = u] \in Call(pcs, op, args)
BY DEF Call

LEMMA KindOf ==
    ASSUME NEW k, CallOK(k), k \notin {Waiting, Done}
    PROVE  /\ k.op = "createSection" =>
                k \in Call({"checked"}, "createSection", [names : {{n} : n \in Names}])
           /\ k.op = "updateSection" =>
                k \in Call({"checked"}, "updateSection", [section : Sids, name : Names])
           /\ k.op = "removeSection" => k \in Call({"checked"}, "removeSection", [section : Sids])
           /\ k.op = "createQuestion" =>
                k \in Call({"checked"}, "createQuestion", [at : Nat, fits : Methods])
           /\ k.op = "updateQuestion" =>
                k \in Call({"checked", "held", "deleted"}, "updateQuestion", UpdateArgs)
           /\ k.op = "duplicateQuestion" =>
                k \in Call({"checked", "issued", "held"}, "duplicateQuestion",
                           [at : Nat, fits : Methods])
           /\ k.op = "removeQuestion" => k \in Call({"checked"}, "removeQuestion", [q : Qids])
           /\ k.op = "reorderQuestions" => Reorders(k)
           /\ k.op = "import" => k \in Write("import", 1..MaxRows, SUBSET Names)
           /\ k.op = "document" =>
                k \in Write("document", 1..MaxRows,
                            {names \in SUBSET Names : Cardinality(names) <= MaxSections})
           /\ k.op = "bands" => k \in Write("bands", {0}, {{}})
           /\ k.op = "upload" => k \in Call({"checked"}, "upload", {<<>>})
           /\ k.op = "removeMedia" =>
                k \in Call({"checked", "recordGone"}, "removeMedia",
                           [file : Uploaded \cup Calls])
           /\ k.op = "update" => k \in Call({"checked"}, "update", [method : Methods])
<1>1. \A pcs, op, args : k \in Call(pcs, op, args) => k.op = op
  BY CallFields
<1>2. \A op, rows, names : k \in Write(op, rows, names) => k.op = op
  BY <1>1 DEF Write
<1> HIDE DEF Call, Write
<1> QED BY <1>1, <1>2 DEF CallOK, SectionCalls, QuestionCalls, ImportCalls, OtherCalls, Reorders

LEMMA CallTyped ==
    ASSUME NEW k, CallOK(k), k \notin {Waiting, Done}
    PROVE  /\ k.alone \in BOOLEAN /\ k.want \subseteq Rows /\ k.held \subseteq Rows
           /\ k.pc \in {"checked", "issued", "held", "deleted", "recordGone"}
           /\ k = [pc |-> k.pc, op |-> k.op, arg |-> k.arg, alone |-> k.alone,
                   want |-> k.want, held |-> k.held]
           /\ CallOK([k EXCEPT !.alone = FALSE])
<1> DEFINE PCs == {"checked", "issued", "held", "deleted", "recordGone"}
           Fine(pcs, op, args) == pcs \subseteq PCs /\ k \in Call(pcs, op, args)
           All == /\ k.alone \in BOOLEAN /\ k.want \subseteq Rows /\ k.held \subseteq Rows
                  /\ k.pc \in PCs
                  /\ k = [pc |-> k.pc, op |-> k.op, arg |-> k.arg, alone |-> k.alone,
                          want |-> k.want, held |-> k.held]
           fewer == [k EXCEPT !.alone = FALSE]
<1>1. \A pcs, op, args : Fine(pcs, op, args) => All
  BY DEF Call
<1>2. \A pcs, op, args : Fine(pcs, op, args) => fewer \in Call(pcs, op, args)
  BY NewFields
<1>3. CASE k \in SectionCalls \/ k \in QuestionCalls \/ k \in OtherCalls
  <2> HIDE DEF All, fewer
  <2>1. PICK pcs, op, args :
            /\ Fine(pcs, op, args)
            /\ \/ Call(pcs, op, args) \subseteq SectionCalls
               \/ Call(pcs, op, args) \subseteq QuestionCalls
               \/ Call(pcs, op, args) \subseteq OtherCalls
    <3>1. CASE k \in SectionCalls
      BY <3>1 DEF SectionCalls
    <3>2. CASE k \in QuestionCalls
      BY <3>2 DEF QuestionCalls
    <3>3. CASE k \in OtherCalls
      BY <3>3 DEF OtherCalls
    <3> QED BY <1>3, <3>1, <3>2, <3>3
  <2>2. fewer \in Call(pcs, op, args) /\ All
    BY <2>1, <1>1, <1>2
  <2> QED BY <2>1, <2>2 DEF CallOK, All, fewer
<1>4. CASE k \in ImportCalls
  <2> HIDE DEF All, fewer
  <2>1. PICK pcs, op, args :
            Fine(pcs, op, args) /\ Call(pcs, op, args) \subseteq ImportCalls
    BY <1>4 DEF ImportCalls, Write
  <2>2. fewer \in Call(pcs, op, args) /\ All
    BY <2>1, <1>1, <1>2
  <2> QED BY <2>1, <2>2 DEF CallOK, All, fewer
<1>5. CASE Reorders(k)
  <2>1. Fine({"checked"}, "reorderQuestions", {[place |-> k.arg.place]})
    BY <1>5 DEF Reorders
  <2>2. fewer \in Call({"checked"}, "reorderQuestions", {[place |-> k.arg.place]}) /\ All
    BY <1>1, <1>2, <2>1
  <2>3. fewer.op = "reorderQuestions" /\ fewer.arg = k.arg
    BY <2>1, <2>2 DEF Call
  <2>4. Reorders(fewer)
    BY <2>2, <2>3, <1>5 DEF Reorders
  <2> QED BY <2>2, <2>4 DEF CallOK
<1> QED BY <1>3, <1>4, <1>5 DEF CallOK

LEMMA InFlightTyped ==
    ASSUME CallsOK, NEW c \in Calls, InFlight(c)
    PROVE  CallOK(calls[c]) /\ calls[c] \notin {Waiting, Done}
BY DEF CallsOK, InFlight, Waiting, Done

-----------------------------------------------------------------------------
(* Calls and tests stay well formed.                                        *)

TestOK ==
    /\ method \in Methods
    /\ DOMAIN questions \subseteq Qids
    /\ \A q \in DOMAIN questions : questions[q] \in Question
    /\ DOMAIN sections \subseteq Sids
    /\ \A s \in DOMAIN sections : sections[s] \in Names
    /\ DOMAIN bands \subseteq Bids
    /\ \A b \in DOMAIN bands : bands[b] \in Minimums
    /\ media \in [{"files", "records"} -> SUBSET (Uploaded \cup Calls)]

LEMMA TypingParts ==
    /\ Typing => TestOK
    /\ TestOK /\ CallsOK => Typing
<1>1. Typing => TestOK
  BY DEF Typing, TypeOK, TestOK
<1>2. ASSUME TestOK, CallsOK PROVE Typing
  <2>1. \A c \in Calls : InFlight(c) => calls[c].held \subseteq Qids \cup Sids \cup Bids
    BY <1>2, InFlightTyped, CallTyped DEF Rows
  <2> QED BY <1>2, <2>1 DEF Typing, TypeOK, TestOK
<1> QED BY <1>1, <1>2

LEMMA TypingNext ==
    TestOK' /\ CallsOK' => Typing'
BY TypingParts, PTL

LEMMA OneCallChanges ==
    ASSUME CallsOK, NEW c \in Calls, NEW k, CallOK(k), calls' = [calls EXCEPT ![c] = k]
    PROVE  /\ CallsOK'
           /\ calls'[c] = k
           /\ \A d \in Calls \ {c} : calls'[d] = calls[d]
BY DEF CallsOK

LEMMA CommitChanges ==
    ASSUME CallsOK, NEW c \in Calls, Commit(c)
    PROVE  /\ CallsOK'
           /\ calls'[c] = Done
           /\ \A d \in Calls \ {c} :
                 /\ InFlight(d) => calls'[d] = [calls[d] EXCEPT !.alone = FALSE]
                 /\ ~InFlight(d) => calls'[d] = calls[d]
<1>1. calls' = [d \in Calls |->
                  IF d = c THEN Done
                  ELSE IF InFlight(d) THEN [calls[d] EXCEPT !.alone = FALSE] ELSE calls[d]]
  BY DEF Commit
<1>2. \A d \in Calls : InFlight(d) => CallOK([calls[d] EXCEPT !.alone = FALSE])
  BY InFlightTyped, CallTyped
<1>3. \A d \in Calls : CallOK(calls[d])
  BY DEF CallsOK
<1>4. CallOK(Done)
  BY DEF CallOK
<1>5. \A d \in Calls : CallOK(calls'[d])
  BY <1>1, <1>2, <1>3, <1>4
<1>6. calls' = [d \in Calls |-> calls'[d]]
  BY <1>1
<1> QED BY <1>1, <1>5, <1>6 DEF CallsOK

LEMMA FailTyped ==
    ASSUME Typing, NEW c \in Calls, Fail(c)
    PROVE  Typing'
<1>1. calls' = [calls EXCEPT ![c] = Done] /\ CallOK(Done)
  BY DEF Fail, CallOK
<1>2. CallsOK'
  BY <1>1, OneCallChanges DEF Typing
<1>3. TestOK'
  BY TypingParts DEF Fail, test, TestOK
<1> QED BY <1>2, <1>3, TypingNext

LEMMA PlacesKnown ==
    ASSUME TestOK
    PROVE  /\ IsFiniteSet(DOMAIN questions) /\ Count \in Nat
           /\ IsFiniteSet(DOMAIN sections) /\ SectionCount \in Nat
           /\ nextOrder \in Nat
           /\ \A q \in DOMAIN questions : questions[q].order < nextOrder
<1>1. IsFiniteSet(DOMAIN questions) /\ Count \in Nat
  BY RowsAreFinite, FS_Subset, FS_CardinalityType DEF TestOK, Count
<1>2. IsFiniteSet(DOMAIN sections) /\ SectionCount \in Nat
  BY RowsAreFinite, FS_Subset, FS_CardinalityType DEF TestOK, SectionCount
<1> DEFINE Places == {questions[q].order : q \in DOMAIN questions}
           place == [q \in DOMAIN questions |-> questions[q].order]
<1>3. Places \subseteq Nat
  BY DEF TestOK, Question
<1>4. IsFiniteSet(Places)
  <2>1. place \in [DOMAIN questions -> Places] /\ \A p \in Places : \E q \in DOMAIN questions : place[q] = p
    OBVIOUS
  <2>2. place \in Surjection(DOMAIN questions, Places)
    BY <2>1, Fun_IsSurj
  <2> QED BY <1>1, <2>2, FS_Surjection
<1>5. CASE Count = 0
  <2>1. DOMAIN questions = {}
    BY <1>1, <1>5, FS_EmptySet DEF Count
  <2> QED BY <1>1, <1>2, <1>5, <2>1 DEF nextOrder
<1>6. CASE Count # 0
  <2>1. Places # {}
    BY <1>1, <1>6, FS_EmptySet DEF Count
  <2>2. Max(Places) \in Places /\ \A p \in Places : p <= Max(Places)
    BY <1>3, <1>4, <2>1, LargestOfSet
  <2>3. nextOrder = 1 + Max(Places)
    BY <1>6 DEF nextOrder
  <2>4. PICK m : m = Max(Places)
    OBVIOUS
  <2>5. m \in Nat /\ nextOrder = 1 + m /\ \A q \in DOMAIN questions : questions[q].order <= m
    BY <1>3, <2>2, <2>3, <2>4
  <2>6. \A q \in DOMAIN questions : questions[q].order \in Nat
    BY <1>3
  <2>7. nextOrder \in Nat /\ \A q \in DOMAIN questions : questions[q].order < nextOrder
    BY <2>5, <2>6
  <2> QED BY <1>1, <1>2, <2>7
<1> QED BY <1>5, <1>6

LEMMA CheckTyped ==
    ASSUME Typing, NEW c \in Calls, NEW op, NEW arg, Check(c, op, arg), CallOK(Planned(op, arg))
    PROVE  Typing'
<1>1. CallsOK'
  BY OneCallChanges DEF Check, Typing
<1>2. TestOK'
  BY TypingParts DEF Check, test, TestOK
<1> QED BY <1>1, <1>2, TypingNext

LEMMA PlannedIs ==
    ASSUME NEW op, NEW args, NEW arg \in args
    PROVE  Planned(op, arg) \in Call({"checked"}, op, args)
BY DEF Planned, Call

LEMMA SectionChecksTyped ==
    ASSUME Typing, NEW c \in Calls, createSection(c) \/ updateSection(c) \/ removeSection(c)
    PROVE  Typing'
<1>1. TestOK
  BY TypingParts
<1>2. CASE createSection(c)
  <2>1. PICK n \in Names : Check(c, "createSection", [names |-> {n}])
    BY <1>2 DEF createSection
  <2>2. [names |-> {n}] \in [names : {{x} : x \in Names}]
    OBVIOUS
  <2> QED BY <2>1, <2>2, PlannedIs, CheckTyped DEF CallOK, SectionCalls
<1>3. CASE updateSection(c)
  <2>1. PICK s \in DOMAIN sections, n \in Names :
            Check(c, "updateSection", [section |-> s, name |-> n])
    BY <1>3 DEF updateSection
  <2>2. [section |-> s, name |-> n] \in [section : Sids, name : Names]
    BY <1>1 DEF TestOK
  <2> QED BY <2>1, <2>2, PlannedIs, CheckTyped DEF CallOK, SectionCalls
<1>4. CASE removeSection(c)
  <2>1. PICK s \in DOMAIN sections : Check(c, "removeSection", [section |-> s])
    BY <1>4 DEF removeSection
  <2>2. [section |-> s] \in [section : Sids]
    BY <1>1 DEF TestOK
  <2> QED BY <2>1, <2>2, PlannedIs, CheckTyped DEF CallOK, SectionCalls
<1> QED BY <1>2, <1>3, <1>4

LEMMA PlaceIs ==
    ASSUME NEW S, NEW T, NEW place \in Bijection(S, T)
    PROVE  /\ place \in [S -> T] /\ DOMAIN place = S
           /\ \A a, b \in S : place[a] = place[b] => a = b
BY Fun_BijectionProperties, Zenon

LEMMA QuestionChecksTyped ==
    ASSUME Typing, NEW c \in Calls,
           \/ createQuestion(c) \/ updateQuestion(c) \/ duplicateQuestion(c)
           \/ removeQuestion(c) \/ reorderQuestions(c)
    PROVE  Typing'
<1>1. TestOK
  BY TypingParts
<1>2. method \in Methods /\ nextOrder \in Nat /\ Count \in Nat
  BY <1>1, PlacesKnown DEF TestOK
<1>3. \A q \in DOMAIN questions :
          /\ q \in Qids /\ questions[q].order \in Nat /\ questions[q].fits \in Methods
          /\ questions[q].options \subseteq Oids
  BY <1>1 DEF TestOK, Question
<1>4. CASE createQuestion(c)
  <2>1. Check(c, "createQuestion", [at |-> nextOrder, fits |-> method])
    BY <1>4 DEF createQuestion
  <2>2. [at |-> nextOrder, fits |-> method] \in [at : Nat, fits : Methods]
    BY <1>2
  <2> QED BY <2>1, <2>2, PlannedIs, CheckTyped DEF CallOK, QuestionCalls
<1>5. CASE updateQuestion(c)
  <2>0. PICK q \in DOMAIN questions : \E kept \in SUBSET questions[q].options :
        \E added \in SUBSET {c} :
            Check(c, "updateQuestion",
                  [q |-> q, kept |-> kept, added |-> added, fits |-> method,
                   known |-> questions[q].options, left |-> {}])
    BY <1>5 DEF updateQuestion
  <2>1. PICK kept \in SUBSET questions[q].options, added \in SUBSET {c} :
            Check(c, "updateQuestion",
                  [q |-> q, kept |-> kept, added |-> added, fits |-> method,
                   known |-> questions[q].options, left |-> {}])
    BY <2>0
  <2> DEFINE arg == [q |-> q, kept |-> kept, added |-> added, fits |-> method,
                     known |-> questions[q].options, left |-> {}]
  <2>2. arg \in UpdateArgs
    BY <1>2, <1>3 DEF UpdateArgs, Oids
  <2>3. Planned("updateQuestion", arg) \in Call({"checked", "held", "deleted"}, "updateQuestion", UpdateArgs)
    BY <2>2 DEF Planned, Call
  <2>4. CallOK(Planned("updateQuestion", arg))
    BY <2>3 DEF CallOK, QuestionCalls
  <2> HIDE DEF arg
  <2> QED BY <2>1, <2>4, CheckTyped DEF arg
<1>6. CASE duplicateQuestion(c)
  <2>1. PICK q \in DOMAIN questions :
            Check(c, "duplicateQuestion", [at |-> questions[q].order, fits |-> questions[q].fits])
    BY <1>6 DEF duplicateQuestion
  <2> DEFINE arg == [at |-> questions[q].order, fits |-> questions[q].fits]
  <2>2. arg \in [at : Nat, fits : Methods]
    BY <1>3
  <2>3. Planned("duplicateQuestion", arg)
            \in Call({"checked", "issued", "held"}, "duplicateQuestion", [at : Nat, fits : Methods])
    BY <2>2 DEF Planned, Call
  <2>4. CallOK(Planned("duplicateQuestion", arg))
    BY <2>3 DEF CallOK, QuestionCalls
  <2> QED BY <2>1, <2>4, CheckTyped
<1>7. CASE removeQuestion(c)
  <2>1. PICK q \in DOMAIN questions : Check(c, "removeQuestion", [q |-> q])
    BY <1>7 DEF removeQuestion
  <2>2. [q |-> q] \in [q : Qids]
    BY <1>3
  <2> QED BY <2>1, <2>2, PlannedIs, CheckTyped DEF CallOK, QuestionCalls
<1>8. CASE reorderQuestions(c)
  <2>1. PICK place \in Bijection(DOMAIN questions, 0..(Count - 1)) :
            Check(c, "reorderQuestions", [place |-> place])
    BY <1>8 DEF reorderQuestions
  <2>2. place \in [DOMAIN questions -> 0..(Count - 1)] /\ DOMAIN place = DOMAIN questions
    <3>1. PICK T : T = 0..(Count - 1)
      OBVIOUS
    <3>2. place \in Bijection(DOMAIN questions, T)
      BY <3>1, Zenon
    <3>3. place \in [DOMAIN questions -> T] /\ DOMAIN place = DOMAIN questions
      BY <3>2, PlaceIs
    <3> QED BY <3>1, <3>3
  <2>3. place \in [DOMAIN place -> Nat] /\ DOMAIN place \subseteq Qids
    BY <1>2, <1>3, <2>2
  <2>4. Reorders(Planned("reorderQuestions", [place |-> place]))
    BY <2>3 DEF Reorders, Planned, Call
  <2> QED BY <2>1, <2>4, CheckTyped DEF CallOK
<1> QED BY <1>4, <1>5, <1>6, <1>7, <1>8

LEMMA PlannedWrite ==
    ASSUME NEW op \in {"import", "document", "bands"}, NEW rows, NEW names,
           NEW arg \in WriteArgs(rows, names, Plans(op))
    PROVE  Planned(op, arg) \in Write(op, rows, names)
BY PlannedIs DEF Write

LEMMA ImportChecksTyped ==
    ASSUME Typing, NEW c \in Calls, importCsv(c) \/ replaceDocument(c) \/ replaceBands(c)
    PROVE  Typing'
<1>1. method \in Methods /\ nextOrder \in Nat
  BY TypingParts, PlacesKnown DEF TestOK
<1>2. CASE importCsv(c)
  <2>1. PICK rows \in 1..MaxRows, names \in SUBSET Names, replace \in BOOLEAN :
            Check(c, "import",
                 [rows |-> rows, names |-> Missing(names), bands |-> {},
                  fits |-> method, at |-> IF replace THEN 0 ELSE nextOrder,
                  clears |-> IF replace THEN <<"questions">> ELSE <<>>])
    BY <1>2 DEF importCsv
  <2> DEFINE at == IF replace THEN 0 ELSE nextOrder
             clears == IF replace THEN <<"questions">> ELSE <<>>
             arg == [rows |-> rows, names |-> Missing(names), bands |-> {},
                     fits |-> method, at |-> at, clears |-> clears]
  <2>2. at \in Nat /\ clears \in Plans("import") /\ Missing(names) \in SUBSET Names
    BY <1>1 DEF Plans, Missing
  <2>3. arg \in WriteArgs(1..MaxRows, SUBSET Names, Plans("import"))
    BY <1>1, <2>2 DEF WriteArgs
  <2>4. CallOK(Planned("import", arg))
    BY <2>3, PlannedWrite DEF CallOK, ImportCalls
  <2> HIDE DEF arg
  <2> QED BY <2>1, <2>4, CheckTyped DEF arg
<1>3. CASE replaceDocument(c)
  <2>1. PICK m \in Methods, rows \in 1..MaxRows, names \in SUBSET Names, mins \in SUBSET Minimums :
            /\ Cardinality(names) <= MaxSections
            /\ Check(c, "document",
                 [rows |-> rows, names |-> names, bands |-> mins, fits |-> m, at |-> 0,
                  clears |-> <<"questions", "sections", "bands">>])
    BY <1>3 DEF replaceDocument
  <2> DEFINE arg == [rows |-> rows, names |-> names, bands |-> mins, fits |-> m, at |-> 0,
                     clears |-> <<"questions", "sections", "bands">>]
  <2>2. <<"questions", "sections", "bands">> \in Plans("document")
    BY DEF Plans
  <2>3. arg \in WriteArgs(1..MaxRows,
                    {ns \in SUBSET Names : Cardinality(ns) <= MaxSections}, Plans("document"))
    BY <2>1, <2>2 DEF WriteArgs
  <2>4. CallOK(Planned("document", arg))
    BY <2>3, PlannedWrite DEF CallOK, ImportCalls
  <2> HIDE DEF arg
  <2> QED BY <2>1, <2>4, CheckTyped DEF arg
<1>4. CASE replaceBands(c)
  <2>1. PICK mins \in SUBSET Minimums :
            Check(c, "bands", [rows |-> 0, names |-> {}, bands |-> mins, fits |-> method,
                               at |-> 0, clears |-> <<"bands">>])
    BY <1>4 DEF replaceBands
  <2> DEFINE arg == [rows |-> 0, names |-> {}, bands |-> mins, fits |-> method,
                     at |-> 0, clears |-> <<"bands">>]
  <2>2. <<"bands">> \in Plans("bands")
    BY DEF Plans
  <2>3. arg \in WriteArgs({0}, {{}}, Plans("bands"))
    BY <1>1, <2>2 DEF WriteArgs
  <2>4. CallOK(Planned("bands", arg))
    BY <2>3, PlannedWrite DEF CallOK, ImportCalls
  <2> HIDE DEF arg
  <2> QED BY <2>1, <2>4, CheckTyped DEF arg
<1> QED BY <1>2, <1>3, <1>4

LEMMA OtherChecksTyped ==
    ASSUME Typing, NEW c \in Calls, removeMedia(c) \/ update(c)
    PROVE  Typing'
<1>1. TestOK
  BY TypingParts
<1>2. CASE removeMedia(c)
  <2>1. PICK f \in media.records : Check(c, "removeMedia", [file |-> f])
    BY <1>2 DEF removeMedia
  <2> DEFINE arg == [file |-> f]
  <2>2. arg \in [file : Uploaded \cup Calls]
    BY <1>1 DEF TestOK
  <2>3. Planned("removeMedia", arg)
            \in Call({"checked", "recordGone"}, "removeMedia", [file : Uploaded \cup Calls])
    BY <2>2 DEF Planned, Call
  <2>4. CallOK(Planned("removeMedia", arg))
    BY <2>3 DEF CallOK, OtherCalls
  <2> QED BY <2>1, <2>4, CheckTyped
<1>3. CASE update(c)
  <2>1. PICK m \in Methods : Check(c, "update", [method |-> m])
    BY <1>3 DEF update
  <2>2. [method |-> m] \in [method : Methods]
    OBVIOUS
  <2> QED BY <2>1, <2>2, PlannedIs, CheckTyped DEF CallOK, OtherCalls
<1> QED BY <1>2, <1>3

LEMMA PlansShrink ==
    ASSUME NEW op \in {"import", "document", "bands"}, NEW clears \in Plans(op), clears # <<>>
    PROVE  /\ Tail(clears) \in Plans(op)
           /\ Head(clears) \in {"questions", "sections", "bands"}
<1>1. /\ Tail(<<"questions", "sections", "bands">>) = <<"sections", "bands">>
      /\ Tail(<<"sections", "bands">>) = <<"bands">>
      /\ Tail(<<"bands">>) = <<>>
      /\ Tail(<<"questions">>) = <<>>
  OBVIOUS
<1>2. /\ Head(<<"questions", "sections", "bands">>) = "questions"
      /\ Head(<<"sections", "bands">>) = "sections"
      /\ Head(<<"bands">>) = "bands"
      /\ Head(<<"questions">>) = "questions"
  OBVIOUS
<1>3. /\ Plans("import") = {<<"questions">>, <<>>}
      /\ Plans("document") = {<<"questions", "sections", "bands">>,
                               <<"sections", "bands">>, <<"bands">>, <<>>}
      /\ Plans("bands") = {<<"bands">>, <<>>}
  BY DEF Plans
<1>4. CASE op = "import"
  BY <1>1, <1>2, <1>3, <1>4
<1>5. CASE op = "document"
  <2>1. clears \in {<<"questions", "sections", "bands">>, <<"sections", "bands">>, <<"bands">>}
    BY <1>3, <1>5, Zenon
  <2> QED BY <1>1, <1>2, <1>3, <1>5, <2>1, Zenon
<1>6. CASE op = "bands"
  BY <1>1, <1>2, <1>3, <1>6
<1> QED BY <1>4, <1>5, <1>6

LEMMA WriteFields ==
    ASSUME NEW op \in {"import", "document", "bands"}, NEW rows, NEW names,
           NEW k \in Write(op, rows, names)
    PROVE  /\ k.pc \in {"checked", "issued"} /\ k.op = op
           /\ k.arg \in WriteArgs(rows, names, Plans(op))
           /\ k.pc = "issued" => k.arg.clears # <<>>
<1> DEFINE plans == Plans(op) \ {<<>>}
<1>1. CASE k \in Call({"checked"}, op, WriteArgs(rows, names, Plans(op)))
  BY <1>1, CallFields
<1>2. CASE k \in Call({"issued"}, op, WriteArgs(rows, names, plans))
  <2>1. k.pc = "issued" /\ k.op = op /\ k.arg \in WriteArgs(rows, names, plans)
    BY <1>2, CallFields
  <2> QED BY <2>1 DEF WriteArgs
<1> QED BY <1>1, <1>2 DEF Write

LEMMA WriteKind ==
    ASSUME CallsOK, NEW c \in Calls, InFlight(c), calls[c].op \in {"import", "document", "bands"}
    PROVE  \E rows, names :
              /\ calls[c] \in Write(calls[c].op, rows, names)
              /\ Write(calls[c].op, rows, names) \subseteq ImportCalls
<1>1. CallOK(calls[c]) /\ calls[c] \notin {Waiting, Done}
  BY InFlightTyped
<1>2. CASE calls[c].op = "import"
  BY <1>1, <1>2, KindOf DEF ImportCalls
<1>3. CASE calls[c].op = "document"
  BY <1>1, <1>3, KindOf DEF ImportCalls
<1>4. CASE calls[c].op = "bands"
  BY <1>1, <1>4, KindOf DEF ImportCalls
<1> QED BY <1>2, <1>3, <1>4

LEMMA SaveStepsTyped ==
    ASSUME Typing, NEW c \in Calls, WriteQuestion(c) \/ DeleteOptions(c)
    PROVE  Typing'
<1>1. TestOK /\ CallsOK
  BY TypingParts DEF Typing
<1>2. InFlight(c) /\ calls[c].op = "updateQuestion"
  BY DEF WriteQuestion, DeleteOptions, At
<1> DEFINE Saves == Call({"checked", "held", "deleted"}, "updateQuestion", UpdateArgs)
           a == calls[c].arg
<1>3. calls[c] \in Saves
  BY <1>1, <1>2, InFlightTyped, KindOf
<1>4. a \in UpdateArgs /\ calls[c].held \subseteq Rows
  BY <1>3, CallFields
<1>5. CASE WriteQuestion(c) /\ a.q \in DOMAIN questions
  <2> DEFINE k == [calls[c] EXCEPT !.pc = "held", !.held = @ \cup {a.q}, !.want = {}]
  <2>1. a.q \in Rows
    BY <1>4 DEF UpdateArgs, Rows
  <2>2. k \in Saves
    BY <1>3, <1>4, <2>1 DEF Call
  <2>3. calls' = [calls EXCEPT ![c] = k] /\ UNCHANGED test
    BY <1>1, <1>5 DEF WriteQuestion, Lock, CallsOK
  <2>4. CallOK(k)
    BY <2>2 DEF CallOK, QuestionCalls
  <2>5. CallsOK'
    BY <1>1, <2>3, <2>4, OneCallChanges
  <2>6. TestOK'
    BY <1>1, <2>3 DEF test, TestOK
  <2> QED BY <2>5, <2>6, TypingNext
<1>6. CASE WriteQuestion(c) /\ a.q \notin DOMAIN questions
  BY <1>6, FailTyped DEF WriteQuestion
<1>7. CASE DeleteOptions(c)
  <2> DEFINE left == questions[a.q].options \ Others(c)
             k == [calls[c] EXCEPT !.pc = "deleted", !.arg.left = left]
  <2>1. left \subseteq a.kept
    BY DEF Others
  <2>2. [a EXCEPT !.left = left] \in UpdateArgs
    BY <1>4, <2>1 DEF UpdateArgs
  <2>3. k \in Saves
    BY <1>3, <2>2 DEF Call
  <2>4. calls' = [calls EXCEPT ![c] = k] /\ UNCHANGED test
    BY <1>1, <1>7 DEF DeleteOptions, CallsOK
  <2>5. CallOK(k)
    BY <2>3 DEF CallOK, QuestionCalls
  <2>6. CallsOK'
    BY <1>1, <2>4, <2>5, OneCallChanges
  <2>7. TestOK'
    BY <1>1, <2>4 DEF test, TestOK
  <2> QED BY <2>6, <2>7, TypingNext
<1> QED BY <1>5, <1>6, <1>7

LEMMA ShiftStepsTyped ==
    ASSUME Typing, NEW c \in Calls, IssueShift(c) \/ LockShift(c)
    PROVE  Typing'
<1>1. TestOK /\ CallsOK
  BY TypingParts DEF Typing
<1>2. InFlight(c) /\ calls[c].op = "duplicateQuestion"
  BY DEF IssueShift, LockShift, At
<1> DEFINE Copies == Call({"checked", "issued", "held"}, "duplicateQuestion",
                          [at : Nat, fits : Methods])
           a == calls[c].arg
<1>3. calls[c] \in Copies
  BY <1>1, <1>2, InFlightTyped, KindOf
<1>4. calls[c].held \subseteq Rows
  BY <1>3, CallFields
<1>5. \A rows : Later(rows, a.at) \subseteq Rows
  BY <1>1 DEF Later, TestOK, Rows
<1>6. ASSUME NEW k \in Copies, calls' = [calls EXCEPT ![c] = k], UNCHANGED test
      PROVE  Typing'
  <2>1. CallsOK'
    BY <1>1, <1>6, OneCallChanges DEF CallOK, QuestionCalls
  <2>2. TestOK'
    BY <1>1, <1>6 DEF test, TestOK
  <2> QED BY <2>1, <2>2, TypingNext
<1>7. CASE IssueShift(c)
  <2> DEFINE rows == Later(DOMAIN questions, a.at)
             k == [calls[c] EXCEPT !.pc = "issued", !.want = rows]
  <2>1. k \in Copies
    <3>1. rows \subseteq Rows
      BY <1>5
    <3> HIDE DEF rows
    <3> QED BY <1>3, <3>1 DEF Call
  <2>2. calls' = [calls EXCEPT ![c] = k] /\ UNCHANGED test
    BY <1>1, <1>7 DEF IssueShift, Issue, CallsOK
  <2> HIDE DEF k, Copies
  <2> QED BY <1>6, <2>1, <2>2
<1>8. CASE LockShift(c)
  <2> DEFINE rows == Later(calls[c].want, a.at)
             k == [calls[c] EXCEPT !.pc = "held", !.held = @ \cup rows, !.want = {}]
  <2>1. k \in Copies
    <3>1. rows \subseteq Rows
      BY <1>5
    <3> HIDE DEF rows
    <3> QED BY <1>3, <1>4, <3>1 DEF Call
  <2>2. calls' = [calls EXCEPT ![c] = k] /\ UNCHANGED test
    BY <1>1, <1>8 DEF LockShift, Lock, CallsOK
  <2> HIDE DEF k, Copies
  <2> QED BY <1>6, <2>1, <2>2
<1> QED BY <1>7, <1>8

LEMMA ClearStepsTyped ==
    ASSUME Typing, NEW c \in Calls, IssueClear(c) \/ LockClear(c)
    PROVE  Typing'
<1>1. TestOK /\ CallsOK
  BY TypingParts DEF Typing
<1>2. InFlight(c) /\ calls[c].op \in {"import", "document", "bands"}
  BY DEF IssueClear, LockClear, Writes
<1> DEFINE op == calls[c].op
           clears == calls[c].arg.clears
<1>3. PICK rows, names : calls[c] \in Write(op, rows, names) /\ Write(op, rows, names) \subseteq ImportCalls
  BY <1>1, <1>2, WriteKind
<1>4. calls[c].arg \in WriteArgs(rows, names, Plans(op)) /\ clears \in Plans(op)
  BY <1>2, <1>3, WriteFields DEF WriteArgs
<1>5. CallOK(calls[c]) /\ calls[c] \notin {Waiting, Done}
  BY <1>1, <1>2, InFlightTyped
<1>6. calls[c] \in Call({calls[c].pc}, op, WriteArgs(rows, names, Plans(op)))
  <2>1. PICK k : k = calls[c]
    OBVIOUS
  <2>2. /\ k.alone \in BOOLEAN /\ k.want \subseteq Rows /\ k.held \subseteq Rows
        /\ k = [pc |-> k.pc, op |-> k.op, arg |-> k.arg, alone |-> k.alone,
                want |-> k.want, held |-> k.held]
    BY <1>5, <2>1, CallTyped
  <2>3. \A args : k.arg \in args => k \in Call({k.pc}, k.op, args)
    BY <2>2 DEF Call
  <2> QED BY <1>4, <2>1, <2>3
<1>7. ASSUME NEW k \in Write(op, rows, names), calls' = [calls EXCEPT ![c] = k], UNCHANGED test
      PROVE  Typing'
  <2>1. CallOK(k)
    BY <1>3 DEF CallOK
  <2>2. CallsOK'
    BY <1>1, <1>7, <2>1, OneCallChanges
  <2>3. TestOK'
    BY <1>1, <1>7 DEF test, TestOK
  <2> QED BY <2>2, <2>3, TypingNext
<1>8. \A table \in {"questions", "sections", "bands"} : RowsOf(table) \subseteq Rows
  BY <1>1 DEF RowsOf, Rows, TestOK
<1>9. clears # <<>> => Head(clears) \in {"questions", "sections", "bands"} /\ Tail(clears) \in Plans(op)
  BY <1>2, <1>4, PlansShrink
<1>10. CASE IssueClear(c)
  <2> DEFINE new == RowsOf(Head(clears))
             k == [calls[c] EXCEPT !.pc = "issued", !.want = new]
  <2>1. clears # <<>>
    BY <1>10 DEF IssueClear
  <2>2. calls[c].arg \in WriteArgs(rows, names, Plans(op) \ {<<>>}) /\ new \subseteq Rows
    BY <1>4, <1>8, <1>9, <2>1 DEF WriteArgs
  <2>3. k \in Call({"issued"}, op, WriteArgs(rows, names, Plans(op) \ {<<>>}))
    <3> HIDE DEF new
    <3> QED BY <1>6, <2>2 DEF Call
  <2>4. calls' = [calls EXCEPT ![c] = k] /\ UNCHANGED test
    BY <1>1, <1>10 DEF IssueClear, Issue, CallsOK
  <2>5. k \in Write(op, rows, names)
    BY <2>3 DEF Write
  <2> HIDE DEF k
  <2> QED BY <1>7, <2>4, <2>5
<1>11. CASE LockClear(c)
  <2> DEFINE new == calls[c].held \cup (calls[c].want \cap RowsOf(Head(clears)))
             arg == [calls[c].arg EXCEPT !.clears = Tail(clears)]
             k == [calls[c] EXCEPT !.pc = "checked", !.want = {}, !.held = new,
                                   !.arg.clears = Tail(clears)]
  <2>1. clears # <<>>
    BY <1>2, <1>3, <1>11, WriteFields DEF LockClear, Writes
  <2>2. arg \in WriteArgs(rows, names, Plans(op))
    BY <1>4, <1>9, <2>1 DEF WriteArgs
  <2>3. new \subseteq Rows
    BY <1>6, CallFields
  <2>4. k \in Call({"checked"}, op, WriteArgs(rows, names, Plans(op)))
    <3> HIDE DEF new
    <3> QED BY <1>6, <2>2, <2>3 DEF Call
  <2>5. calls' = [calls EXCEPT ![c] = k] /\ UNCHANGED test
    <3>1. /\ calls' = [calls EXCEPT ![c].pc = "checked", ![c].want = {},
                                   ![c].held = @ \cup (calls[c].want \cap RowsOf(Head(clears))),
                                   ![c].arg.clears = Tail(clears)]
          /\ UNCHANGED test
      BY <1>11 DEF LockClear
    <3>2. c \in DOMAIN calls
      BY <1>1 DEF CallsOK
    <3>3. PICK rest : rest = Tail(clears)
      OBVIOUS
    <3>4. PICK more : more = calls[c].want \cap RowsOf(Head(clears))
      OBVIOUS
    <3> QED BY <3>1, <3>2, <3>3, <3>4
  <2>6. k \in Write(op, rows, names)
    BY <2>4 DEF Write
  <2> HIDE DEF k
  <2> QED BY <1>7, <2>5, <2>6
<1> QED BY <1>10, <1>11

LEMMA MediaStepsTyped ==
    ASSUME Typing, NEW c \in Calls,
           upload(c) \/ RecordUpload(c) \/ UndoUpload(c) \/ DeleteRecord(c) \/ DeleteFile(c)
    PROVE  Typing'
<1>1. TestOK /\ CallsOK
  BY TypingParts DEF Typing
<1>2. media.files \subseteq Uploaded \cup Calls /\ media.records \subseteq Uploaded \cup Calls
  BY <1>1 DEF TestOK
<1>3. ASSUME NEW f, NEW r, f \subseteq Uploaded \cup Calls, r \subseteq Uploaded \cup Calls,
             Store(f, r), CallsOK'
      PROVE  Typing'
  <2>1. media' \in [{"files", "records"} -> SUBSET (Uploaded \cup Calls)]
    BY <1>3 DEF Store
  <2>2. TestOK'
    BY <1>1, <1>3, <2>1 DEF Store, TestOK
  <2> QED BY <1>3, <2>2, TypingNext
<1>4. CASE upload(c)
  <2>1. Planned("upload", <<>>) \in Call({"checked"}, "upload", {<<>>})
    BY PlannedIs
  <2>2. CallOK(Planned("upload", <<>>))
    BY <2>1 DEF CallOK, OtherCalls
  <2>3. CallsOK'
    BY <1>1, <1>4, <2>2, OneCallChanges DEF upload
  <2> QED BY <1>2, <1>3, <1>4, <2>3 DEF upload
<1>5. CASE RecordUpload(c)
  <2>1. CallsOK'
    BY <1>1, <1>5, CommitChanges DEF RecordUpload
  <2> QED BY <1>2, <1>3, <1>5, <2>1 DEF RecordUpload
<1>6. CASE UndoUpload(c)
  <2>1. CallsOK'
    BY <1>1, <1>6, OneCallChanges DEF UndoUpload, CallOK
  <2>2. Store(media.files \ {c}, media.records)
    BY <1>6 DEF UndoUpload
  <2>3. media.files \ {c} \subseteq Uploaded \cup Calls
    BY <1>2
  <2> QED BY <1>2, <1>3, <2>1, <2>2, <2>3
<1>7. CASE DeleteRecord(c) /\ calls[c].arg.file \in media.records
  <2> DEFINE f == calls[c].arg.file
             Removals == Call({"checked", "recordGone"}, "removeMedia",
                              [file : Uploaded \cup Calls])
             k == [calls[c] EXCEPT !.pc = "recordGone"]
  <2>1. InFlight(c) /\ calls[c].op = "removeMedia" /\ First(f)
        /\ calls' = [calls EXCEPT ![c].pc = "recordGone"]
    BY <1>7 DEF DeleteRecord, At
  <2>2. calls[c] \in Removals
    BY <1>1, <2>1, InFlightTyped, KindOf
  <2>3. k \in Removals /\ calls' = [calls EXCEPT ![c] = k]
    BY <1>1, <2>1, <2>2, NewFields DEF CallsOK
  <2>4. CallOK(k)
    BY <2>3 DEF CallOK, OtherCalls
  <2>5. CallsOK'
    BY <1>1, <2>3, <2>4, OneCallChanges
  <2>6. Store(media.files, media.records \ {f})
    BY <2>1 DEF First
  <2>7. media.records \ {f} \subseteq Uploaded \cup Calls
    BY <1>2
  <2> QED BY <1>2, <1>3, <2>5, <2>6, <2>7
<1>8. CASE DeleteRecord(c) /\ calls[c].arg.file \notin media.records
  BY <1>8, FailTyped DEF DeleteRecord
<1>9. CASE DeleteFile(c)
  <2>1. CallsOK'
    BY <1>1, <1>9, CommitChanges DEF DeleteFile
  <2>2. Store(media.files \ {calls[c].arg.file}, media.records)
    BY <1>9 DEF DeleteFile
  <2>3. media.files \ {calls[c].arg.file} \subseteq Uploaded \cup Calls
    BY <1>2
  <2> QED BY <1>2, <1>3, <2>1, <2>2, <2>3
<1> QED BY <1>4, <1>5, <1>6, <1>7, <1>8, <1>9

-----------------------------------------------------------------------------
(* What the writing statements write.                                       *)

LEMMA NewQuestionsAre ==
    ASSUME NEW c \in Calls, NEW rows \in 0..MaxRows, NEW at \in Nat, NEW fits \in Methods
    PROVE  /\ DOMAIN NewQuestions(c, rows, at, fits) = {c} \X (1..rows)
           /\ {c} \X (1..rows) \subseteq {c} \X (1..MaxRows)
           /\ {c} \X (1..rows) \subseteq Qids
           /\ \A i \in 1..rows : NewQuestions(c, rows, at, fits)[<<c, i>>] =
                 [order |-> at + i - 1, fits |-> fits, options |-> Given, meant |-> Given]
<1>1. MaxRows \in Nat
  BY BoundsAssumption
<1>2. {c} \X (1..rows) \subseteq {c} \X (1..MaxRows)
  BY <1>1
<1>3. {c} \X (1..rows) \subseteq Qids
  BY <1>2 DEF Qids
<1>4. ASSUME NEW i \in 1..rows
      PROVE  NewQuestions(c, rows, at, fits)[<<c, i>>] =
                 [order |-> at + i - 1, fits |-> fits, options |-> Given, meant |-> Given]
  <2>1. <<c, i>> \in {c} \X (1..rows) /\ <<c, i>>[2] = i
    OBVIOUS
  <2> QED BY <2>1 DEF NewQuestions, Fresh
<1>5. DOMAIN NewQuestions(c, rows, at, fits) = {c} \X (1..rows)
  BY DEF NewQuestions
<1> QED BY <1>2, <1>3, <1>4, <1>5

LEMMA NewSectionsAre ==
    ASSUME NEW c \in Calls, NEW names \in SUBSET Names
    PROVE  /\ DOMAIN NewSections(c, names) = {c} \X names
           /\ {c} \X names \subseteq {c} \X Names
           /\ {c} \X names \subseteq Sids
           /\ \A s \in {c} \X names :
                 NewSections(c, names)[s] \in names /\ s = <<c, NewSections(c, names)[s]>>
BY DEF NewSections, Sids

LEMMA InsertTyped ==
    ASSUME NEW rows, NEW table, NEW S,
           \A r \in DOMAIN rows : rows[r] \in S, \A r \in DOMAIN table : table[r] \in S
    PROVE  \A r \in DOMAIN Insert(rows, table) : Insert(rows, table)[r] \in S
BY DEF Insert

LEMMA NewRowsTyped ==
    ASSUME NEW c \in Calls
    PROVE  /\ \A rows \in 0..MaxRows, at \in Nat, fits \in Methods :
                 /\ DOMAIN NewQuestions(c, rows, at, fits) \subseteq Qids
                 /\ \A q \in DOMAIN NewQuestions(c, rows, at, fits) :
                       NewQuestions(c, rows, at, fits)[q] \in Question
           /\ \A names \in SUBSET Names :
                 /\ DOMAIN NewSections(c, names) \subseteq Sids
                 /\ \A s \in DOMAIN NewSections(c, names) : NewSections(c, names)[s] \in Names
<1>1. ASSUME NEW rows \in 0..MaxRows, NEW at \in Nat, NEW fits \in Methods
      PROVE  /\ DOMAIN NewQuestions(c, rows, at, fits) \subseteq Qids
             /\ \A q \in DOMAIN NewQuestions(c, rows, at, fits) :
                   NewQuestions(c, rows, at, fits)[q] \in Question
  <2> DEFINE new == NewQuestions(c, rows, at, fits)
  <2>1. DOMAIN new = {c} \X (1..rows) /\ {c} \X (1..rows) \subseteq Qids
    BY NewQuestionsAre
  <2>2. ASSUME NEW q \in {c} \X (1..rows) PROVE new[q] \in Question
    <3>1. PICK i \in 1..rows : q = <<c, i>>
      OBVIOUS
    <3>2. new[q] = [order |-> at + i - 1, fits |-> fits, options |-> Given, meant |-> Given]
      BY <3>1, NewQuestionsAre
    <3>3. at + i - 1 \in Nat
      BY BoundsAssumption
    <3> QED BY <3>2, <3>3 DEF Question, Oids
  <2> QED BY <2>1, <2>2, Zenon
<1>2. ASSUME NEW names \in SUBSET Names
      PROVE  /\ DOMAIN NewSections(c, names) \subseteq Sids
             /\ \A s \in DOMAIN NewSections(c, names) : NewSections(c, names)[s] \in Names
  BY DEF NewSections, Sids
<1> QED BY <1>1, <1>2

LEMMA SectionWritesTyped ==
    ASSUME Typing, NEW c \in Calls, InsertSection(c) \/ RenameSection(c) \/ DeleteSection(c)
    PROVE  Typing'
<1>1. TestOK /\ CallsOK
  BY TypingParts DEF Typing
<1>2. InFlight(c)
  BY DEF InsertSection, RenameSection, DeleteSection, At
<1>3. CallOK(calls[c]) /\ calls[c] \notin {Waiting, Done}
  BY <1>1, <1>2, InFlightTyped
<1>4. ASSUME Commit(c), UNCHANGED <<method, questions, bands, media>>,
             DOMAIN sections' \subseteq Sids, \A s \in DOMAIN sections' : sections'[s] \in Names
      PROVE  Typing'
  <2>1. CallsOK'
    BY <1>1, <1>4, CommitChanges
  <2>2. TestOK'
    BY <1>1, <1>4 DEF TestOK
  <2> QED BY <2>1, <2>2, TypingNext
<1> DEFINE a == calls[c].arg
<1>5. CASE InsertSection(c)
  <2>1. calls[c] \in Call({"checked"}, "createSection", [names : {{n} : n \in Names}])
    BY <1>3, <1>5, KindOf DEF InsertSection, At
  <2>2. a \in [names : {{n} : n \in Names}]
    BY <2>1, CallFields
  <2>3. a.names \in SUBSET Names
    BY <2>2
  <2> DEFINE new == NewSections(c, a.names)
  <2>4. DOMAIN new \subseteq Sids /\ \A s \in DOMAIN new : new[s] \in Names
    BY <2>3, NewRowsTyped
  <2>5. sections' = Insert(new, sections)
    BY <1>5 DEF InsertSection
  <2> HIDE DEF new
  <2>6. DOMAIN sections' = DOMAIN new \cup DOMAIN sections
    BY <2>5, InsertedRows
  <2>7. \A s \in DOMAIN sections' : sections'[s] \in Names
    BY <1>1, <2>4, <2>5, InsertTyped DEF TestOK
  <2> QED BY <1>1, <1>4, <1>5, <2>4, <2>6, <2>7 DEF InsertSection, TestOK
<1>6. CASE RenameSection(c) /\ a.section \in DOMAIN sections
  <2>1. calls[c] \in Call({"checked"}, "updateSection", [section : Sids, name : Names])
    BY <1>3, <1>6, KindOf DEF RenameSection, At
  <2>2. a.name \in Names
    <3>1. a \in [section : Sids, name : Names]
      BY <2>1 DEF Call
    <3> QED BY <3>1
  <2>3. sections' = [sections EXCEPT ![a.section] = a.name]
    BY <1>6 DEF RenameSection
  <2> QED BY <1>1, <1>4, <1>6, <2>2, <2>3 DEF RenameSection, TestOK
<1>7. CASE DeleteSection(c) /\ a.section \in DOMAIN sections
  BY <1>1, <1>4, <1>7 DEF DeleteSection, TestOK, Restrict
<1>8. CASE (RenameSection(c) \/ DeleteSection(c)) /\ a.section \notin DOMAIN sections
  BY <1>8, FailTyped DEF RenameSection, DeleteSection
<1> QED BY <1>5, <1>6, <1>7, <1>8

LEMMA QuestionWritesTyped ==
    ASSUME Typing, NEW c \in Calls,
           \/ InsertQuestion(c) \/ WriteOptions(c) \/ InsertCopy(c)
           \/ DeleteQuestion(c) \/ WritePlaces(c)
    PROVE  Typing'
<1>1. TestOK /\ CallsOK
  BY TypingParts DEF Typing
<1>2. InFlight(c)
  BY DEF InsertQuestion, WriteOptions, InsertCopy, DeleteQuestion, WritePlaces, At
<1>3. CallOK(calls[c]) /\ calls[c] \notin {Waiting, Done}
  BY <1>1, <1>2, InFlightTyped
<1>4. ASSUME Commit(c), UNCHANGED <<method, sections, bands, media>>,
             DOMAIN questions' \subseteq Qids,
             \A q \in DOMAIN questions' : questions'[q] \in Question
      PROVE  Typing'
  <2>1. CallsOK'
    BY <1>1, <1>4, CommitChanges
  <2>2. TestOK'
    BY <1>1, <1>4 DEF TestOK
  <2> QED BY <2>1, <2>2, TypingNext
<1>5. DOMAIN questions \subseteq Qids /\ \A q \in DOMAIN questions : questions[q] \in Question
  BY <1>1 DEF TestOK
<1>6. 1 \in 0..MaxRows
  BY BoundsAssumption
<1> DEFINE a == calls[c].arg
<1>7. CASE InsertQuestion(c)
  <2>1. calls[c] \in Call({"checked"}, "createQuestion", [at : Nat, fits : Methods])
    BY <1>3, <1>7, KindOf DEF InsertQuestion, At
  <2>2. a.at \in Nat /\ a.fits \in Methods
    <3>1. a \in [at : Nat, fits : Methods]
      BY <2>1 DEF Call
    <3> QED BY <3>1
  <2> DEFINE new == NewQuestions(c, 1, a.at, a.fits)
  <2>3. DOMAIN new \subseteq Qids /\ \A q \in DOMAIN new : new[q] \in Question
    BY <1>6, <2>2, NewRowsTyped
  <2>4. questions' = Insert(new, questions)
    BY <1>7 DEF InsertQuestion
  <2> HIDE DEF new
  <2>5. DOMAIN questions' = DOMAIN new \cup DOMAIN questions
    BY <2>4, InsertedRows
  <2>6. \A q \in DOMAIN questions' : questions'[q] \in Question
    BY <1>5, <2>3, <2>4, InsertTyped
  <2> QED BY <1>4, <1>5, <1>7, <2>3, <2>5, <2>6 DEF InsertQuestion
<1>8. CASE WriteOptions(c) /\ a.kept \subseteq a.left
  <2>1. calls[c] \in Call({"checked", "held", "deleted"}, "updateQuestion", UpdateArgs)
    BY <1>3, <1>8, KindOf DEF WriteOptions, At
  <2>2. /\ a.fits \in Methods /\ a.left \subseteq Oids
        /\ a.kept \subseteq Oids /\ a.added \subseteq Oids
    <3>1. a \in UpdateArgs
      BY <2>1, CallFields
    <3> QED BY <3>1 DEF UpdateArgs
  <2>3. questions' = [questions EXCEPT ![a.q].fits = a.fits,
                                       ![a.q].options = a.left \cup a.added,
                                       ![a.q].meant = a.kept \cup a.added]
    BY <1>8 DEF WriteOptions
  <2>4. DOMAIN questions' = DOMAIN questions
    BY <2>3
  <2>5. ASSUME NEW q \in DOMAIN questions PROVE questions'[q] \in Question
    <3>1. questions[q] \in Question
      BY <1>5
    <3>2. CASE q = a.q
      <4>1. questions'[q] = [questions[q] EXCEPT !.fits = a.fits, !.options = a.left \cup a.added,
                                                 !.meant = a.kept \cup a.added]
        BY <2>3, <3>2
      <4> QED BY <2>2, <3>1, <4>1 DEF Question
    <3>3. CASE q # a.q
      BY <2>3, <3>1, <3>3
    <3> QED BY <3>2, <3>3
  <2> QED BY <1>4, <1>5, <1>8, <2>4, <2>5 DEF WriteOptions
<1>9. CASE InsertCopy(c)
  <2>1. calls[c] \in Call({"checked", "issued", "held"}, "duplicateQuestion",
                          [at : Nat, fits : Methods])
    BY <1>3, <1>9, KindOf DEF InsertCopy, At
  <2>2. a.at + 1 \in Nat /\ a.fits \in Methods
    <3>1. a \in [at : Nat, fits : Methods]
      BY <2>1 DEF Call
    <3> QED BY <3>1
  <2> DEFINE new == NewQuestions(c, 1, a.at + 1, a.fits)
             shifted == [q \in DOMAIN questions |->
                           IF q \in calls[c].held
                             THEN [questions[q] EXCEPT !.order = @ + 1] ELSE questions[q]]
  <2>3. DOMAIN new \subseteq Qids /\ \A q \in DOMAIN new : new[q] \in Question
    BY <1>6, <2>2, NewRowsTyped
  <2>4. DOMAIN shifted = DOMAIN questions /\ \A q \in DOMAIN questions : shifted[q] \in Question
    BY <1>5 DEF Question
  <2>5. questions' = Insert(new, shifted)
    BY <1>9 DEF InsertCopy
  <2> HIDE DEF new, shifted
  <2>6. DOMAIN questions' = DOMAIN new \cup DOMAIN questions
    BY <2>4, <2>5, InsertedRows
  <2>7. \A q \in DOMAIN questions' : questions'[q] \in Question
    BY <2>3, <2>4, <2>5, InsertTyped
  <2> QED BY <1>4, <1>5, <1>9, <2>3, <2>6, <2>7 DEF InsertCopy
<1>10. CASE DeleteQuestion(c) /\ a.q \in DOMAIN questions
  BY <1>4, <1>5, <1>10 DEF DeleteQuestion, Restrict
<1>11. CASE WritePlaces(c) /\ DOMAIN a.place \subseteq DOMAIN questions
  <2>1. Reorders(calls[c])
    BY <1>3, <1>11, KindOf DEF WritePlaces, At
  <2>2. \A q \in DOMAIN a.place : a.place[q] \in Nat
    BY <2>1 DEF Reorders
  <2>3. questions' = [q \in DOMAIN questions |->
                        IF q \in DOMAIN a.place
                          THEN [questions[q] EXCEPT !.order = a.place[q]] ELSE questions[q]]
    BY <1>11 DEF WritePlaces
  <2>4. DOMAIN questions' = DOMAIN questions
    BY <2>3
  <2>5. ASSUME NEW q \in DOMAIN questions PROVE questions'[q] \in Question
    <3>1. questions[q] \in Question
      BY <1>5
    <3>2. CASE q \in DOMAIN a.place
      <4>1. questions'[q] = [questions[q] EXCEPT !.order = a.place[q]]
        BY <2>3, <3>2
      <4> QED BY <2>2, <3>1, <3>2, <4>1 DEF Question
    <3>3. CASE q \notin DOMAIN a.place
      BY <2>3, <3>1, <3>3
    <3> QED BY <3>2, <3>3
  <2> QED BY <1>4, <1>5, <1>11, <2>4, <2>5 DEF WritePlaces
<1>12. CASE \/ (WriteOptions(c) /\ ~(a.kept \subseteq a.left))
            \/ (DeleteQuestion(c) /\ a.q \notin DOMAIN questions)
            \/ (WritePlaces(c) /\ ~(DOMAIN a.place \subseteq DOMAIN questions))
  BY <1>12, FailTyped DEF WriteOptions, DeleteQuestion, WritePlaces
<1> QED BY <1>7, <1>8, <1>9, <1>10, <1>11, <1>12

LEMMA WriteArgsOf ==
    ASSUME CallsOK, NEW c \in Calls, InFlight(c), calls[c].op \in {"import", "document", "bands"}
    PROVE  /\ calls[c].arg.rows \in 0..MaxRows /\ calls[c].arg.names \in SUBSET Names
           /\ calls[c].arg.bands \in SUBSET Minimums /\ calls[c].arg.fits \in Methods
           /\ calls[c].arg.at \in Nat /\ calls[c].arg.clears \in Plans(calls[c].op)
           /\ calls[c].op \in {"import", "document"} => calls[c].arg.rows \in 1..MaxRows
           /\ calls[c].op = "document" => Cardinality(calls[c].arg.names) <= MaxSections
           /\ calls[c].op = "bands" => calls[c].arg.rows = 0 /\ calls[c].arg.names = {}
           /\ calls[c].pc \in {"checked", "issued"}
           /\ calls[c].pc = "issued" => calls[c].arg.clears # <<>>
<1>1. CallOK(calls[c]) /\ calls[c] \notin {Waiting, Done}
  BY InFlightTyped
<1>2. MaxRows \in Nat
  BY BoundsAssumption
<1>3. CASE calls[c].op = "import"
  <2>1. calls[c] \in Write("import", 1..MaxRows, SUBSET Names)
    BY <1>1, <1>3, KindOf
  <2>2. /\ calls[c].arg \in WriteArgs(1..MaxRows, SUBSET Names, Plans("import"))
        /\ calls[c].pc \in {"checked", "issued"}
        /\ calls[c].pc = "issued" => calls[c].arg.clears # <<>>
    BY <2>1, WriteFields
  <2> QED BY <1>2, <1>3, <2>2 DEF WriteArgs
<1>4. CASE calls[c].op = "document"
  <2> DEFINE few == {names \in SUBSET Names : Cardinality(names) <= MaxSections}
  <2>1. calls[c] \in Write("document", 1..MaxRows, few)
    BY <1>1, <1>4, KindOf
  <2>2. /\ calls[c].arg \in WriteArgs(1..MaxRows, few, Plans("document"))
        /\ calls[c].pc \in {"checked", "issued"}
        /\ calls[c].pc = "issued" => calls[c].arg.clears # <<>>
    BY <2>1, WriteFields
  <2> QED BY <1>2, <1>4, <2>2 DEF WriteArgs
<1>5. CASE calls[c].op = "bands"
  <2>1. calls[c] \in Write("bands", {0}, {{}})
    BY <1>1, <1>5, KindOf
  <2>2. /\ calls[c].arg \in WriteArgs({0}, {{}}, Plans("bands"))
        /\ calls[c].pc \in {"checked", "issued"}
        /\ calls[c].pc = "issued" => calls[c].arg.clears # <<>>
    BY <2>1, WriteFields
  <2> QED BY <1>2, <1>5, <2>2 DEF WriteArgs
<1> QED BY <1>3, <1>4, <1>5

LEMMA KeptRows ==
    ASSUME NEW c, NEW table
    PROVE  /\ DOMAIN Kept(c, table) = DOMAIN table \ calls[c].held
           /\ \A r \in DOMAIN Kept(c, table) : Kept(c, table)[r] = table[r]
BY DEF Kept, Restrict

LEMMA InsertKeptTyped ==
    ASSUME NEW c, NEW rows, NEW table, NEW I, NEW S,
           DOMAIN rows \subseteq I, DOMAIN table \subseteq I,
           \A r \in DOMAIN rows : rows[r] \in S, \A r \in DOMAIN table : table[r] \in S
    PROVE  /\ DOMAIN Insert(rows, Kept(c, table)) \subseteq I
           /\ \A r \in DOMAIN Insert(rows, Kept(c, table)) : Insert(rows, Kept(c, table))[r] \in S
BY DEF Insert, Kept, Restrict

LEMMA CommitImportTyped ==
    ASSUME Typing, NEW c \in Calls, CommitImport(c)
    PROVE  Typing'
<1> DEFINE a == calls[c].arg
           newQs == NewQuestions(c, a.rows, a.at, a.fits)
           newSs == NewSections(c, a.names)
           newBs == [b \in {c} \X a.bands |-> b[2]]
<1>1. TestOK /\ CallsOK
  BY TypingParts DEF Typing
<1>2. InFlight(c) /\ calls[c].op \in {"import", "document", "bands"}
  BY DEF CommitImport, Writes
<1>3. /\ a.rows \in 0..MaxRows /\ a.names \in SUBSET Names /\ a.bands \in SUBSET Minimums
      /\ a.fits \in Methods /\ a.at \in Nat
  BY <1>1, <1>2, WriteArgsOf
<1>4. /\ DOMAIN newQs \subseteq Qids /\ \A q \in DOMAIN newQs : newQs[q] \in Question
      /\ DOMAIN newSs \subseteq Sids /\ \A s \in DOMAIN newSs : newSs[s] \in Names
  BY <1>3, NewRowsTyped
<1>5. DOMAIN newBs \subseteq Bids /\ \A b \in DOMAIN newBs : newBs[b] \in Minimums
  BY <1>3 DEF Bids
<1>6. /\ questions' = Insert(newQs, Kept(c, questions))
      /\ sections' = Insert(newSs, Kept(c, sections))
      /\ bands' = Insert(newBs, Kept(c, bands))
      /\ method' = IF calls[c].op = "document" THEN a.fits ELSE method
      /\ Commit(c) /\ UNCHANGED media
  BY DEF CommitImport
<1> HIDE DEF newQs, newSs, newBs
<1>7. DOMAIN questions' \subseteq Qids /\ \A q \in DOMAIN questions' : questions'[q] \in Question
  BY <1>1, <1>4, <1>6, InsertKeptTyped DEF TestOK
<1>8. DOMAIN sections' \subseteq Sids /\ \A s \in DOMAIN sections' : sections'[s] \in Names
  BY <1>1, <1>4, <1>6, InsertKeptTyped DEF TestOK
<1>9. DOMAIN bands' \subseteq Bids /\ \A b \in DOMAIN bands' : bands'[b] \in Minimums
  BY <1>1, <1>5, <1>6, InsertKeptTyped DEF TestOK
<1>10. TestOK'
  BY <1>1, <1>3, <1>6, <1>7, <1>8, <1>9 DEF TestOK
<1>11. CallsOK'
  BY <1>1, <1>6, CommitChanges
<1> QED BY <1>10, <1>11, TypingNext

LEMMA WriteSettingsTyped ==
    ASSUME Typing, NEW c \in Calls, WriteSettings(c)
    PROVE  Typing'
<1>1. TestOK /\ CallsOK
  BY TypingParts DEF Typing
<1>2. calls[c] \in Call({"checked"}, "update", [method : Methods])
  BY <1>1, InFlightTyped, KindOf DEF WriteSettings, At
<1>3. calls[c].arg \in [method : Methods]
  BY <1>2 DEF Call
<1>4. CallsOK'
  BY <1>1, CommitChanges DEF WriteSettings
<1>5. TestOK'
  BY <1>1, <1>3 DEF WriteSettings, TestOK
<1> QED BY <1>4, <1>5, TypingNext

LEMMA StepTyped ==
    ASSUME Typing, NEW c \in Calls, Handler(c) \/ Drop(c)
    PROVE  Typing'
<1>1. CASE \/ createSection(c) \/ updateSection(c) \/ removeSection(c)
           \/ createQuestion(c) \/ updateQuestion(c) \/ duplicateQuestion(c)
           \/ removeQuestion(c) \/ reorderQuestions(c)
           \/ importCsv(c) \/ replaceDocument(c) \/ replaceBands(c)
           \/ removeMedia(c) \/ update(c)
  BY <1>1, SectionChecksTyped, QuestionChecksTyped, ImportChecksTyped, OtherChecksTyped
<1>2. CASE \/ WriteQuestion(c) \/ DeleteOptions(c) \/ IssueShift(c) \/ LockShift(c)
           \/ IssueClear(c) \/ LockClear(c)
  BY <1>2, SaveStepsTyped, ShiftStepsTyped, ClearStepsTyped
<1>3. CASE \/ InsertSection(c) \/ RenameSection(c) \/ DeleteSection(c)
           \/ InsertQuestion(c) \/ WriteOptions(c) \/ InsertCopy(c)
           \/ DeleteQuestion(c) \/ WritePlaces(c) \/ CommitImport(c) \/ WriteSettings(c)
  BY <1>3, SectionWritesTyped, QuestionWritesTyped, CommitImportTyped, WriteSettingsTyped
<1>4. CASE \/ upload(c) \/ RecordUpload(c) \/ UndoUpload(c) \/ DeleteRecord(c)
           \/ DeleteFile(c) \/ Drop(c)
  BY <1>4, MediaStepsTyped, FailTyped DEF Drop
<1> QED BY <1>1, <1>2, <1>3, <1>4 DEF Handler

-----------------------------------------------------------------------------
(* What a step of one call is to the others.                                *)

structure == <<method, questions, sections, bands>>

\* A step that writes nothing the checks read.
Quiet(c) ==
    /\ UNCHANGED structure
    /\ \A d \in Calls \ {c} : calls'[d] = calls[d]

\* A call that writes and ends: others are no longer alone, and find at most
\* what one call can add.
Grows(c) ==
    /\ calls'[c] = Done
    /\ \A d \in Calls \ {c} :
          /\ InFlight(d) => calls'[d] = [calls[d] EXCEPT !.alone = FALSE]
          /\ ~InFlight(d) => calls'[d] = calls[d]
    /\ DOMAIN questions' \subseteq DOMAIN questions \cup ({c} \X (1..MaxRows))
    /\ DOMAIN sections' \subseteq DOMAIN sections \cup ({c} \X Names)

LEMMA CommitGrows ==
    ASSUME CallsOK, NEW c \in Calls, Commit(c),
           DOMAIN questions' \subseteq DOMAIN questions \cup ({c} \X (1..MaxRows)),
           DOMAIN sections' \subseteq DOMAIN sections \cup ({c} \X Names)
    PROVE  Grows(c)
BY CommitChanges DEF Grows

LEMMA ChecksAreQuiet ==
    ASSUME CallsOK, NEW c \in Calls,
           \/ createSection(c) \/ updateSection(c) \/ removeSection(c)
           \/ createQuestion(c) \/ updateQuestion(c) \/ duplicateQuestion(c)
           \/ removeQuestion(c) \/ reorderQuestions(c)
           \/ importCsv(c) \/ replaceDocument(c) \/ replaceBands(c)
           \/ removeMedia(c) \/ update(c)
    PROVE  Quiet(c) /\ calls[c].pc = "new"
<1>1. \A op, arg : Check(c, op, arg) => Quiet(c) /\ calls[c].pc = "new"
  BY DEF Check, Quiet, CallsOK, test, structure
<1> HIDE DEF Check
<1> QED BY <1>1 DEF createSection, updateSection, removeSection, createQuestion,
      updateQuestion, duplicateQuestion, removeQuestion, reorderQuestions, importCsv,
      replaceDocument, replaceBands, removeMedia, update

LEMMA FailIsQuiet ==
    ASSUME CallsOK, NEW c \in Calls, Fail(c)
    PROVE  Quiet(c)
BY DEF Fail, Quiet, CallsOK, test, structure

LEMMA StatementsAreQuiet ==
    ASSUME CallsOK, NEW c \in Calls,
           \/ WriteQuestion(c) \/ DeleteOptions(c) \/ IssueShift(c) \/ LockShift(c)
           \/ IssueClear(c) \/ LockClear(c)
           \/ upload(c) \/ UndoUpload(c) \/ DeleteRecord(c) \/ Drop(c)
    PROVE  Quiet(c) /\ calls[c].pc # "done"
<1>1. CASE WriteQuestion(c)
  BY <1>1, FailIsQuiet DEF WriteQuestion, Lock, Quiet, CallsOK, test, structure, At, InFlight
<1>2. CASE DeleteOptions(c)
  BY <1>2 DEF DeleteOptions, Quiet, CallsOK, test, structure, At, InFlight
<1>3. CASE IssueShift(c)
  BY <1>3 DEF IssueShift, Issue, Quiet, CallsOK, test, structure, At, InFlight
<1>4. CASE LockShift(c)
  BY <1>4 DEF LockShift, Lock, Quiet, CallsOK, test, structure, At, InFlight
<1>5. CASE IssueClear(c)
  BY <1>5 DEF IssueClear, Issue, Quiet, CallsOK, test, structure, Writes, InFlight
<1>6. CASE LockClear(c)
  BY <1>6 DEF LockClear, Quiet, CallsOK, test, structure, Writes, InFlight
<1>7. CASE upload(c) \/ UndoUpload(c)
  BY <1>7 DEF upload, UndoUpload, Store, Quiet, CallsOK, structure, At, InFlight
<1>8. CASE DeleteRecord(c)
  BY <1>8, FailIsQuiet DEF DeleteRecord, First, Store, Quiet, CallsOK, structure, At, InFlight
<1>9. CASE Drop(c)
  BY <1>9, FailIsQuiet DEF Drop, InFlight
<1> QED BY <1>1, <1>2, <1>3, <1>4, <1>5, <1>6, <1>7, <1>8, <1>9

LEMMA WritesGrow ==
    ASSUME Typing, NEW c \in Calls,
           \/ InsertSection(c) \/ RenameSection(c) \/ DeleteSection(c)
           \/ InsertQuestion(c) \/ WriteOptions(c) \/ InsertCopy(c)
           \/ DeleteQuestion(c) \/ WritePlaces(c) \/ CommitImport(c) \/ WriteSettings(c)
           \/ RecordUpload(c) \/ DeleteFile(c)
    PROVE  (Quiet(c) \/ Grows(c)) /\ InFlight(c)
<1>1. TestOK /\ CallsOK
  BY TypingParts DEF Typing
<1>2. InFlight(c)
  BY DEF InsertSection, RenameSection, DeleteSection, InsertQuestion, WriteOptions,
     InsertCopy, DeleteQuestion, WritePlaces, CommitImport, WriteSettings, RecordUpload,
     DeleteFile, At, Writes
<1>3. CallOK(calls[c]) /\ calls[c] \notin {Waiting, Done}
  BY <1>1, <1>2, InFlightTyped
<1>4. MaxRows \in Nat /\ 1 \in 1..MaxRows
  BY BoundsAssumption
<1> DEFINE a == calls[c].arg
<1>5. CASE InsertSection(c)
  <2>1. calls[c] \in Call({"checked"}, "createSection", [names : {{n} : n \in Names}])
    BY <1>3, <1>5, KindOf DEF InsertSection, At
  <2>2. a \in [names : {{n} : n \in Names}]
    BY <2>1, CallFields
  <2>3. DOMAIN NewSections(c, a.names) \subseteq {c} \X Names
    BY <2>2 DEF NewSections
  <2>4. DOMAIN sections' = DOMAIN NewSections(c, a.names) \cup DOMAIN sections
    BY <1>5, InsertedRows DEF InsertSection
  <2> QED BY <1>1, <1>2, <1>5, <2>3, <2>4, CommitGrows DEF InsertSection
<1>6. CASE RenameSection(c) \/ DeleteSection(c)
  <2>1. CASE Fail(c)
    BY <1>1, <1>2, <2>1, FailIsQuiet
  <2>2. CASE Commit(c) /\ UNCHANGED questions /\ DOMAIN sections' \subseteq DOMAIN sections
    BY <1>1, <1>2, <2>2, CommitGrows
  <2> QED BY <1>6, <2>1, <2>2 DEF RenameSection, DeleteSection, Restrict
<1>7. CASE InsertQuestion(c) \/ InsertCopy(c)
  <2>1. \A at, fits : DOMAIN NewQuestions(c, 1, at, fits) \subseteq {c} \X (1..MaxRows)
    BY <1>4 DEF NewQuestions
  <2>2. /\ Commit(c) /\ UNCHANGED sections
        /\ \E at, fits, table :
              /\ questions' = Insert(NewQuestions(c, 1, at, fits), table)
              /\ DOMAIN table = DOMAIN questions
    BY <1>7 DEF InsertQuestion, InsertCopy
  <2>3. DOMAIN questions' \subseteq DOMAIN questions \cup ({c} \X (1..MaxRows))
    BY <2>1, <2>2, InsertedRows
  <2> QED BY <1>1, <1>2, <2>2, <2>3, CommitGrows
<1>8. CASE WriteOptions(c) \/ DeleteQuestion(c) \/ WritePlaces(c)
  <2>1. CASE Fail(c)
    BY <1>1, <1>2, <2>1, FailIsQuiet
  <2>2. CASE Commit(c) /\ UNCHANGED sections /\ DOMAIN questions' \subseteq DOMAIN questions
    BY <1>1, <1>2, <2>2, CommitGrows
  <2> QED BY <1>8, <2>1, <2>2 DEF WriteOptions, DeleteQuestion, WritePlaces, Restrict
<1>9. CASE CommitImport(c)
  <2>1. a.rows \in 0..MaxRows /\ a.names \in SUBSET Names
    BY <1>1, <1>9, WriteArgsOf DEF CommitImport, Writes
  <2>2. /\ DOMAIN NewQuestions(c, a.rows, a.at, a.fits) \subseteq {c} \X (1..MaxRows)
        /\ DOMAIN NewSections(c, a.names) \subseteq {c} \X Names
    BY <1>4, <2>1 DEF NewQuestions, NewSections
  <2>3. /\ questions' = Insert(NewQuestions(c, a.rows, a.at, a.fits), Kept(c, questions))
        /\ sections' = Insert(NewSections(c, a.names), Kept(c, sections))
        /\ Commit(c)
    BY <1>9 DEF CommitImport
  <2>4. /\ DOMAIN questions' = DOMAIN NewQuestions(c, a.rows, a.at, a.fits)
                                 \cup DOMAIN Kept(c, questions)
        /\ DOMAIN sections' = DOMAIN NewSections(c, a.names) \cup DOMAIN Kept(c, sections)
    BY <2>3, InsertedRows
  <2>5. /\ DOMAIN Kept(c, questions) \subseteq DOMAIN questions
        /\ DOMAIN Kept(c, sections) \subseteq DOMAIN sections
    BY KeptRows
  <2> QED BY <1>1, <1>2, <2>2, <2>3, <2>4, <2>5, CommitGrows
<1>10. CASE WriteSettings(c) \/ RecordUpload(c) \/ DeleteFile(c)
  BY <1>1, <1>2, <1>10, CommitGrows DEF WriteSettings, RecordUpload, DeleteFile, Store
<1> QED BY <1>5, <1>6, <1>7, <1>8, <1>9, <1>10

LEMMA StepShape ==
    ASSUME Typing, NEW c \in Calls, Handler(c) \/ Drop(c)
    PROVE  (Quiet(c) \/ Grows(c)) /\ calls[c] # Done
<1>1. CallsOK
  BY DEF Typing
<1>2. calls[c].pc # "done" => calls[c] # Done
  BY DEF Done
<1>3. InFlight(c) => calls[c].pc # "done"
  BY DEF InFlight
<1>4. CASE \/ createSection(c) \/ updateSection(c) \/ removeSection(c)
           \/ createQuestion(c) \/ updateQuestion(c) \/ duplicateQuestion(c)
           \/ removeQuestion(c) \/ reorderQuestions(c)
           \/ importCsv(c) \/ replaceDocument(c) \/ replaceBands(c)
           \/ removeMedia(c) \/ update(c)
  BY <1>1, <1>2, <1>4, ChecksAreQuiet
<1>5. CASE \/ WriteQuestion(c) \/ DeleteOptions(c) \/ IssueShift(c) \/ LockShift(c)
           \/ IssueClear(c) \/ LockClear(c)
           \/ upload(c) \/ UndoUpload(c) \/ DeleteRecord(c) \/ Drop(c)
  BY <1>1, <1>2, <1>5, StatementsAreQuiet
<1>6. CASE \/ InsertSection(c) \/ RenameSection(c) \/ DeleteSection(c)
           \/ InsertQuestion(c) \/ WriteOptions(c) \/ InsertCopy(c)
           \/ DeleteQuestion(c) \/ WritePlaces(c) \/ CommitImport(c) \/ WriteSettings(c)
           \/ RecordUpload(c) \/ DeleteFile(c)
  BY <1>2, <1>3, <1>6, WritesGrow
<1> QED BY <1>4, <1>5, <1>6 DEF Handler

LEMMA Overtaking ==
    ASSUME CallsOK, CallsOK', NEW c \in Calls, calls[c] # Done, Quiet(c) \/ Grows(c)
    PROVE  /\ \A d \in Calls : Overtaken(d) \in Nat /\ Overtaken(d)' \in Nat
           /\ \A d \in Calls : InFlight(d) => Overtaken(d) <= Cardinality(Calls) - 1
           /\ \A d \in Calls : InFlight(d)' => Overtaken(d)' <= Cardinality(Calls) - 1
           /\ \A d \in Calls \ {c} : InFlight(d) =>
                 /\ Quiet(c) => Overtaken(d) <= Overtaken(d)'
                 /\ Grows(c) => Overtaken(d) + 1 <= Overtaken(d)'
<1> DEFINE D == {d \in Calls : calls[d] = Done}
           E == {d \in Calls : calls'[d] = Done}
<1>1. IsFiniteSet(D) /\ IsFiniteSet(E) /\ Cardinality(D) \in Nat /\ Cardinality(E) \in Nat
  BY NamesAssumption, FS_Subset, FS_CardinalityType
<1>2. \A d \in Calls : /\ Overtaken(d) = IF calls[d].alone THEN 0 ELSE Cardinality(D)
                       /\ Overtaken(d)' = IF calls'[d].alone THEN 0 ELSE Cardinality(E)
  BY DEF Overtaken
<1>3. \A d \in Calls : InFlight(d) => d \notin D
  BY DEF InFlight, Done
<1>4. \A d \in Calls : InFlight(d)' => d \notin E
  BY DEF InFlight, Done
<1>5. ASSUME NEW S \in SUBSET Calls, NEW d \in Calls, d \notin S
      PROVE  Cardinality(S) <= Cardinality(Calls) - 1
  <2>1. S \subseteq Calls \ {d}
    BY <1>5
  <2>2. IsFiniteSet(Calls \ {d}) /\ Cardinality(Calls \ {d}) = Cardinality(Calls) - 1
    BY NamesAssumption, FS_RemoveElement
  <2> QED BY <2>1, <2>2, FS_Subset
<1>6. D \subseteq Calls /\ E \subseteq Calls /\ 0 <= Cardinality(Calls) - 1
  BY RowsAreFinite
<1>7. D \subseteq E
  BY DEF Quiet, Grows, InFlight, Done
<1>8. Cardinality(D) <= Cardinality(E)
  BY <1>1, <1>7, FS_Subset
<1>9. ASSUME Grows(c) PROVE Cardinality(D) + 1 <= Cardinality(E)
  <2>1. c \in E /\ c \notin D
    BY <1>9 DEF Grows
  <2>2. D \subseteq E \ {c}
    BY <1>7, <2>1
  <2>3. IsFiniteSet(E \ {c}) /\ Cardinality(E \ {c}) = Cardinality(E) - 1
    BY <1>1, <2>1, FS_RemoveElement
  <2>4. Cardinality(D) <= Cardinality(E \ {c})
    BY <2>2, <2>3, FS_Subset
  <2> QED BY <1>1, <2>3, <2>4
<1> HIDE DEF D, E
<1>10. \A d \in Calls : Overtaken(d) \in Nat /\ Overtaken(d)' \in Nat
  BY <1>1, <1>2
<1>11. \A d \in Calls : InFlight(d) => Overtaken(d) <= Cardinality(Calls) - 1
  BY <1>2, <1>3, <1>5, <1>6
<1>12. \A d \in Calls : InFlight(d)' => Overtaken(d)' <= Cardinality(Calls) - 1
  BY <1>2, <1>4, <1>5, <1>6
<1>13. ASSUME NEW d \in Calls \ {c}, InFlight(d)
       PROVE  /\ Quiet(c) => Overtaken(d) <= Overtaken(d)'
              /\ Grows(c) => Overtaken(d) + 1 <= Overtaken(d)'
  <2>1. Quiet(c) => calls'[d].alone = calls[d].alone
    BY DEF Quiet
  <2>2. CallOK(calls[d]) /\ calls[d] \notin {Waiting, Done}
    BY <1>13, InFlightTyped
  <2>3. Grows(c) => ~calls'[d].alone
    <3>1. PICK k : k = calls[d]
      OBVIOUS
    <3>2. [k EXCEPT !.alone = FALSE].alone = FALSE
      <4>1. k = [pc |-> k.pc, op |-> k.op, arg |-> k.arg, alone |-> k.alone,
                 want |-> k.want, held |-> k.held]
        BY <2>2, <3>1, CallTyped
      <4> QED BY <4>1
    <3> QED BY <1>13, <3>1, <3>2 DEF Grows
  <2> QED BY <1>1, <1>2, <1>8, <1>9, <2>1, <2>3
<1> QED BY <1>10, <1>11, <1>12, <1>13

\* A bound a call relies on grows with what overtakes it.
LEMMA BoundGrows ==
    ASSUME NEW o \in Nat, NEW p \in Nat, NEW r \in Nat, NEW M \in Nat,
           NEW x \in Int, NEW y \in Int, x <= M + o * r,
           (o <= p /\ y <= x) \/ (o + 1 <= p /\ y <= x + r)
    PROVE  y <= M + p * r
<1>1. CASE o <= p /\ y <= x
  BY <1>1, TimesGrows
<1>2. CASE o + 1 <= p /\ y <= x + r
  <2>1. (o + 1) * r <= p * r /\ (o + 1) * r \in Nat /\ p * r \in Nat
    BY <1>2, TimesGrows
  <2>2. (o + 1) * r = o * r + r /\ o * r \in Nat
    BY OneMoreTime
  <2> QED BY <1>2, <2>1, <2>2
<1> QED BY <1>1, <1>2

\* What c spares of a table, or the whole of it, after a step of another call.
LEMMA TablesGrow ==
    ASSUME Typing, Typing', NEW c \in Calls, Quiet(c) \/ Grows(c), NEW S
    PROVE  /\ Cardinality(DOMAIN questions \ S) \in Nat
           /\ Cardinality(DOMAIN questions' \ S) \in Nat
           /\ Quiet(c) => Cardinality(DOMAIN questions' \ S) <= Cardinality(DOMAIN questions \ S)
           /\ Grows(c) => Cardinality(DOMAIN questions' \ S)
                            <= Cardinality(DOMAIN questions \ S) + MaxRows
           /\ Cardinality(DOMAIN sections \ S) \in Nat
           /\ Cardinality(DOMAIN sections' \ S) \in Nat
           /\ Quiet(c) => Cardinality(DOMAIN sections' \ S) <= Cardinality(DOMAIN sections \ S)
           /\ Grows(c) => Cardinality(DOMAIN sections' \ S)
                            <= Cardinality(DOMAIN sections \ S) + Cardinality(Names)
<1> DEFINE newQ == {c} \X (1..MaxRows)
           newS == {c} \X Names
<1>1. /\ IsFiniteSet(newQ) /\ Cardinality(newQ) = MaxRows
      /\ IsFiniteSet(newS) /\ Cardinality(newS) = Cardinality(Names)
      /\ IsFiniteSet(Qids) /\ IsFiniteSet(Sids)
  BY RowsAreFinite
<1>2. DOMAIN questions \subseteq Qids /\ DOMAIN sections \subseteq Sids
  BY DEF Typing, TypeOK
<1>3. DOMAIN questions' \subseteq Qids /\ DOMAIN sections' \subseteq Sids
  BY DEF Typing, TypeOK
<1>4. /\ IsFiniteSet(DOMAIN questions \ S) /\ IsFiniteSet(DOMAIN questions' \ S)
      /\ IsFiniteSet(DOMAIN sections \ S) /\ IsFiniteSet(DOMAIN sections' \ S)
  <2>1. \A T, U : IsFiniteSet(U) /\ T \subseteq U => IsFiniteSet(T \ S)
    BY FS_Subset, FS_Difference
  <2> QED BY <1>1, <1>2, <1>3, <2>1
<1>5. /\ Cardinality(DOMAIN questions \ S) \in Nat /\ Cardinality(DOMAIN questions' \ S) \in Nat
      /\ Cardinality(DOMAIN sections \ S) \in Nat /\ Cardinality(DOMAIN sections' \ S) \in Nat
  BY <1>4, FS_CardinalityType
<1>6. ASSUME Quiet(c)
      PROVE  /\ Cardinality(DOMAIN questions' \ S) <= Cardinality(DOMAIN questions \ S)
             /\ Cardinality(DOMAIN sections' \ S) <= Cardinality(DOMAIN sections \ S)
  <2>1. questions' = questions /\ sections' = sections
    BY <1>6 DEF Quiet, structure
  <2> QED BY <1>5, <2>1
<1>7. ASSUME Grows(c)
      PROVE  /\ Cardinality(DOMAIN questions' \ S) <= Cardinality(DOMAIN questions \ S) + MaxRows
             /\ Cardinality(DOMAIN sections' \ S)
                    <= Cardinality(DOMAIN sections \ S) + Cardinality(Names)
  <2>1. /\ DOMAIN questions' \ S \subseteq (DOMAIN questions \ S) \cup newQ
        /\ DOMAIN sections' \ S \subseteq (DOMAIN sections \ S) \cup newS
    BY <1>7 DEF Grows
  <2> HIDE DEF newQ, newS
  <2> QED BY <1>1, <1>4, <2>1, AddedRows
<1> QED BY <1>5, <1>6, <1>7

-----------------------------------------------------------------------------
(* What the others rely on stays.                                           *)

LEMMA OthersFields ==
    ASSUME Typing, NEW c \in Calls, Quiet(c) \/ Grows(c), NEW d \in Calls \ {c}, InFlight(d)'
    PROVE  /\ InFlight(d)
           /\ calls'[d].pc = calls[d].pc /\ calls'[d].op = calls[d].op
           /\ calls'[d].arg = calls[d].arg
           /\ calls'[d].want = calls[d].want /\ calls'[d].held = calls[d].held
           /\ calls'[d].alone => calls[d].alone /\ Quiet(c)
<1>1. CASE Quiet(c)
  BY <1>1 DEF Quiet, InFlight
<1>2. CASE Grows(c)
  <2>1. InFlight(d)
    BY <1>2 DEF Grows, InFlight
  <2>2. calls'[d] = [calls[d] EXCEPT !.alone = FALSE]
    BY <1>2, <2>1 DEF Grows
  <2>3. CallOK(calls[d]) /\ calls[d] \notin {Waiting, Done}
    BY <2>1, InFlightTyped DEF Typing
  <2>4. PICK k : k = calls[d]
    OBVIOUS
  <2>5. k = [pc |-> k.pc, op |-> k.op, arg |-> k.arg, alone |-> k.alone,
             want |-> k.want, held |-> k.held]
    BY <2>3, <2>4, CallTyped
  <2>6. LET n == [k EXCEPT !.alone = FALSE] IN
        /\ n.pc = k.pc /\ n.op = k.op /\ n.arg = k.arg
        /\ n.want = k.want /\ n.held = k.held /\ n.alone = FALSE
    BY <2>5
  <2> QED BY <2>1, <2>2, <2>4, <2>6
<1> QED BY <1>1, <1>2

LEMMA RoomStays ==
    ASSUME Typing, Typing', NEW c \in Calls, calls[c] # Done, Quiet(c) \/ Grows(c),
           NEW d \in Calls \ {c}, InFlight(d)
    PROVE  /\ \A n \in Nat : Count + n <= MaxQuestions + Overtaken(d) * MaxRows
                                => Count' + n <= MaxQuestions + Overtaken(d)' * MaxRows
           /\ \A n \in Nat : SectionCount + n <= MaxSections + Overtaken(d) * Cardinality(Names)
                                => SectionCount' + n
                                       <= MaxSections + Overtaken(d)' * Cardinality(Names)
           /\ \A S : Cardinality(DOMAIN questions \ S) <= Overtaken(d) * MaxRows
                        => Cardinality(DOMAIN questions' \ S) <= Overtaken(d)' * MaxRows
           /\ \A S : Cardinality(DOMAIN sections \ S) <= Overtaken(d) * Cardinality(Names)
                        => Cardinality(DOMAIN sections' \ S) <= Overtaken(d)' * Cardinality(Names)
<1>1. /\ Overtaken(d) \in Nat /\ Overtaken(d)' \in Nat
      /\ Quiet(c) => Overtaken(d) <= Overtaken(d)'
      /\ Grows(c) => Overtaken(d) + 1 <= Overtaken(d)'
  BY Overtaking DEF Typing
<1>2. PICK o, p : o = Overtaken(d) /\ p = Overtaken(d)'
  OBVIOUS
<1>3. /\ MaxRows \in Nat /\ Cardinality(Names) \in Nat
      /\ MaxQuestions \in Nat /\ MaxSections \in Nat
      /\ o \in Nat /\ p \in Nat
  BY <1>1, <1>2, BoundsAssumption, RowsAreFinite
\* x becomes y in the step.
<1> DEFINE Grown(x, y, r) == (o <= p /\ y <= x) \/ (o + 1 <= p /\ y <= x + r)
<1>4. ASSUME NEW S
      PROVE  /\ Cardinality(DOMAIN questions \ S) \in Nat
             /\ Cardinality(DOMAIN questions' \ S) \in Nat
             /\ Cardinality(DOMAIN sections \ S) \in Nat
             /\ Cardinality(DOMAIN sections' \ S) \in Nat
             /\ Grown(Cardinality(DOMAIN questions \ S), Cardinality(DOMAIN questions' \ S), MaxRows)
             /\ Grown(Cardinality(DOMAIN sections \ S), Cardinality(DOMAIN sections' \ S),
                      Cardinality(Names))
  <2>1. CASE Quiet(c)
    BY <1>1, <1>2, <2>1, TablesGrow
  <2>2. CASE Grows(c)
    BY <1>1, <1>2, <2>2, TablesGrow
  <2> QED BY <2>1, <2>2
<1>5. /\ Count \in Nat /\ Count' \in Nat /\ Grown(Count, Count', MaxRows)
      /\ SectionCount \in Nat /\ SectionCount' \in Nat
      /\ Grown(SectionCount, SectionCount', Cardinality(Names))
  <2>1. PICK S : S = {}
    OBVIOUS
  <2>2. \A T : T \ S = T
    BY <2>1
  <2> HIDE DEF Grown
  <2> QED BY <1>4, <2>2 DEF Count, SectionCount
<1>6. ASSUME NEW r \in Nat, NEW M \in Nat, NEW x \in Nat, NEW y \in Nat, NEW n \in Nat,
             Grown(x, y, r), x + n <= M + o * r
      PROVE  y + n <= M + p * r
  <2>1. PICK v \in Nat, w \in Nat : v = x + n /\ w = y + n
    OBVIOUS
  <2>2. /\ v <= M + o * r
        /\ (o <= p /\ w <= v) \/ (o + 1 <= p /\ w <= v + r)
    BY <1>6, <2>1
  <2> QED BY <1>3, <2>1, <2>2, BoundGrows
<1>7. ASSUME NEW r \in Nat, NEW x \in Nat, NEW y \in Nat, Grown(x, y, r), x <= o * r
      PROVE  y <= p * r
  <2>1. o * r \in Nat /\ p * r \in Nat
    BY <1>3
  <2>2. x <= 0 + o * r
    BY <1>7, <2>1
  <2>3. y <= 0 + p * r
    BY <1>3, <1>7, <2>2, BoundGrows
  <2> QED BY <2>1, <2>3
<1> HIDE DEF Grown
<1>8. \A n \in Nat : Count + n <= MaxQuestions + o * MaxRows
                         => Count' + n <= MaxQuestions + p * MaxRows
  BY <1>3, <1>5, <1>6
<1>9. \A n \in Nat : SectionCount + n <= MaxSections + o * Cardinality(Names)
                         => SectionCount' + n <= MaxSections + p * Cardinality(Names)
  BY <1>3, <1>5, <1>6
<1>10. \A S : Cardinality(DOMAIN questions \ S) <= o * MaxRows
                 => Cardinality(DOMAIN questions' \ S) <= p * MaxRows
  BY <1>3, <1>4, <1>7
<1>11. \A S : Cardinality(DOMAIN sections \ S) <= o * Cardinality(Names)
                 => Cardinality(DOMAIN sections' \ S) <= p * Cardinality(Names)
  BY <1>3, <1>4, <1>7
<1> QED BY <1>2, <1>8, <1>9, <1>10, <1>11

LEMMA NamesCounted ==
    ASSUME NEW names \in SUBSET Names
    PROVE  /\ IsFiniteSet(names) /\ Cardinality(names) \in Nat
           /\ Cardinality(names) <= Cardinality(Names)
BY NamesAssumption, FS_Subset, FS_CardinalityType

LEMMA RowsOfTables ==
    /\ RowsOf("questions") = DOMAIN questions
    /\ RowsOf("sections") = DOMAIN sections
    /\ RowsOf("bands") = DOMAIN bands
    /\ RowsOf("questions")' = DOMAIN questions'
    /\ RowsOf("sections")' = DOMAIN sections'
    /\ RowsOf("bands")' = DOMAIN bands'
BY DEF RowsOf

LEMMA OthersTrue ==
    ASSUME Typing, Typing', NEW c \in Calls, calls[c] # Done, Quiet(c) \/ Grows(c),
           NEW d \in Calls \ {c}, InFlight(d)', CallTrue(d)
    PROVE  CallTrue(d)'
<1>1. /\ InFlight(d)
      /\ calls'[d].pc = calls[d].pc /\ calls'[d].op = calls[d].op
      /\ calls'[d].arg = calls[d].arg
      /\ calls'[d].want = calls[d].want /\ calls'[d].held = calls[d].held
      /\ calls'[d].alone => calls[d].alone /\ Quiet(c)
  BY OthersFields
<1>2. Quiet(c) => /\ method' = method /\ questions' = questions
                  /\ sections' = sections /\ bands' = bands
  BY DEF Quiet, structure
<1> DEFINE a == calls[d].arg
<1>3. /\ \A n \in Nat : Count + n <= MaxQuestions + Overtaken(d) * MaxRows
                          => Count' + n <= MaxQuestions + Overtaken(d)' * MaxRows
      /\ \A n \in Nat : SectionCount + n <= MaxSections + Overtaken(d) * Cardinality(Names)
                          => SectionCount' + n <= MaxSections + Overtaken(d)' * Cardinality(Names)
      /\ \A S : Cardinality(DOMAIN questions \ S) <= Overtaken(d) * MaxRows
                  => Cardinality(DOMAIN questions' \ S) <= Overtaken(d)' * MaxRows
      /\ \A S : Cardinality(DOMAIN sections \ S) <= Overtaken(d) * Cardinality(Names)
                  => Cardinality(DOMAIN sections' \ S) <= Overtaken(d)' * Cardinality(Names)
  BY <1>1, RoomStays
<1>4. CallOK(calls[d]) /\ calls[d] \notin {Waiting, Done}
  BY <1>1, InFlightTyped DEF Typing
<1>5. calls[d].op = "createSection" \/ calls[d].op = "import" => Cardinality(a.names) \in Nat
  <2>1. CASE calls[d].op = "createSection"
    <3>1. calls[d] \in Call({"checked"}, "createSection", [names : {{n} : n \in Names}])
      BY <1>4, <2>1, KindOf
    <3>2. a \in [names : {{n} : n \in Names}]
      BY <3>1, CallFields
    <3> QED BY <3>2, NamesCounted
  <2>2. CASE calls[d].op = "import"
    <3>1. a.names \in SUBSET Names
      BY <1>1, <2>2, WriteArgsOf DEF Typing
    <3> QED BY <3>1, NamesCounted
  <2> QED BY <2>1, <2>2
<1>6. calls[d].op = "import" => a.rows \in Nat
  BY <1>1, WriteArgsOf, BoundsAssumption DEF Typing
<1>7. SectionCallTrue(d)'
  <2>1. SectionCallTrue(d)
    BY DEF CallTrue
  <2>2. calls[d].op = "createSection" =>
           SectionCount' + Cardinality(a.names) <= MaxSections + Overtaken(d)' * Cardinality(Names)
    BY <1>3, <1>5, <2>1 DEF SectionCallTrue, RoomForSections
  <2> QED BY <1>1, <1>2, <2>1, <2>2 DEF SectionCallTrue, RoomForSections, NameFree
<1>8. QuestionCallTrue(d)'
  <2>1. QuestionCallTrue(d)
    BY DEF CallTrue
  <2>2. calls[d].op \in {"createQuestion", "duplicateQuestion"} =>
           Count' + 1 <= MaxQuestions + Overtaken(d)' * MaxRows
    BY <1>3, <2>1 DEF QuestionCallTrue, RoomForQuestions
  <2>3. calls[d].op = "duplicateQuestion" => CopyTrue(d)'
    BY <1>1, <1>2, <2>1 DEF QuestionCallTrue, CopyTrue, Later
  <2>4. calls[d].op = "updateQuestion" => SaveTrue(d)'
    BY <1>1, <1>2, <2>1 DEF QuestionCallTrue, SaveTrue
  <2>5. calls[d].op = "createQuestion" => Appends(d)' /\ (calls'[d].alone => a.fits = method')
    BY <1>1, <1>2, <2>1 DEF QuestionCallTrue, Appends
  <2>6. calls[d].op = "reorderQuestions" =>
           IsInjective(a.place) /\ (calls'[d].alone => DOMAIN a.place = DOMAIN questions')
    BY <1>1, <1>2, <2>1 DEF QuestionCallTrue
  <2> QED BY <1>1, <2>2, <2>3, <2>4, <2>5, <2>6 DEF QuestionCallTrue, RoomForQuestions
<1>9. ImportCallTrue(d)'
  <2>1. ImportCallTrue(d)
    BY DEF CallTrue
  <2>2. \A table : Reached(d, table)' <=> Reached(d, table)
    BY <1>1 DEF Reached
  <2> DEFINE gone(table) == IF calls[d].pc = "issued" /\ Head(calls[d].arg.clears) = table
                              THEN calls[d].want ELSE calls[d].held
  <2>3. /\ Spared(d, "questions") = DOMAIN questions \ gone("questions")
        /\ Spared(d, "questions")' = DOMAIN questions' \ gone("questions")
        /\ Spared(d, "sections") = DOMAIN sections \ gone("sections")
        /\ Spared(d, "sections")' = DOMAIN sections' \ gone("sections")
        /\ Spared(d, "bands") = DOMAIN bands \ gone("bands")
        /\ Spared(d, "bands")' = DOMAIN bands' \ gone("bands")
    BY <1>1 DEF Spared, RowsOf
  <2> HIDE DEF gone
  <2>4. QuestionsSpared(d) => QuestionsSpared(d)'
    BY <1>3, <2>3 DEF QuestionsSpared
  <2>5. Cardinality(Spared(d, "sections")) <= Overtaken(d) * Cardinality(Names)
           => Cardinality(Spared(d, "sections")') <= Overtaken(d)' * Cardinality(Names)
    BY <1>3, <2>3
  <2>6. calls'[d].alone /\ Spared(d, "bands") = {} => Spared(d, "bands")' = {}
    BY <1>1, <1>2, <2>3
  <2>7. calls[d].op = "import" =>
           /\ SectionCount + Cardinality(a.names) <= MaxSections + Overtaken(d) * Cardinality(Names)
                => SectionCount' + Cardinality(a.names)
                      <= MaxSections + Overtaken(d)' * Cardinality(Names)
           /\ Count + a.rows <= MaxQuestions + Overtaken(d) * MaxRows
                => Count' + a.rows <= MaxQuestions + Overtaken(d)' * MaxRows
    BY <1>3, <1>5, <1>6
  <2>8. /\ NameFree(d, a.names, {}) => (calls'[d].alone =>
                \A s \in DOMAIN sections' \ {} : sections'[s] \notin a.names)
        /\ Appends(d) => Appends(d)'
        /\ (calls[d].alone => a.fits = method) => (calls'[d].alone => a.fits = method')
    BY <1>1, <1>2 DEF NameFree, Appends
  <2>9. CASE calls[d].op = "import"
    <3>1. /\ RoomForSections(d, a.names) /\ NameFree(d, a.names, {}) /\ a.bands = {}
          /\ calls[d].alone => a.fits = method
          /\ Reached(d, "questions") =>
                QuestionsSpared(d) \/ (RoomForQuestions(d, a.rows) /\ Appends(d))
      BY <2>1, <2>9 DEF ImportCallTrue
    <3>2. SectionCount' + Cardinality(a.names) <= MaxSections + Overtaken(d)' * Cardinality(Names)
      BY <3>1, <2>7, <2>9 DEF RoomForSections
    <3>3. Reached(d, "questions")' =>
             \/ QuestionsSpared(d)'
             \/ Count' + a.rows <= MaxQuestions + Overtaken(d)' * MaxRows /\ Appends(d)'
      BY <3>1, <2>2, <2>4, <2>7, <2>8, <2>9 DEF RoomForQuestions
    <3> QED BY <1>1, <2>8, <2>9, <3>1, <3>2, <3>3
            DEF ImportCallTrue, RoomForSections, RoomForQuestions, NameFree
  <2>10. CASE calls[d].op \in {"document", "bands"}
    BY <1>1, <2>1, <2>2, <2>4, <2>5, <2>6, <2>10 DEF ImportCallTrue
  <2>11. CASE calls[d].op \notin {"import", "document", "bands"}
    BY <1>1, <2>11 DEF ImportCallTrue
  <2> QED BY <2>9, <2>10, <2>11
<1>10. SettingsTrue(d)'
  BY <1>1, <1>2 DEF CallTrue, SettingsTrue
<1> QED BY <1>7, <1>8, <1>9, <1>10 DEF CallTrue

-----------------------------------------------------------------------------
(* What the call itself relies on holds when it has checked, and stays.     *)

LEMMA CheckGives ==
    ASSUME CallsOK, NEW c \in Calls, NEW op, NEW arg, Check(c, op, arg)
    PROVE  /\ calls'[c].pc = "checked" /\ calls'[c].op = op /\ calls'[c].arg = arg
           /\ calls'[c].alone = TRUE /\ calls'[c].held = {} /\ calls'[c].want = {}
           /\ Overtaken(c)' = 0
           /\ method' = method /\ questions' = questions
           /\ sections' = sections /\ bands' = bands
           /\ Count' = Count /\ SectionCount' = SectionCount
<1>1. calls'[c] = Planned(op, arg)
  BY DEF Check, CallsOK
<1>2. /\ calls'[c].pc = "checked" /\ calls'[c].op = op /\ calls'[c].arg = arg
      /\ calls'[c].alone = TRUE /\ calls'[c].held = {} /\ calls'[c].want = {}
  BY <1>1 DEF Planned
<1>3. method' = method /\ questions' = questions /\ sections' = sections /\ bands' = bands
  BY DEF Check, test
<1>4. Overtaken(c)' = 0
  BY <1>2 DEF Overtaken
<1> QED BY <1>2, <1>3, <1>4 DEF Count, SectionCount

LEMMA LimitsTimesNothing ==
    /\ MaxQuestions \in Nat /\ MaxSections \in Nat
    /\ MaxQuestions + 0 * MaxRows = MaxQuestions
    /\ MaxSections + 0 * Cardinality(Names) = MaxSections
BY BoundsAssumption, RowsAreFinite

LEMMA SectionChecksTrue ==
    ASSUME Typing, NEW c \in Calls, createSection(c) \/ updateSection(c) \/ removeSection(c)
    PROVE  CallTrue(c)'
<1>1. SectionCount \in Nat /\ CallsOK
  BY TypingParts, PlacesKnown DEF Typing
<1>2. CASE createSection(c)
  <2>1. PICK n \in Names : /\ SectionCount < MaxSections
                           /\ assertSectionNameFree(n, {})
                           /\ Check(c, "createSection", [names |-> {n}])
    BY <1>2 DEF createSection
  <2>2. /\ calls'[c].op = "createSection" /\ calls'[c].arg = [names |-> {n}]
        /\ Overtaken(c)' = 0 /\ sections' = sections /\ SectionCount' = SectionCount
    BY <1>1, <2>1, CheckGives
  <2>3. calls'[c].arg.names = {n} /\ Cardinality({n}) = 1
    BY <2>2, FS_Singleton
  <2>4. SectionCount' + Cardinality(calls'[c].arg.names)
            <= MaxSections + Overtaken(c)' * Cardinality(Names)
    BY <1>1, <2>1, <2>2, <2>3, LimitsTimesNothing
  <2>5. \A s \in DOMAIN sections' \ {} : sections'[s] \notin calls'[c].arg.names
    BY <2>1, <2>2, <2>3 DEF assertSectionNameFree
  <2>6. SectionCallTrue(c)'
    BY <2>2, <2>4, <2>5 DEF SectionCallTrue, RoomForSections, NameFree
  <2> QED BY <2>2, <2>6 DEF CallTrue, QuestionCallTrue, ImportCallTrue, SettingsTrue
<1>3. CASE updateSection(c)
  <2>1. PICK s \in DOMAIN sections, n \in Names :
            /\ assertSectionNameFree(n, {s})
            /\ Check(c, "updateSection", [section |-> s, name |-> n])
    BY <1>3 DEF updateSection
  <2>2. /\ calls'[c].op = "updateSection" /\ calls'[c].arg = [section |-> s, name |-> n]
        /\ sections' = sections
    BY <1>1, <2>1, CheckGives
  <2>3. SectionCallTrue(c)'
    BY <2>1, <2>2 DEF SectionCallTrue, NameFree, assertSectionNameFree
  <2> QED BY <2>2, <2>3 DEF CallTrue, QuestionCallTrue, ImportCallTrue, SettingsTrue
<1>4. CASE removeSection(c)
  <2>1. PICK s \in DOMAIN sections : Check(c, "removeSection", [section |-> s])
    BY <1>4 DEF removeSection
  <2>2. calls'[c].op = "removeSection"
    BY <1>1, <2>1, CheckGives
  <2> QED BY <2>2 DEF CallTrue, SectionCallTrue, QuestionCallTrue, ImportCallTrue, SettingsTrue
<1> QED BY <1>2, <1>3, <1>4

LEMMA QuestionChecksTrue ==
    ASSUME Typing, NEW c \in Calls,
           \/ createQuestion(c) \/ updateQuestion(c) \/ duplicateQuestion(c)
           \/ removeQuestion(c) \/ reorderQuestions(c)
    PROVE  CallTrue(c)'
<1>1. /\ Count \in Nat /\ CallsOK
      /\ \A q \in DOMAIN questions : questions[q].order < nextOrder
  BY TypingParts, PlacesKnown DEF Typing
<1>2. CASE createQuestion(c)
  <2>1. Count < MaxQuestions /\ Check(c, "createQuestion", [at |-> nextOrder, fits |-> method])
    BY <1>2 DEF createQuestion
  <2>2. /\ calls'[c].op = "createQuestion"
        /\ calls'[c].arg = [at |-> nextOrder, fits |-> method]
        /\ Overtaken(c)' = 0 /\ questions' = questions /\ method' = method /\ Count' = Count
    BY <1>1, <2>1, CheckGives
  <2>3. Count' + 1 <= MaxQuestions + Overtaken(c)' * MaxRows
    BY <1>1, <2>1, <2>2, LimitsTimesNothing
  <2>4. Appends(c)' /\ calls'[c].arg.fits = method'
    BY <1>1, <2>2 DEF Appends
  <2>5. QuestionCallTrue(c)'
    BY <2>2, <2>3, <2>4 DEF QuestionCallTrue, RoomForQuestions
  <2> QED BY <2>2, <2>5 DEF CallTrue, SectionCallTrue, ImportCallTrue, SettingsTrue
<1>3. CASE updateQuestion(c)
  <2>1. PICK arg : Check(c, "updateQuestion", arg) /\ arg.fits = method
    BY <1>3 DEF updateQuestion
  <2>2. /\ calls'[c].op = "updateQuestion" /\ calls'[c].arg = arg
        /\ calls'[c].pc = "checked" /\ method' = method
    BY <1>1, <2>1, CheckGives
  <2>3. QuestionCallTrue(c)'
    BY <2>1, <2>2 DEF QuestionCallTrue, SaveTrue
  <2> QED BY <2>2, <2>3 DEF CallTrue, SectionCallTrue, ImportCallTrue, SettingsTrue
<1>4. CASE duplicateQuestion(c)
  <2>1. PICK q \in DOMAIN questions :
            /\ Count < MaxQuestions
            /\ Check(c, "duplicateQuestion",
                     [at |-> questions[q].order, fits |-> questions[q].fits])
    BY <1>4 DEF duplicateQuestion
  <2>2. /\ calls'[c].op = "duplicateQuestion" /\ calls'[c].pc = "checked" /\ calls'[c].held = {}
        /\ calls'[c].arg = [at |-> questions[q].order, fits |-> questions[q].fits]
        /\ Overtaken(c)' = 0 /\ questions' = questions /\ Count' = Count
    BY <1>1, <2>1, CheckGives
  <2>3. Count' + 1 <= MaxQuestions + Overtaken(c)' * MaxRows
    BY <1>1, <2>1, <2>2, LimitsTimesNothing
  <2>4. CopyTrue(c)'
    BY <2>2 DEF CopyTrue
  <2>5. QuestionCallTrue(c)'
    BY <2>2, <2>3, <2>4 DEF QuestionCallTrue, RoomForQuestions
  <2> QED BY <2>2, <2>5 DEF CallTrue, SectionCallTrue, ImportCallTrue, SettingsTrue
<1>5. CASE removeQuestion(c)
  <2>1. PICK q \in DOMAIN questions : Check(c, "removeQuestion", [q |-> q])
    BY <1>5 DEF removeQuestion
  <2>2. calls'[c].op = "removeQuestion"
    BY <1>1, <2>1, CheckGives
  <2> QED BY <2>2 DEF CallTrue, SectionCallTrue, QuestionCallTrue, ImportCallTrue, SettingsTrue
<1>6. CASE reorderQuestions(c)
  <2>1. PICK place \in Bijection(DOMAIN questions, 0..(Count - 1)) :
            Check(c, "reorderQuestions", [place |-> place])
    BY <1>6 DEF reorderQuestions
  <2>2. DOMAIN place = DOMAIN questions /\ IsInjective(place)
    <3>1. PICK T : T = 0..(Count - 1)
      OBVIOUS
    <3>2. place \in Bijection(DOMAIN questions, T)
      BY <3>1, Zenon
    <3>3. /\ DOMAIN place = DOMAIN questions
          /\ \A x, y \in DOMAIN questions : place[x] = place[y] => x = y
      BY <3>2, PlaceIs
    <3> QED BY <3>3 DEF IsInjective
  <2>3. /\ calls'[c].op = "reorderQuestions" /\ calls'[c].arg = [place |-> place]
        /\ questions' = questions
    BY <1>1, <2>1, CheckGives
  <2>4. QuestionCallTrue(c)'
    BY <2>2, <2>3 DEF QuestionCallTrue
  <2> QED BY <2>3, <2>4 DEF CallTrue, SectionCallTrue, ImportCallTrue, SettingsTrue
<1> QED BY <1>2, <1>3, <1>4, <1>5, <1>6

LEMMA ImportChecksTrue ==
    ASSUME Typing, NEW c \in Calls, importCsv(c) \/ replaceDocument(c) \/ replaceBands(c)
    PROVE  CallTrue(c)'
<1>1. /\ Count \in Nat /\ SectionCount \in Nat /\ CallsOK
      /\ \A q \in DOMAIN questions : questions[q].order < nextOrder
  BY TypingParts, PlacesKnown DEF Typing
<1>2. CASE importCsv(c)
  <2>1. PICK rows \in 1..MaxRows, names \in SUBSET Names, replace \in BOOLEAN :
            /\ questionTotal(rows, replace) <= MaxQuestions
            /\ SectionCount + Cardinality(Missing(names)) <= MaxSections
            /\ Check(c, "import",
                 [rows |-> rows, names |-> Missing(names), bands |-> {},
                  fits |-> method, at |-> IF replace THEN 0 ELSE nextOrder,
                  clears |-> IF replace THEN <<"questions">> ELSE <<>>])
    BY <1>2 DEF importCsv
  <2> DEFINE arg == [rows |-> rows, names |-> Missing(names), bands |-> {},
                     fits |-> method, at |-> IF replace THEN 0 ELSE nextOrder,
                     clears |-> IF replace THEN <<"questions">> ELSE <<>>]
  <2>2. /\ arg.rows = rows /\ arg.names = Missing(names) /\ arg.fits = method /\ arg.bands = {}
        /\ arg.at = IF replace THEN 0 ELSE nextOrder
        /\ arg.clears = IF replace THEN <<"questions">> ELSE <<>>
    OBVIOUS
  <2>3. Check(c, "import", arg)
    BY <2>1
  <2> HIDE DEF arg
  <2>4. /\ calls'[c].op = "import" /\ calls'[c].pc = "checked" /\ calls'[c].arg = arg
        /\ Overtaken(c)' = 0 /\ method' = method /\ questions' = questions
        /\ sections' = sections /\ Count' = Count /\ SectionCount' = SectionCount
    BY <1>1, <2>3, CheckGives
  <2>5. Missing(names) \in SUBSET Names
    BY DEF Missing
  <2>6. SectionCount' + Cardinality(calls'[c].arg.names)
            <= MaxSections + Overtaken(c)' * Cardinality(Names)
    BY <1>1, <2>1, <2>2, <2>4, LimitsTimesNothing
  <2>7. \A s \in DOMAIN sections' \ {} : sections'[s] \notin calls'[c].arg.names
    BY <2>2, <2>4 DEF Missing, Range
  <2>8. CASE replace
    <3>1. calls'[c].arg.clears = <<"questions">>
      BY <2>2, <2>4, <2>8
    <3>2. 1 \in DOMAIN <<"questions">> /\ <<"questions">>[1] = "questions"
      OBVIOUS
    <3>3. ~Reached(c, "questions")'
      BY <2>4, <3>1, <3>2 DEF Reached
    <3>4. ImportCallTrue(c)'
      BY <2>2, <2>4, <2>6, <2>7, <3>3 DEF ImportCallTrue, RoomForSections, NameFree
    <3> QED BY <2>4, <3>4 DEF CallTrue, SectionCallTrue, QuestionCallTrue, SettingsTrue
  <2>9. CASE ~replace
    <3>1. Count' + calls'[c].arg.rows <= MaxQuestions + Overtaken(c)' * MaxRows
      BY <1>1, <2>1, <2>2, <2>4, <2>9, LimitsTimesNothing DEF questionTotal
    <3>2. Appends(c)'
      BY <1>1, <2>2, <2>4, <2>9 DEF Appends
    <3>3. ImportCallTrue(c)'
      BY <2>2, <2>4, <2>6, <2>7, <3>1, <3>2
         DEF ImportCallTrue, RoomForSections, RoomForQuestions, NameFree
    <3> QED BY <2>4, <3>3 DEF CallTrue, SectionCallTrue, QuestionCallTrue, SettingsTrue
  <2> QED BY <2>8, <2>9
<1>3. CASE replaceDocument(c)
  <2>1. PICK arg : Check(c, "document", arg) /\ arg.clears = <<"questions", "sections", "bands">>
    BY <1>3 DEF replaceDocument
  <2>2. calls'[c].op = "document" /\ calls'[c].pc = "checked" /\ calls'[c].arg = arg
    BY <1>1, <2>1, CheckGives
  <2>3. LET s == <<"questions", "sections", "bands">> IN
        /\ 1 \in DOMAIN s /\ 2 \in DOMAIN s /\ 3 \in DOMAIN s
        /\ s[1] = "questions" /\ s[2] = "sections" /\ s[3] = "bands"
    OBVIOUS
  <2>4. ~Reached(c, "questions")' /\ ~Reached(c, "sections")' /\ ~Reached(c, "bands")'
    BY <2>1, <2>2, <2>3 DEF Reached
  <2> QED BY <2>2, <2>4
          DEF CallTrue, SectionCallTrue, QuestionCallTrue, ImportCallTrue, SettingsTrue
<1>4. CASE replaceBands(c)
  <2>1. PICK arg : Check(c, "bands", arg) /\ arg.clears = <<"bands">>
    BY <1>4 DEF replaceBands
  <2>2. calls'[c].op = "bands" /\ calls'[c].pc = "checked" /\ calls'[c].arg = arg
    BY <1>1, <2>1, CheckGives
  <2>3. 1 \in DOMAIN <<"bands">> /\ <<"bands">>[1] = "bands"
    OBVIOUS
  <2>4. ~Reached(c, "bands")'
    BY <2>1, <2>2, <2>3 DEF Reached
  <2> QED BY <2>2, <2>4
          DEF CallTrue, SectionCallTrue, QuestionCallTrue, ImportCallTrue, SettingsTrue
<1> QED BY <1>2, <1>3, <1>4

LEMMA OtherChecksTrue ==
    ASSUME Typing, NEW c \in Calls, removeMedia(c) \/ update(c) \/ upload(c)
    PROVE  CallTrue(c)'
<1>1. CallsOK
  BY DEF Typing
<1>2. CASE removeMedia(c)
  <2>1. PICK f \in media.records : Check(c, "removeMedia", [file |-> f])
    BY <1>2 DEF removeMedia
  <2>2. calls'[c].op = "removeMedia"
    BY <1>1, <2>1, CheckGives
  <2> QED BY <2>2 DEF CallTrue, SectionCallTrue, QuestionCallTrue, ImportCallTrue, SettingsTrue
<1>3. CASE update(c)
  <2>1. PICK m \in Methods : /\ \A q \in DOMAIN questions : questions[q].fits = m
                             /\ Check(c, "update", [method |-> m])
    BY <1>3 DEF update
  <2>2. calls'[c].op = "update" /\ calls'[c].arg = [method |-> m] /\ questions' = questions
    BY <1>1, <2>1, CheckGives
  <2>3. SettingsTrue(c)'
    BY <2>1, <2>2 DEF SettingsTrue
  <2> QED BY <2>2, <2>3 DEF CallTrue, SectionCallTrue, QuestionCallTrue, ImportCallTrue
<1>4. CASE upload(c)
  <2>1. calls'[c].op = "upload"
    BY <1>1, <1>4 DEF upload, Planned, CallsOK
  <2> QED BY <2>1 DEF CallTrue, SectionCallTrue, QuestionCallTrue, ImportCallTrue, SettingsTrue
<1> QED BY <1>2, <1>3, <1>4

LEMMA StatementKeeps ==
    ASSUME CallsOK, NEW c \in Calls, Quiet(c), InFlight(c), InFlight(c)',
           calls'[c].alone = calls[c].alone
    PROVE  /\ Overtaken(c)' = Overtaken(c)
           /\ method' = method /\ questions' = questions
           /\ sections' = sections /\ bands' = bands
           /\ Count' = Count /\ SectionCount' = SectionCount
<1>1. {d \in Calls : calls'[d] = Done} = {d \in Calls : calls[d] = Done}
  BY DEF Quiet, InFlight, Done
<1>2. Overtaken(c)' = Overtaken(c)
  BY <1>1 DEF Overtaken
<1> QED BY <1>2 DEF Quiet, structure, Count, SectionCount

LEMMA SaveStepsTrue ==
    ASSUME Typing, NEW c \in Calls, CallTrue(c), InFlight(c)',
           WriteQuestion(c) \/ DeleteOptions(c)
    PROVE  CallTrue(c)'
<1>1. InFlight(c) /\ calls[c].op = "updateQuestion" /\ CallsOK /\ c \in DOMAIN calls
  BY DEF WriteQuestion, DeleteOptions, At, Typing, CallsOK
<1> DEFINE a == calls[c].arg
<1>2. calls[c] \in Call({"checked", "held", "deleted"}, "updateQuestion", UpdateArgs)
  BY <1>1, InFlightTyped, KindOf
<1>3. SaveTrue(c)
  BY <1>1 DEF CallTrue, QuestionCallTrue
<1>4. CASE WriteQuestion(c)
  <2>1. CASE Fail(c)
    BY <1>1, <2>1 DEF Fail, InFlight, Done
  <2>2. CASE Lock(c, "held", {a.q})
    <3>1. /\ calls'[c].op = calls[c].op /\ calls'[c].arg = calls[c].arg
          /\ calls'[c].alone = calls[c].alone /\ calls'[c].pc = "held" /\ method' = method
      BY <1>1, <1>2, <2>2 DEF Lock, Call, test
    <3>2. SaveTrue(c)'
      BY <1>3, <3>1 DEF SaveTrue
    <3> QED BY <1>1, <3>1, <3>2
            DEF CallTrue, SectionCallTrue, QuestionCallTrue, ImportCallTrue, SettingsTrue
  <2> QED BY <1>4, <2>1, <2>2 DEF WriteQuestion
<1>5. CASE DeleteOptions(c)
  <2> DEFINE left == questions[a.q].options \ Others(c)
  <2>1. left \subseteq a.kept
    BY DEF Others
  <2>2. calls' = [calls EXCEPT ![c].pc = "deleted", ![c].arg.left = left] /\ UNCHANGED test
    BY <1>5 DEF DeleteOptions
  <2> HIDE DEF left
  <2>3. /\ calls'[c].op = calls[c].op /\ calls'[c].arg.left = left
        /\ calls'[c].arg.kept = a.kept /\ calls'[c].arg.fits = a.fits
        /\ calls'[c].alone = calls[c].alone /\ method' = method
    BY <1>1, <1>2, <2>2 DEF Call, UpdateArgs, test
  <2>4. SaveTrue(c)'
    BY <1>3, <2>1, <2>3 DEF SaveTrue
  <2> QED BY <1>1, <2>3, <2>4
          DEF CallTrue, SectionCallTrue, QuestionCallTrue, ImportCallTrue, SettingsTrue
<1> QED BY <1>4, <1>5

LEMMA ShiftStepsTrue ==
    ASSUME Typing, NEW c \in Calls, CallTrue(c), InFlight(c)', IssueShift(c) \/ LockShift(c)
    PROVE  CallTrue(c)'
<1>1. InFlight(c) /\ calls[c].op = "duplicateQuestion" /\ CallsOK /\ c \in DOMAIN calls
  BY DEF IssueShift, LockShift, At, Typing, CallsOK
<1> DEFINE a == calls[c].arg
<1>2. calls[c] \in Call({"checked", "issued", "held"}, "duplicateQuestion",
                        [at : Nat, fits : Methods])
  BY <1>1, InFlightTyped, KindOf
<1>3. CopyTrue(c) /\ RoomForQuestions(c, 1)
  BY <1>1 DEF CallTrue, QuestionCallTrue
<1>4. Quiet(c)
  BY <1>1, StatementsAreQuiet
<1>5. /\ calls'[c].op = calls[c].op /\ calls'[c].arg = calls[c].arg
      /\ calls'[c].alone = calls[c].alone
      /\ IssueShift(c) => /\ calls[c].pc = "checked" /\ calls'[c].pc = "issued"
                          /\ calls'[c].held = calls[c].held
                          /\ calls'[c].want = Later(DOMAIN questions, a.at)
      /\ LockShift(c) => /\ calls[c].pc = "issued" /\ calls'[c].pc = "held"
                         /\ calls'[c].held = calls[c].held \cup Later(calls[c].want, a.at)
  <2>1. CASE IssueShift(c)
    <3>1. PICK rows : rows = Later(DOMAIN questions, a.at)
      OBVIOUS
    <3>2. calls' = [calls EXCEPT ![c].pc = "issued", ![c].want = rows] /\ calls[c].pc = "checked"
      BY <2>1, <3>1 DEF IssueShift, Issue, At
    <3>3. /\ calls'[c].op = calls[c].op /\ calls'[c].arg = calls[c].arg
          /\ calls'[c].alone = calls[c].alone /\ calls'[c].pc = "issued"
          /\ calls'[c].held = calls[c].held /\ calls'[c].want = rows
      BY <1>1, <1>2, <3>2 DEF Call
    <3>4. ~LockShift(c)
      BY <3>2 DEF LockShift, At
    <3> QED BY <3>1, <3>2, <3>3, <3>4
  <2>2. CASE LockShift(c)
    <3>1. PICK rows : rows = Later(calls[c].want, a.at)
      OBVIOUS
    <3>2. /\ calls' = [calls EXCEPT ![c].pc = "held", ![c].held = @ \cup rows, ![c].want = {}]
          /\ calls[c].pc = "issued"
      BY <2>2, <3>1 DEF LockShift, Lock, At
    <3>3. /\ calls'[c].op = calls[c].op /\ calls'[c].arg = calls[c].arg
          /\ calls'[c].alone = calls[c].alone /\ calls'[c].pc = "held"
          /\ calls'[c].held = calls[c].held \cup rows
      BY <1>1, <1>2, <3>2 DEF Call
    <3>4. ~IssueShift(c)
      BY <3>2 DEF IssueShift, At
    <3> QED BY <3>1, <3>2, <3>3, <3>4
  <2> QED BY <2>1, <2>2
<1>6. Overtaken(c)' = Overtaken(c) /\ questions' = questions /\ Count' = Count
  BY <1>1, <1>4, <1>5, StatementKeeps
<1>7. CopyTrue(c)'
  <2>1. calls'[c].pc # "held" => calls'[c].held = {}
    BY <1>3, <1>5 DEF CopyTrue
  <2>2. ASSUME calls'[c].alone
        PROVE  /\ \E q \in DOMAIN questions' :
                     questions'[q].order = calls'[c].arg.at /\ questions'[q].fits = calls'[c].arg.fits
               /\ calls'[c].pc = "issued" =>
                     calls'[c].want = {q \in DOMAIN questions' \cap DOMAIN questions' :
                                         questions'[q].order > calls'[c].arg.at}
               /\ calls'[c].pc = "held" =>
                     calls'[c].held = {q \in DOMAIN questions' \cap DOMAIN questions' :
                                         questions'[q].order > calls'[c].arg.at}
    <3>1. /\ \E q \in DOMAIN questions :
                questions[q].order = a.at /\ questions[q].fits = a.fits
          /\ calls[c].pc = "issued" => calls[c].want = Later(DOMAIN questions, a.at)
          /\ calls[c].pc # "held" => calls[c].held = {}
      BY <1>3, <1>5, <2>2 DEF CopyTrue
    <3>2. CASE IssueShift(c)
      BY <1>5, <1>6, <3>1, <3>2 DEF Later
    <3>3. CASE LockShift(c)
      <4>1. calls'[c].held = Later(Later(DOMAIN questions, a.at), a.at)
        BY <1>5, <3>1, <3>3
      <4>2. Later(Later(DOMAIN questions, a.at), a.at) = Later(DOMAIN questions, a.at)
        BY DEF Later
      <4> QED BY <1>5, <1>6, <3>1, <3>3, <4>1, <4>2 DEF Later
    <3> QED BY <3>2, <3>3
  <2> QED BY <2>1, <2>2 DEF CopyTrue, Later
<1>8. QuestionCallTrue(c)'
  BY <1>1, <1>3, <1>5, <1>6, <1>7 DEF QuestionCallTrue, RoomForQuestions
<1> QED BY <1>1, <1>5, <1>8 DEF CallTrue, SectionCallTrue, ImportCallTrue, SettingsTrue

\* The tables left, when one more is emptied.
LEMMA PlansInOrder ==
    ASSUME NEW op \in {"import", "document", "bands"}, NEW clears \in Plans(op), clears # <<>>
    PROVE  \A table : (\A i \in DOMAIN Tail(clears) : Tail(clears)[i] # table) =>
              Head(clears) = table \/ \A i \in DOMAIN clears : clears[i] # table
<1>1. clears \in Seq({"questions", "sections", "bands"})
  <2>1. clears \in {<<"questions", "sections", "bands">>, <<"sections", "bands">>,
                    <<"bands">>, <<"questions">>}
    <3>1. CASE op = "import"
      BY <3>1, Zenon DEF Plans
    <3>2. CASE op = "document"
      BY <3>2, Zenon DEF Plans
    <3>3. CASE op = "bands"
      BY <3>3, Zenon DEF Plans
    <3> QED BY <3>1, <3>2, <3>3
  <2>2. /\ <<"questions", "sections", "bands">> \in Seq({"questions", "sections", "bands"})
        /\ <<"sections", "bands">> \in Seq({"questions", "sections", "bands"})
        /\ <<"bands">> \in Seq({"questions", "sections", "bands"})
        /\ <<"questions">> \in Seq({"questions", "sections", "bands"})
    OBVIOUS
  <2> QED BY <2>1, <2>2, Zenon
<1>2. \A i \in DOMAIN clears : i = 1 \/ (i - 1 \in DOMAIN Tail(clears) /\ Tail(clears)[i - 1] = clears[i])
  BY <1>1
<1>3. Head(clears) = clears[1]
  BY <1>1
<1> QED BY <1>2, <1>3

\* A step between the statements of a transaction leaves as few rows to be
\* spared as there were, of the tables it has come to.
LEMMA ImportStaysTrue ==
    ASSUME Typing, Typing', NEW c \in Calls, Quiet(c), InFlight(c), InFlight(c)', CallTrue(c),
           calls[c].op \in {"import", "document", "bands"},
           calls'[c].op = calls[c].op, calls'[c].alone = calls[c].alone,
           calls'[c].arg.rows = calls[c].arg.rows, calls'[c].arg.names = calls[c].arg.names,
           calls'[c].arg.fits = calls[c].arg.fits, calls'[c].arg.at = calls[c].arg.at,
           calls'[c].arg.bands = calls[c].arg.bands,
           \A table \in {"questions", "sections", "bands"} : Reached(c, table)' =>
              \/ Spared(c, table)' = {}
              \/ Reached(c, table) /\ Spared(c, table)' \subseteq Spared(c, table)
    PROVE  CallTrue(c)'
<1>1. /\ Overtaken(c)' = Overtaken(c)
      /\ method' = method /\ questions' = questions
      /\ sections' = sections /\ bands' = bands
      /\ Count' = Count /\ SectionCount' = SectionCount
  BY StatementKeeps DEF Typing
<1>2. Overtaken(c) \in Nat /\ MaxRows \in Nat /\ Cardinality(Names) \in Nat
  <2>1. calls[c] # Done
    BY DEF InFlight, Done
  <2> QED BY <2>1, Overtaking, BoundsAssumption, RowsAreFinite DEF Typing
<1>3. 0 <= Overtaken(c) * MaxRows /\ 0 <= Overtaken(c) * Cardinality(Names)
  BY <1>2, TimesGrows
<1>4. ImportCallTrue(c)
  BY DEF CallTrue
<1>5. IsFiniteSet(Spared(c, "questions")) /\ IsFiniteSet(Spared(c, "sections"))
  <2>1. IsFiniteSet(DOMAIN questions) /\ IsFiniteSet(DOMAIN sections)
    BY TypingParts, PlacesKnown
  <2>2. Spared(c, "questions") \subseteq DOMAIN questions /\ Spared(c, "sections") \subseteq DOMAIN sections
    BY RowsOfTables DEF Spared
  <2> QED BY <2>1, <2>2, FS_Subset
<1>6. \A T, U, n : IsFiniteSet(T) /\ n \in Nat /\ Cardinality(T) <= n
                     /\ (U = {} \/ U \subseteq T) => Cardinality(U) <= n
  BY FS_Subset, FS_EmptySet, FS_CardinalityType
<1>7. Reached(c, "questions")' =>
         \/ Cardinality(Spared(c, "questions")') <= Overtaken(c) * MaxRows
         \/ Reached(c, "questions") /\ Spared(c, "questions")' \subseteq Spared(c, "questions")
  BY <1>3, FS_EmptySet
<1>8. Overtaken(c) * MaxRows \in Nat /\ Overtaken(c) * Cardinality(Names) \in Nat
  BY <1>2, TimesGrows
<1>9. QuestionsSpared(c) /\ Spared(c, "questions")' \subseteq Spared(c, "questions")
         => Cardinality(Spared(c, "questions")') <= Overtaken(c) * MaxRows
  BY <1>5, <1>6, <1>8 DEF QuestionsSpared
<1>10. Reached(c, "sections")' =>
         \/ Cardinality(Spared(c, "sections")') <= Overtaken(c) * Cardinality(Names)
         \/ Reached(c, "sections") /\ Spared(c, "sections")' \subseteq Spared(c, "sections")
  BY <1>3, FS_EmptySet
<1>11. Cardinality(Spared(c, "sections")) <= Overtaken(c) * Cardinality(Names)
          /\ Spared(c, "sections")' \subseteq Spared(c, "sections")
         => Cardinality(Spared(c, "sections")') <= Overtaken(c) * Cardinality(Names)
  BY <1>5, <1>6, <1>8
<1>12. CASE calls[c].op = "import"
  <2>1. /\ RoomForSections(c, calls[c].arg.names) /\ NameFree(c, calls[c].arg.names, {})
        /\ calls[c].arg.bands = {} /\ (calls[c].alone => calls[c].arg.fits = method)
        /\ Reached(c, "questions") =>
              QuestionsSpared(c) \/ (RoomForQuestions(c, calls[c].arg.rows) /\ Appends(c))
    BY <1>4, <1>12 DEF ImportCallTrue
  <2>2. Appends(c) => Appends(c)'
    BY <1>1 DEF Appends
  <2>3. Reached(c, "questions")' =>
           \/ QuestionsSpared(c)'
           \/ Count' + calls'[c].arg.rows <= MaxQuestions + Overtaken(c)' * MaxRows /\ Appends(c)'
    BY <1>1, <1>7, <1>9, <2>1, <2>2 DEF QuestionsSpared, RoomForQuestions
  <2>4. ImportCallTrue(c)'
    BY <1>1, <1>12, <2>1, <2>3 DEF ImportCallTrue, RoomForSections, RoomForQuestions, NameFree
  <2> QED BY <1>12, <2>4 DEF CallTrue, SectionCallTrue, QuestionCallTrue, SettingsTrue
<1>13. CASE calls[c].op \in {"document", "bands"}
  <2>1. /\ calls[c].op = "document" =>
              /\ Reached(c, "questions") => QuestionsSpared(c)
              /\ Reached(c, "sections") =>
                    Cardinality(Spared(c, "sections")) <= Overtaken(c) * Cardinality(Names)
        /\ Reached(c, "bands") => (calls[c].alone => Spared(c, "bands") = {})
    BY <1>4, <1>13 DEF ImportCallTrue
  <2>2. calls[c].op = "document" => (Reached(c, "questions")' => QuestionsSpared(c)')
    BY <1>1, <1>7, <1>9, <2>1 DEF QuestionsSpared
  <2>3. calls[c].op = "document" => (Reached(c, "sections")' =>
             Cardinality(Spared(c, "sections")') <= Overtaken(c)' * Cardinality(Names))
    BY <1>1, <1>10, <1>11, <2>1
  <2>4. Reached(c, "bands")' => (calls'[c].alone => Spared(c, "bands")' = {})
    BY <2>1
  <2>5. ImportCallTrue(c)'
    BY <1>13, <2>2, <2>3, <2>4 DEF ImportCallTrue
  <2> QED BY <1>13, <2>5 DEF CallTrue, SectionCallTrue, QuestionCallTrue, SettingsTrue
<1> QED BY <1>12, <1>13

LEMMA ClearStepsTrue ==
    ASSUME Typing, NEW c \in Calls, CallTrue(c), InFlight(c)', IssueClear(c) \/ LockClear(c)
    PROVE  CallTrue(c)'
<1>1. /\ InFlight(c) /\ calls[c].op \in {"import", "document", "bands"} /\ CallsOK
      /\ c \in DOMAIN calls
  BY DEF IssueClear, LockClear, Writes, Typing, CallsOK
<1> DEFINE op == calls[c].op
           a == calls[c].arg
           clears == a.clears
<1>2. Typing'
  BY ClearStepsTyped
<1>3. Quiet(c)
  BY <1>1, StatementsAreQuiet
<1>4. /\ clears \in Plans(op)
      /\ calls[c].pc = "issued" => clears # <<>>
  BY <1>1, WriteArgsOf
<1>5. clears # <<>>
  BY <1>4 DEF IssueClear, LockClear, Writes
<1>6. \A table : (\A i \in DOMAIN Tail(clears) : Tail(clears)[i] # table) =>
          Head(clears) = table \/ \A i \in DOMAIN clears : clears[i] # table
  BY <1>1, <1>4, <1>5, PlansInOrder
<1>7. PICK k : k = calls[c]
  OBVIOUS
<1>8. /\ k = [pc |-> k.pc, op |-> k.op, arg |-> k.arg, alone |-> k.alone,
              want |-> k.want, held |-> k.held]
      /\ \E rows, names, plans : k.arg \in WriteArgs(rows, names, plans)
  <2>1. CallOK(k) /\ k \notin {Waiting, Done}
    BY <1>1, <1>7, InFlightTyped
  <2>2. PICK rows, names : k \in Write(op, rows, names)
    BY <1>1, <1>7, WriteKind
  <2>3. k.arg \in WriteArgs(rows, names, Plans(op))
    BY <1>1, <2>2, WriteFields
  <2> QED BY <2>1, <2>3, CallTyped
<1>9. questions' = questions /\ sections' = sections /\ bands' = bands
  BY <1>3 DEF Quiet, structure
<1>10. \A table \in {"questions", "sections", "bands"} : RowsOf(table)' = RowsOf(table)
  BY <1>9, RowsOfTables
<1>11. CASE IssueClear(c)
  <2>1. PICK rows : rows = RowsOf(Head(clears))
    OBVIOUS
  <2>2. calls' = [calls EXCEPT ![c].pc = "issued", ![c].want = rows] /\ calls[c].pc = "checked"
    BY <1>11, <2>1 DEF IssueClear, Issue, Writes
  <2>3. /\ calls'[c].op = op /\ calls'[c].arg = a /\ calls'[c].alone = calls[c].alone
        /\ calls'[c].pc = "issued" /\ calls'[c].held = calls[c].held /\ calls'[c].want = rows
    BY <1>1, <1>7, <1>8, <2>2
  <2>4. ASSUME NEW table \in {"questions", "sections", "bands"}, Reached(c, table)'
        PROVE  \/ Spared(c, table)' = {}
               \/ Reached(c, table) /\ Spared(c, table)' \subseteq Spared(c, table)
    <3>1. \A i \in DOMAIN Tail(clears) : Tail(clears)[i] # table
      BY <2>3, <2>4 DEF Reached
    <3>2. CASE Head(clears) = table
      <4>1. Spared(c, table)' = RowsOf(table) \ rows
        BY <1>10, <2>3, <3>2 DEF Spared
      <4> QED BY <2>1, <3>2, <4>1
    <3>3. CASE Head(clears) # table
      <4>1. Reached(c, table)
        BY <1>6, <2>2, <3>1, <3>3 DEF Reached
      <4>2. Spared(c, table)' = RowsOf(table) \ calls[c].held
        BY <1>10, <2>3, <3>3 DEF Spared
      <4>3. Spared(c, table) = RowsOf(table) \ calls[c].held
        BY <2>2 DEF Spared
      <4> QED BY <4>1, <4>2, <4>3
    <3> QED BY <3>2, <3>3
  <2> QED BY <1>1, <1>2, <1>3, <2>3, <2>4, ImportStaysTrue
<1>12. CASE LockClear(c)
  <2>1. PICK rows, rest : rows = calls[c].want \cap RowsOf(Head(clears)) /\ rest = Tail(clears)
    OBVIOUS
  <2>2. /\ calls' = [calls EXCEPT ![c].pc = "checked", ![c].want = {},
                                  ![c].held = @ \cup rows, ![c].arg.clears = rest]
        /\ calls[c].pc = "issued"
    BY <1>12, <2>1 DEF LockClear, Writes
  <2>3. calls'[c] = [k EXCEPT !.pc = "checked", !.want = {}, !.held = @ \cup rows,
                              !.arg.clears = rest]
    BY <1>1, <1>7, <2>2
  <2>4. /\ calls'[c].op = op /\ calls'[c].alone = calls[c].alone
        /\ calls'[c].pc = "checked" /\ calls'[c].held = calls[c].held \cup rows
        /\ calls'[c].arg = [k.arg EXCEPT !.clears = rest]
    BY <1>7, <1>8, <2>3
  <2>5. /\ calls'[c].arg.rows = a.rows /\ calls'[c].arg.names = a.names
        /\ calls'[c].arg.fits = a.fits /\ calls'[c].arg.at = a.at
        /\ calls'[c].arg.bands = a.bands /\ calls'[c].arg.clears = rest
    BY <1>7, <1>8, <2>4 DEF WriteArgs
  <2>6. ASSUME NEW table \in {"questions", "sections", "bands"}, Reached(c, table)'
        PROVE  Reached(c, table) /\ Spared(c, table)' \subseteq Spared(c, table)
    <3>1. Reached(c, table)
      BY <2>1, <2>2, <2>4, <2>5, <2>6 DEF Reached
    <3>2. Spared(c, table)' = RowsOf(table) \ (calls[c].held \cup rows)
      BY <1>10, <2>4 DEF Spared
    <3>3. Spared(c, table) = IF Head(clears) = table THEN RowsOf(table) \ calls[c].want
                                                     ELSE RowsOf(table) \ calls[c].held
      BY <2>2 DEF Spared
    <3> QED BY <2>1, <3>1, <3>2, <3>3
  <2> QED BY <1>1, <1>2, <1>3, <2>4, <2>5, <2>6, ImportStaysTrue
<1> QED BY <1>11, <1>12

\* What is left of a removed file asks nothing of the structure.
LEMMA RemovalTrue ==
    ASSUME Typing, NEW c \in Calls, DeleteRecord(c), InFlight(c)'
    PROVE  CallTrue(c)'
<1>1. calls[c].op = "removeMedia" /\ CallsOK
  BY TypingParts DEF DeleteRecord, At, Typing
<1>2. CASE calls' = [calls EXCEPT ![c] = Done]
  BY <1>1, <1>2 DEF InFlight, Done, CallsOK
<1>3. CASE calls' = [calls EXCEPT ![c].pc = "recordGone"]
  <2>1. CallOK(calls[c]) /\ calls[c] \notin {Waiting, Done}
    BY <1>1, InFlightTyped DEF DeleteRecord, At
  <2>2. calls[c] = [pc |-> calls[c].pc, op |-> calls[c].op, arg |-> calls[c].arg,
                    alone |-> calls[c].alone, want |-> calls[c].want, held |-> calls[c].held]
    BY <2>1, CallTyped
  <2>3. calls'[c].op = "removeMedia"
    BY <1>1, <1>3, <2>2 DEF CallsOK
  <2> QED BY <2>3 DEF CallTrue, SectionCallTrue, QuestionCallTrue, ImportCallTrue, SettingsTrue
<1> QED BY <1>2, <1>3 DEF DeleteRecord, Fail

\* A call that writes the structure, or ends any other way, is over.
LEMMA EndedCalls ==
    ASSUME CallsOK, NEW c \in Calls,
           \/ InsertSection(c) \/ RenameSection(c) \/ DeleteSection(c)
           \/ InsertQuestion(c) \/ WriteOptions(c) \/ InsertCopy(c)
           \/ DeleteQuestion(c) \/ WritePlaces(c) \/ CommitImport(c) \/ WriteSettings(c)
           \/ RecordUpload(c) \/ UndoUpload(c) \/ DeleteFile(c) \/ Drop(c)
    PROVE  calls'[c] = Done
<1>1. Commit(c) => calls'[c] = Done
  BY CommitChanges
<1>2. calls' = [calls EXCEPT ![c] = Done] => calls'[c] = Done
  BY DEF CallsOK
<1> QED BY <1>1, <1>2 DEF InsertSection, RenameSection, DeleteSection, InsertQuestion,
      WriteOptions, InsertCopy, DeleteQuestion, WritePlaces, CommitImport, WriteSettings,
      RecordUpload, UndoUpload, DeleteFile, Drop, Fail

LEMMA CallsStayTrue ==
    ASSUME Typing, CallsTrue, NEW c \in Calls, Handler(c) \/ Drop(c)
    PROVE  CallsTrue'
<1>1. Typing' /\ (Quiet(c) \/ Grows(c)) /\ calls[c] # Done /\ CallsOK
  BY StepTyped, StepShape DEF Typing
<1>2. ASSUME NEW d \in Calls \ {c}, InFlight(d)'
      PROVE  CallTrue(d)'
  <2>1. InFlight(d)
    BY <1>1, <1>2, OthersFields
  <2> QED BY <1>1, <1>2, <2>1, OthersTrue DEF CallsTrue
<1>3. InFlight(c) => CallTrue(c)
  BY DEF CallsTrue
<1>4. ASSUME InFlight(c)'
      PROVE  CallTrue(c)'
  <2>1. calls'[c] # Done
    BY <1>4 DEF InFlight, Done
  <2>2. CASE createSection(c) \/ updateSection(c) \/ removeSection(c)
    BY <2>2, SectionChecksTrue
  <2>3. CASE \/ createQuestion(c) \/ updateQuestion(c) \/ duplicateQuestion(c)
             \/ removeQuestion(c) \/ reorderQuestions(c)
    BY <2>3, QuestionChecksTrue
  <2>4. CASE importCsv(c) \/ replaceDocument(c) \/ replaceBands(c)
    BY <2>4, ImportChecksTrue
  <2>5. CASE removeMedia(c) \/ update(c) \/ upload(c)
    BY <2>5, OtherChecksTrue
  <2>6. CASE WriteQuestion(c) \/ DeleteOptions(c)
    BY <1>3, <1>4, <2>6, SaveStepsTrue DEF WriteQuestion, DeleteOptions, At
  <2>7. CASE IssueShift(c) \/ LockShift(c)
    BY <1>3, <1>4, <2>7, ShiftStepsTrue DEF IssueShift, LockShift, At
  <2>8. CASE IssueClear(c) \/ LockClear(c)
    BY <1>3, <1>4, <2>8, ClearStepsTrue DEF IssueClear, LockClear, Writes
  <2>9. CASE DeleteRecord(c)
    BY <1>4, <2>9, RemovalTrue
  <2> QED BY <1>1, <2>1, <2>2, <2>3, <2>4, <2>5, <2>6, <2>7, <2>8, <2>9, EndedCalls DEF Handler
<1> QED BY <1>2, <1>4 DEF CallsTrue

-----------------------------------------------------------------------------
(* Files and their records.                                                 *)

\* Only the calls that upload or remove a file touch the stored files.
LEMMA OthersLeaveMedia ==
    ASSUME NEW c \in Calls, Handler(c) \/ Drop(c),
           ~upload(c), ~RecordUpload(c), ~UndoUpload(c), ~DeleteRecord(c), ~DeleteFile(c)
    PROVE  media' = media
BY DEF Handler, Drop, Fail, Check, Issue, Lock, test,
       createSection, InsertSection, updateSection, RenameSection, removeSection, DeleteSection,
       createQuestion, InsertQuestion, updateQuestion, WriteQuestion, DeleteOptions, WriteOptions,
       duplicateQuestion, IssueShift, LockShift, InsertCopy, removeQuestion, DeleteQuestion,
       reorderQuestions, WritePlaces, importCsv, replaceDocument, replaceBands,
       IssueClear, LockClear, CommitImport, removeMedia, update, WriteSettings

\* The statements of a transaction don't touch its kind.
LEMMA KindStays ==
    ASSUME Typing, NEW c \in Calls,
           \/ WriteQuestion(c) \/ DeleteOptions(c) \/ IssueShift(c) \/ LockShift(c)
           \/ IssueClear(c) \/ LockClear(c)
    PROVE  calls'[c] = Done \/ calls'[c].op \notin {"upload", "removeMedia"}
<1>1. CallsOK /\ InFlight(c)
  BY TypingParts
  DEF Typing, WriteQuestion, DeleteOptions, IssueShift, LockShift, IssueClear, LockClear, At, Writes
<1>2. CallOK(calls[c]) /\ calls[c] \notin {Waiting, Done}
  BY <1>1, InFlightTyped
<1>3. calls[c] = [pc |-> calls[c].pc, op |-> calls[c].op, arg |-> calls[c].arg,
                  alone |-> calls[c].alone, want |-> calls[c].want, held |-> calls[c].held]
  BY <1>2, CallTyped
<1>4. CASE WriteQuestion(c) \/ DeleteOptions(c)
  BY <1>1, <1>3, <1>4 DEF WriteQuestion, DeleteOptions, At, Lock, Fail, CallsOK
<1>5. CASE IssueShift(c) \/ LockShift(c)
  BY <1>1, <1>3, <1>5 DEF IssueShift, LockShift, At, Lock, Issue, CallsOK
<1>6. CASE IssueClear(c) \/ LockClear(c)
  BY <1>1, <1>3, <1>6 DEF IssueClear, LockClear, Writes, Issue, CallsOK
<1> QED BY <1>4, <1>5, <1>6

\* What MediaTrue asks of a call, but of its own step.
LEMMA OthersInMedia ==
    ASSUME Typing, NEW c \in Calls, Handler(c) \/ Drop(c)
    PROVE  /\ calls[c] # Done
           /\ \A d \in Calls : calls[d] = Done => calls'[d] = Done
           /\ \A d \in Calls \ {c} :
                 /\ At(d, "upload", "checked")' => At(d, "upload", "checked")
                 /\ InFlight(d)' =>
                       /\ InFlight(d)
                       /\ calls'[d].pc = calls[d].pc /\ calls'[d].op = calls[d].op
                       /\ calls'[d].arg = calls[d].arg
<1>1. (Quiet(c) \/ Grows(c)) /\ calls[c] # Done
  BY StepShape
<1>2. ASSUME NEW d \in Calls, calls[d] = Done
      PROVE  calls'[d] = Done
  BY <1>1, <1>2 DEF Quiet, Grows, InFlight, Done
<1>3. ASSUME NEW d \in Calls \ {c}, InFlight(d)'
      PROVE  /\ InFlight(d)
             /\ calls'[d].pc = calls[d].pc /\ calls'[d].op = calls[d].op
             /\ calls'[d].arg = calls[d].arg
  BY <1>1, <1>3, OthersFields
<1> QED BY <1>1, <1>2, <1>3 DEF At

\* A check of the structure, or a step of one, leaves the files alone.
LEMMA StructureKeepsMedia ==
    ASSUME Typing, MediaTrue, NEW c \in Calls, Handler(c) \/ Drop(c),
           ~upload(c), ~RecordUpload(c), ~UndoUpload(c), ~DeleteRecord(c), ~DeleteFile(c)
    PROVE  MediaTrue'
<1>1. media' = media /\ CallsOK
  BY OthersLeaveMedia DEF Typing
<1>0. \A op, arg : Check(c, op, arg) =>
         calls'[c].pc = "checked" /\ calls'[c].op = op /\ calls'[c].arg = arg
  BY <1>1, CheckGives
<1>2. calls'[c] = Done \/ calls'[c].op \notin {"upload", "removeMedia"} \/ removeMedia(c)
  <2>1. \A op, arg : Check(c, op, arg) /\ op \notin {"upload", "removeMedia"} =>
           calls'[c].op \notin {"upload", "removeMedia"}
    BY <1>0
  <2>2. CASE createSection(c) \/ updateSection(c) \/ removeSection(c)
    <3>1. CASE createSection(c)
      BY <2>1, <3>1 DEF createSection
    <3>2. CASE updateSection(c)
      BY <2>1, <3>2 DEF updateSection
    <3>3. CASE removeSection(c)
      BY <2>1, <3>3 DEF removeSection
    <3> QED BY <2>2, <3>1, <3>2, <3>3
  <2>3. CASE \/ createQuestion(c) \/ updateQuestion(c) \/ duplicateQuestion(c)
             \/ removeQuestion(c) \/ reorderQuestions(c)
    <3>1. CASE createQuestion(c)
      BY <2>1, <3>1 DEF createQuestion
    <3>2. CASE updateQuestion(c)
      BY <2>1, <3>2 DEF updateQuestion
    <3>3. CASE duplicateQuestion(c)
      BY <2>1, <3>3 DEF duplicateQuestion
    <3>4. CASE removeQuestion(c)
      BY <2>1, <3>4 DEF removeQuestion
    <3>5. CASE reorderQuestions(c)
      BY <2>1, <3>5 DEF reorderQuestions
    <3> QED BY <2>3, <3>1, <3>2, <3>3, <3>4, <3>5
  <2>4. CASE importCsv(c) \/ replaceDocument(c) \/ replaceBands(c) \/ update(c)
    <3>1. CASE importCsv(c)
      BY <2>1, <3>1 DEF importCsv
    <3>2. CASE replaceDocument(c)
      BY <2>1, <3>2 DEF replaceDocument
    <3>3. CASE replaceBands(c)
      BY <2>1, <3>3 DEF replaceBands
    <3>4. CASE update(c)
      BY <2>1, <3>4 DEF update
    <3> QED BY <2>4, <3>1, <3>2, <3>3, <3>4
  <2>5. CASE \/ WriteQuestion(c) \/ DeleteOptions(c) \/ IssueShift(c) \/ LockShift(c)
             \/ IssueClear(c) \/ LockClear(c)
    BY <2>5, KindStays
  <2> QED BY <1>1, <2>2, <2>3, <2>4, <2>5, EndedCalls DEF Handler
<1>3. CASE removeMedia(c)
  <2>1. PICK f \in media.records : Check(c, "removeMedia", [file |-> f])
    BY <1>3 DEF removeMedia
  <2>2. /\ calls'[c].pc = "checked" /\ calls'[c].op = "removeMedia"
        /\ calls'[c].arg = [file |-> f]
    BY <1>0, <2>1
  <2>3. f \in Calls => calls'[f] = Done
    BY OthersInMedia DEF MediaTrue
  <2> QED BY <1>1, <2>2, <2>3, OthersInMedia DEF MediaTrue, RecordsHaveFiles, At
<1>4. CASE calls'[c] = Done \/ calls'[c].op \notin {"upload", "removeMedia"}
  <2>1. ~At(c, "upload", "checked")' /\ ~(InFlight(c)' /\ calls'[c].op = "removeMedia")
    BY <1>4 DEF At, InFlight, Done
  <2> QED BY <1>1, <2>1, OthersInMedia DEF MediaTrue, RecordsHaveFiles
<1> QED BY <1>2, <1>3, <1>4

LEMMA MediaStepsKeepMedia ==
    ASSUME Typing, MediaTrue, NEW c \in Calls,
           upload(c) \/ RecordUpload(c) \/ UndoUpload(c) \/ DeleteRecord(c) \/ DeleteFile(c)
    PROVE  MediaTrue'
<1> DEFINE files == media.files
           records == media.records
<1>1. /\ CallsOK
      /\ \A f, r : Store(f, r) => files' = f /\ records' = r
  BY DEF Typing, upload, RecordUpload, UndoUpload, DeleteRecord, DeleteFile, Store, First, Fail, test
<1>2. /\ records \subseteq files
      /\ c \notin records
      /\ \A d \in Calls : d \in records => calls[d] = Done
      /\ \A d \in Calls : At(d, "upload", "checked") => d \in files
      /\ \A d \in Calls : InFlight(d) /\ calls[d].op = "removeMedia" =>
            /\ calls[d].arg.file \in Calls => calls[calls[d].arg.file] = Done
            /\ calls[d].pc = "recordGone" => calls[d].arg.file \notin records
  BY OthersInMedia DEF MediaTrue, RecordsHaveFiles, Handler
<1>3. /\ calls[c] # Done
      /\ \A d \in Calls : calls[d] = Done => calls'[d] = Done
      /\ \A d \in Calls \ {c} :
            /\ At(d, "upload", "checked")' => At(d, "upload", "checked")
            /\ InFlight(d)' => /\ InFlight(d)
                               /\ calls'[d].pc = calls[d].pc /\ calls'[d].op = calls[d].op
                               /\ calls'[d].arg = calls[d].arg
  BY OthersInMedia DEF Handler
<1>4. SUFFICES /\ records' \subseteq files'
               /\ \A d \in Calls : d \in records' => calls'[d] = Done
               /\ \A d \in Calls : At(d, "upload", "checked")' => d \in files'
               /\ \A d \in Calls : InFlight(d)' /\ calls'[d].op = "removeMedia" =>
                     /\ calls'[d].arg.file \in Calls => calls'[calls'[d].arg.file] = Done
                     /\ calls'[d].pc = "recordGone" => calls'[d].arg.file \notin records'
  BY DEF MediaTrue, RecordsHaveFiles
<1>5. CASE upload(c)
  <2>1. files' = files \cup {c} /\ records' = records
    BY <1>1, <1>5 DEF upload
  <2>2. calls'[c] = Planned("upload", <<>>)
    BY <1>1, <1>5 DEF upload, CallsOK
  <2>3. calls'[c].op # "removeMedia"
    BY <2>2 DEF Planned
  <2> HIDE DEF files, records
  <2> QED BY <1>2, <1>3, <2>1, <2>3
<1>6. CASE RecordUpload(c)
  <2>1. files' = files /\ records' = records \cup {c}
    BY <1>1, <1>6 DEF RecordUpload
  <2>2. calls'[c] = Done
    BY <1>1, <1>6, EndedCalls
  <2>3. ~At(c, "upload", "checked")' /\ ~InFlight(c)' /\ At(c, "upload", "checked")
    BY <1>6, <2>2 DEF At, InFlight, Done, RecordUpload
  <2> HIDE DEF files, records
  <2> QED BY <1>2, <1>3, <2>1, <2>2, <2>3
<1>7. CASE UndoUpload(c)
  <2>1. files' = files \ {c} /\ records' = records
    BY <1>1, <1>7 DEF UndoUpload
  <2>2. calls'[c] = Done
    BY <1>1, <1>7, EndedCalls
  <2>3. ~At(c, "upload", "checked")' /\ ~InFlight(c)'
    BY <2>2 DEF At, InFlight, Done
  <2> HIDE DEF files, records
  <2> QED BY <1>2, <1>3, <2>1, <2>2, <2>3
<1>8. CASE DeleteFile(c)
  <2>1. /\ files' = files \ {calls[c].arg.file} /\ records' = records
        /\ InFlight(c) /\ calls[c].op = "removeMedia" /\ calls[c].pc = "recordGone"
    BY <1>1, <1>8 DEF DeleteFile, At
  <2>2. calls'[c] = Done
    BY <1>1, <1>8, EndedCalls
  <2>3. ~At(c, "upload", "checked")' /\ ~InFlight(c)'
    BY <2>2 DEF At, InFlight, Done
  <2>4. \A d \in Calls : At(d, "upload", "checked") => d # calls[c].arg.file
    BY <1>2, <2>1 DEF At, InFlight, Done
  <2> HIDE DEF files, records
  <2> QED BY <1>2, <1>3, <2>1, <2>2, <2>3, <2>4
<1>9. CASE DeleteRecord(c) /\ calls[c].arg.file \in records
  <2>1. /\ files' = files /\ records' = records \ {calls[c].arg.file}
        /\ calls' = [calls EXCEPT ![c].pc = "recordGone"]
        /\ InFlight(c) /\ calls[c].op = "removeMedia"
    BY <1>1, <1>9 DEF DeleteRecord, First, At
  <2>2. CallOK(calls[c]) /\ calls[c] \notin {Waiting, Done}
    BY <1>1, <2>1, InFlightTyped
  <2>3. calls[c] = [pc |-> calls[c].pc, op |-> calls[c].op, arg |-> calls[c].arg,
                    alone |-> calls[c].alone, want |-> calls[c].want, held |-> calls[c].held]
    BY <2>2, CallTyped
  <2>4. calls'[c].op = "removeMedia" /\ calls'[c].arg = calls[c].arg
    BY <1>1, <2>1, <2>3 DEF CallsOK
  <2>5. ~At(c, "upload", "checked")'
    BY <2>4 DEF At
  <2> HIDE DEF files, records
  <2> QED BY <1>2, <1>3, <2>1, <2>4, <2>5
<1>10. CASE DeleteRecord(c) /\ calls[c].arg.file \notin records
  <2>1. files' = files /\ records' = records /\ calls' = [calls EXCEPT ![c] = Done]
    BY <1>10 DEF DeleteRecord, Fail, test
  <2>2. calls'[c] = Done
    BY <1>1, <2>1 DEF CallsOK
  <2>3. ~At(c, "upload", "checked")' /\ ~InFlight(c)'
    BY <2>2 DEF At, InFlight, Done
  <2> HIDE DEF files, records
  <2> QED BY <1>2, <1>3, <2>1, <2>3
<1> QED BY <1>5, <1>6, <1>7, <1>8, <1>9, <1>10

LEMMA MediaStaysTrue ==
    ASSUME Typing, MediaTrue, NEW c \in Calls, Handler(c) \/ Drop(c)
    PROVE  MediaTrue'
BY StructureKeepsMedia, MediaStepsKeepMedia

-----------------------------------------------------------------------------
(* Questions have the options of their last save.                           *)

QuestionsStep(c) ==
    \/ InsertQuestion(c) \/ WriteOptions(c) \/ InsertCopy(c) \/ DeleteQuestion(c)
    \/ WritePlaces(c) \/ CommitImport(c) \/ questions' = questions

LEMMA FewWriteQuestions ==
    ASSUME NEW c \in Calls, Handler(c) \/ Drop(c)
    PROVE  QuestionsStep(c)
BY DEF QuestionsStep, Handler, Drop, Fail, Check, Issue, Lock, Store, First, test,
       createSection, InsertSection, updateSection, RenameSection, removeSection, DeleteSection,
       createQuestion, updateQuestion, WriteQuestion, DeleteOptions,
       duplicateQuestion, IssueShift, LockShift, removeQuestion,
       reorderQuestions, importCsv, replaceDocument, replaceBands, IssueClear, LockClear,
       upload, RecordUpload, UndoUpload, removeMedia, DeleteRecord, DeleteFile,
       update, WriteSettings

\* New questions have the options they came with, and rows that are kept keep theirs.
LEMMA InsertedOptions ==
    ASSUME NEW c \in Calls, NEW rows \in 0..MaxRows, NEW at \in Nat, NEW fits \in Methods,
           NEW table, \A q \in DOMAIN table : table[q].options = table[q].meant,
           questions' = Insert(NewQuestions(c, rows, at, fits), table)
    PROVE  OptionsAreOneSave'
<1> DEFINE new == NewQuestions(c, rows, at, fits)
<1>1. \A q \in DOMAIN new : new[q].options = new[q].meant
  <2>1. /\ DOMAIN new = {c} \X (1..rows)
        /\ \A i \in 1..rows : new[<<c, i>>] =
              [order |-> at + i - 1, fits |-> fits, options |-> Given, meant |-> Given]
    BY NewQuestionsAre
  <2> HIDE DEF new
  <2>2. ASSUME NEW i \in 1..rows
        PROVE  new[<<c, i>>].options = new[<<c, i>>].meant
    <3>1. new[<<c, i>>] = [order |-> at + i - 1, fits |-> fits, options |-> Given, meant |-> Given]
      BY <2>1
    <3> QED BY <3>1
  <2>3. \A q \in DOMAIN new : \E i \in 1..rows : q = <<c, i>>
    BY <2>1
  <2> QED BY <2>2, <2>3
<1> HIDE DEF new
<1>2. questions' = Insert(new, table)
  BY DEF new
<1>3. /\ DOMAIN questions' = DOMAIN new \cup DOMAIN table
      /\ \A q \in DOMAIN new : questions'[q] = new[q]
      /\ \A q \in DOMAIN table \ DOMAIN new : questions'[q] = table[q]
  <2>1. /\ DOMAIN Insert(new, table) = DOMAIN new \cup DOMAIN table
        /\ \A q \in DOMAIN new : Insert(new, table)[q] = new[q]
        /\ \A q \in DOMAIN table \ DOMAIN new : Insert(new, table)[q] = table[q]
    BY InsertedRows
  <2> QED BY <1>2, <2>1
<1>4. ASSUME NEW q \in DOMAIN questions'
      PROVE  questions'[q].options = questions'[q].meant
  <2>1. CASE q \in DOMAIN new
    BY <1>1, <1>3, <2>1
  <2>2. CASE q \in DOMAIN table \ DOMAIN new
    BY <1>3, <2>2
  <2> QED BY <1>3, <2>1, <2>2
<1> QED BY <1>4 DEF OptionsAreOneSave

LEMMA OptionsStay ==
    ASSUME Typing, CallsTrue, OptionsAreOneSave, NEW c \in Calls, Handler(c) \/ Drop(c)
    PROVE  OptionsAreOneSave'
<1>1. CallsOK /\ \A q \in DOMAIN questions : questions[q] \in Question
  BY TypingParts DEF Typing, TestOK
<1>2. \A q \in DOMAIN questions : questions[q].options = questions[q].meant
  BY DEF OptionsAreOneSave
<1>3. 0 \in 0..MaxRows /\ 1 \in 0..MaxRows /\ MaxRows \in Nat
  BY BoundsAssumption
<1>4. CASE InsertQuestion(c)
  <2>1. calls[c].arg.at \in Nat /\ calls[c].arg.fits \in Methods
    <3>1. calls[c] \in Call({"checked"}, "createQuestion", [at : Nat, fits : Methods])
      BY <1>1, <1>4, InFlightTyped, KindOf DEF InsertQuestion, At
    <3>2. calls[c].arg \in [at : Nat, fits : Methods]
      BY <3>1 DEF Call
    <3> QED BY <3>2
  <2> QED BY <1>2, <1>3, <1>4, <2>1, InsertedOptions DEF InsertQuestion
<1>5. CASE InsertCopy(c)
  <2>1. calls[c].arg.at + 1 \in Nat /\ calls[c].arg.fits \in Methods
    <3>1. calls[c] \in Call({"checked", "issued", "held"}, "duplicateQuestion",
                            [at : Nat, fits : Methods])
      BY <1>1, <1>5, InFlightTyped, KindOf DEF InsertCopy, At
    <3>2. calls[c].arg \in [at : Nat, fits : Methods]
      BY <3>1 DEF Call
    <3> QED BY <3>2
  <2> DEFINE shifted == [q \in DOMAIN questions |->
                           IF q \in calls[c].held
                             THEN [questions[q] EXCEPT !.order = @ + 1] ELSE questions[q]]
  <2>2. \A q \in DOMAIN shifted : shifted[q].options = shifted[q].meant
    BY <1>1, <1>2 DEF Question
  <2>3. questions' = Insert(NewQuestions(c, 1, calls[c].arg.at + 1, calls[c].arg.fits), shifted)
    BY <1>5 DEF InsertCopy
  <2> HIDE DEF shifted
  <2> QED BY <1>3, <2>1, <2>2, <2>3, InsertedOptions
<1>6. CASE CommitImport(c)
  <2>1. /\ calls[c].arg.rows \in 0..MaxRows /\ calls[c].arg.at \in Nat
        /\ calls[c].arg.fits \in Methods
    BY <1>1, <1>6, WriteArgsOf DEF CommitImport, Writes
  <2>2. \A q \in DOMAIN Kept(c, questions) :
           Kept(c, questions)[q].options = Kept(c, questions)[q].meant
    <3>1. ASSUME NEW q \in DOMAIN Kept(c, questions)
          PROVE  q \in DOMAIN questions /\ Kept(c, questions)[q] = questions[q]
      BY KeptRows
    <3> QED BY <1>2, <3>1
  <2> QED BY <1>6, <2>1, <2>2, InsertedOptions DEF CommitImport
<1>7. CASE WriteOptions(c)
  <2>1. CASE calls[c].arg.kept \subseteq calls[c].arg.left
    <3>1. calls[c].arg.left \subseteq calls[c].arg.kept
      BY <1>7 DEF WriteOptions, At, CallsTrue, CallTrue, QuestionCallTrue, SaveTrue
    <3>2. calls[c].arg.left = calls[c].arg.kept
      BY <2>1, <3>1
    <3>3. questions' = [questions EXCEPT ![calls[c].arg.q].fits = calls[c].arg.fits,
                          ![calls[c].arg.q].options = calls[c].arg.left \cup calls[c].arg.added,
                          ![calls[c].arg.q].meant = calls[c].arg.kept \cup calls[c].arg.added]
      BY <1>7, <2>1 DEF WriteOptions
    <3> QED BY <1>1, <1>2, <3>2, <3>3 DEF OptionsAreOneSave, Question
  <2>2. CASE ~(calls[c].arg.kept \subseteq calls[c].arg.left)
    BY <1>2, <1>7, <2>2 DEF WriteOptions, Fail, test, OptionsAreOneSave
  <2> QED BY <2>1, <2>2
<1>8. CASE DeleteQuestion(c)
  BY <1>2, <1>8 DEF DeleteQuestion, Restrict, Fail, test, OptionsAreOneSave
<1>9. CASE WritePlaces(c)
  BY <1>1, <1>2, <1>9 DEF WritePlaces, Fail, test, OptionsAreOneSave, Question
<1>10. CASE questions' = questions
  BY <1>2, <1>10 DEF OptionsAreOneSave
<1> QED BY <1>4, <1>5, <1>6, <1>7, <1>8, <1>9, <1>10, FewWriteQuestions DEF QuestionsStep

-----------------------------------------------------------------------------
(* The limits.                                                              *)

LEMMA RowNumbers ==
    ASSUME NEW n \in Nat
    PROVE  IsFiniteSet(1..n) /\ Cardinality(1..n) = n
<1>1. IsFiniteSet(1..n) /\ Cardinality(1..n) = IF 1 > n THEN 0 ELSE n - 1 + 1
  BY FS_Interval
<1> QED BY <1>1

LEMMA RowsOfCall ==
    ASSUME NEW c, NEW S, IsFiniteSet(S)
    PROVE  /\ IsFiniteSet({c} \X S) /\ Cardinality({c} \X S) = Cardinality(S)
           /\ Cardinality(S) \in Nat
<1>1. IsFiniteSet({c}) /\ Cardinality({c}) = 1 /\ Cardinality(S) \in Nat
  BY FS_Singleton, FS_CardinalityType
<1>2. IsFiniteSet({c} \X S) /\ Cardinality({c} \X S) = 1 * Cardinality(S)
  BY <1>1, FS_Product
<1> QED BY <1>1, <1>2

\* A table with the rows it keeps and those a call has room for.
LEMMA WithinLimit ==
    ASSUME NEW o \in Nat, NEW k \in Nat, o <= k, NEW r \in Nat, NEW limit \in Nat,
           NEW S, IsFiniteSet(S), NEW N, IsFiniteSet(N), NEW T, T \subseteq S \cup N,
           Cardinality(S) + Cardinality(N) <= limit + o * r
    PROVE  Cardinality(T) <= limit + k * r
<1>1. /\ Cardinality(T) \in Nat /\ Cardinality(S) \in Nat /\ Cardinality(N) \in Nat
      /\ Cardinality(T) <= Cardinality(S) + Cardinality(N)
  BY AddedRows
<1>2. o * r \in Nat /\ k * r \in Nat /\ o * r <= k * r
  BY TimesGrows
<1> QED BY <1>1, <1>2

TablesStep(c) ==
    \/ InsertSection(c) \/ InsertQuestion(c) \/ InsertCopy(c) \/ CommitImport(c)
    \/ DOMAIN questions' \subseteq DOMAIN questions /\ DOMAIN sections' \subseteq DOMAIN sections

LEMMA FewInsert ==
    ASSUME Typing, NEW c \in Calls, Handler(c) \/ Drop(c)
    PROVE  TablesStep(c)
<1>1. CASE RenameSection(c) \/ DeleteSection(c)
  BY <1>1 DEF TablesStep, RenameSection, DeleteSection, Restrict, Fail, test
<1>2. CASE WriteOptions(c) \/ DeleteQuestion(c) \/ WritePlaces(c)
  BY <1>2 DEF TablesStep, WriteOptions, DeleteQuestion, WritePlaces, Restrict, Fail, test
<1>3. CASE WriteSettings(c) \/ RecordUpload(c) \/ DeleteFile(c)
  BY <1>3 DEF TablesStep, WriteSettings, RecordUpload, DeleteFile, Store
<1>4. CallsOK
  BY DEF Typing
<1>5. Quiet(c) => TablesStep(c)
  BY DEF TablesStep, Quiet, structure
<1> QED BY <1>1, <1>2, <1>3, <1>4, <1>5, ChecksAreQuiet, StatementsAreQuiet DEF Handler, TablesStep

\* Room for a call's rows when it checked is room up to the limit and what all
\* other calls add.
LEMMA InsertsFit ==
    ASSUME Typing, Typing', NEW c \in Calls, Quiet(c) \/ Grows(c), InFlight(c), calls[c] # Done
    PROVE  /\ \A S, N : /\ S \subseteq DOMAIN questions /\ IsFiniteSet(N)
                        /\ DOMAIN questions' \subseteq S \cup N
                        /\ Cardinality(S) + Cardinality(N) <= MaxQuestions + Overtaken(c) * MaxRows
                 => Count' <= MaxQuestions + (Cardinality(Calls) - 1) * MaxRows
           /\ \A S, N : /\ S \subseteq DOMAIN sections /\ IsFiniteSet(N)
                        /\ DOMAIN sections' \subseteq S \cup N
                        /\ Cardinality(S) + Cardinality(N)
                              <= MaxSections + Overtaken(c) * Cardinality(Names)
                 => SectionCount' <= MaxSections + (Cardinality(Calls) - 1) * Cardinality(Names)
<1>1. CallsOK /\ CallsOK'
  BY DEF Typing
<1>2. Overtaken(c) \in Nat /\ Overtaken(c) <= Cardinality(Calls) - 1
  BY <1>1, Overtaking
<1>3. /\ MaxQuestions \in Nat /\ MaxSections \in Nat /\ MaxRows \in Nat
      /\ Cardinality(Names) \in Nat /\ Cardinality(Calls) - 1 \in Nat
  BY BoundsAssumption, RowsAreFinite
<1>4. IsFiniteSet(DOMAIN questions) /\ IsFiniteSet(DOMAIN sections)
  BY TypingParts, PlacesKnown
<1>5. ASSUME NEW S, NEW N, S \subseteq DOMAIN questions, IsFiniteSet(N),
             DOMAIN questions' \subseteq S \cup N,
             Cardinality(S) + Cardinality(N) <= MaxQuestions + Overtaken(c) * MaxRows
      PROVE  Count' <= MaxQuestions + (Cardinality(Calls) - 1) * MaxRows
  <2>1. IsFiniteSet(S)
    BY <1>4, <1>5, FS_Subset
  <2>2. Cardinality(DOMAIN questions') <= MaxQuestions + (Cardinality(Calls) - 1) * MaxRows
    BY <1>2, <1>3, <1>5, <2>1, WithinLimit
  <2> QED BY <2>2 DEF Count
<1>6. ASSUME NEW S, NEW N, S \subseteq DOMAIN sections, IsFiniteSet(N),
             DOMAIN sections' \subseteq S \cup N,
             Cardinality(S) + Cardinality(N) <= MaxSections + Overtaken(c) * Cardinality(Names)
      PROVE  SectionCount' <= MaxSections + (Cardinality(Calls) - 1) * Cardinality(Names)
  <2>1. IsFiniteSet(S)
    BY <1>4, <1>6, FS_Subset
  <2>2. Cardinality(DOMAIN sections')
          <= MaxSections + (Cardinality(Calls) - 1) * Cardinality(Names)
    BY <1>2, <1>3, <1>6, <2>1, WithinLimit
  <2> QED BY <2>2 DEF SectionCount
<1> QED BY <1>5, <1>6

\* What a finishing import keeps and adds.
LEMMA ImportedTables ==
    ASSUME Typing, NEW c \in Calls, CommitImport(c)
    PROVE  /\ DOMAIN questions' = ({c} \X (1..calls[c].arg.rows)) \cup (DOMAIN questions \ calls[c].held)
           /\ DOMAIN sections' = ({c} \X calls[c].arg.names) \cup (DOMAIN sections \ calls[c].held)
           /\ Spared(c, "questions") = DOMAIN questions \ calls[c].held
           /\ Spared(c, "sections") = DOMAIN sections \ calls[c].held
           /\ Spared(c, "bands") = DOMAIN bands \ calls[c].held
           /\ \A table : Reached(c, table)
           /\ calls[c].op \in {"import", "document", "bands"} /\ InFlight(c)
           /\ questions' = Insert(NewQuestions(c, calls[c].arg.rows, calls[c].arg.at,
                                               calls[c].arg.fits), Kept(c, questions))
           /\ sections' = Insert(NewSections(c, calls[c].arg.names), Kept(c, sections))
           /\ IsFiniteSet({c} \X (1..calls[c].arg.rows))
           /\ Cardinality({c} \X (1..calls[c].arg.rows)) = calls[c].arg.rows
           /\ IsFiniteSet({c} \X calls[c].arg.names)
           /\ Cardinality({c} \X calls[c].arg.names) = Cardinality(calls[c].arg.names)
<1> DEFINE a == calls[c].arg
<1>1. /\ CallsOK /\ InFlight(c) /\ calls[c].op \in {"import", "document", "bands"}
      /\ calls[c].pc = "checked" /\ a.clears = <<>>
  BY DEF Typing, CommitImport, Writes
<1>2. a.rows \in 0..MaxRows /\ a.names \in SUBSET Names /\ a.at \in Nat /\ a.fits \in Methods
  BY <1>1, WriteArgsOf
<1>3. /\ questions' = Insert(NewQuestions(c, a.rows, a.at, a.fits), Kept(c, questions))
      /\ sections' = Insert(NewSections(c, a.names), Kept(c, sections))
  BY DEF CommitImport
<1>4. /\ DOMAIN NewQuestions(c, a.rows, a.at, a.fits) = {c} \X (1..a.rows)
      /\ DOMAIN NewSections(c, a.names) = {c} \X a.names
  BY DEF NewQuestions, NewSections
<1>5. /\ DOMAIN questions' = DOMAIN NewQuestions(c, a.rows, a.at, a.fits) \cup DOMAIN Kept(c, questions)
      /\ DOMAIN sections' = DOMAIN NewSections(c, a.names) \cup DOMAIN Kept(c, sections)
  BY <1>3, InsertedRows
<1>6. /\ DOMAIN Kept(c, questions) = DOMAIN questions \ calls[c].held
      /\ DOMAIN Kept(c, sections) = DOMAIN sections \ calls[c].held
  BY KeptRows
<1>7. /\ \A table : Reached(c, table)
      /\ \A table : Spared(c, table) = RowsOf(table) \ calls[c].held
  BY <1>1 DEF Reached, Spared
<1>8. IsFiniteSet(1..a.rows) /\ Cardinality(1..a.rows) = a.rows
  <2>1. a.rows \in Nat
    BY <1>2
  <2> QED BY <2>1, RowNumbers
<1>9. /\ IsFiniteSet({c} \X (1..a.rows)) /\ Cardinality({c} \X (1..a.rows)) = a.rows
      /\ IsFiniteSet({c} \X a.names) /\ Cardinality({c} \X a.names) = Cardinality(a.names)
  <2>1. IsFiniteSet(a.names)
    BY <1>2, NamesCounted
  <2> QED BY <1>8, <2>1, RowsOfCall
<1> QED BY <1>1, <1>3, <1>4, <1>5, <1>6, <1>7, <1>9, RowsOfTables

LEMMA LimitsStay ==
    ASSUME Typing, CallsTrue, LimitsNearlyHold, NEW c \in Calls, Handler(c) \/ Drop(c)
    PROVE  LimitsNearlyHold'
<1> DEFINE a == calls[c].arg
           k == Cardinality(Calls) - 1
<1>1. /\ Typing' /\ (Quiet(c) \/ Grows(c)) /\ calls[c] # Done /\ CallsOK
      /\ InFlight(c) => CallTrue(c)
  BY StepTyped, StepShape DEF Typing, CallsTrue
<1>2. /\ Count <= MaxQuestions + k * MaxRows
      /\ SectionCount <= MaxSections + k * Cardinality(Names)
  BY DEF LimitsNearlyHold
<1>3. SUFFICES /\ Count' <= MaxQuestions + k * MaxRows
               /\ SectionCount' <= MaxSections + k * Cardinality(Names)
  BY DEF LimitsNearlyHold
<1>4. IsFiniteSet(DOMAIN questions) /\ IsFiniteSet(DOMAIN sections) /\ Count \in Nat /\ SectionCount \in Nat
  BY TypingParts, PlacesKnown
<1>5. /\ MaxQuestions \in Nat /\ MaxSections \in Nat /\ MaxRows \in Nat /\ MaxRows <= MaxQuestions
      /\ Cardinality(Names) \in Nat /\ k \in Nat /\ k * MaxRows \in Nat /\ k * Cardinality(Names) \in Nat
  BY BoundsAssumption, RowsAreFinite, TimesGrows
<1>6. DOMAIN questions' \subseteq DOMAIN questions => Count' <= Count /\ Count' \in Nat
  BY <1>4, FS_Subset, FS_CardinalityType DEF Count
<1>7. DOMAIN sections' \subseteq DOMAIN sections => SectionCount' <= SectionCount /\ SectionCount' \in Nat
  BY <1>4, FS_Subset, FS_CardinalityType DEF SectionCount
<1>8. DOMAIN questions' \subseteq DOMAIN questions => Count' <= MaxQuestions + k * MaxRows
  BY <1>2, <1>4, <1>5, <1>6
<1>9. DOMAIN sections' \subseteq DOMAIN sections
        => SectionCount' <= MaxSections + k * Cardinality(Names)
  BY <1>2, <1>4, <1>5, <1>7
<1>10. InFlight(c) =>
          /\ \A S, N : /\ S \subseteq DOMAIN questions /\ IsFiniteSet(N)
                       /\ DOMAIN questions' \subseteq S \cup N
                       /\ Cardinality(S) + Cardinality(N) <= MaxQuestions + Overtaken(c) * MaxRows
                 => Count' <= MaxQuestions + k * MaxRows
          /\ \A S, N : /\ S \subseteq DOMAIN sections /\ IsFiniteSet(N)
                       /\ DOMAIN sections' \subseteq S \cup N
                       /\ Cardinality(S) + Cardinality(N)
                             <= MaxSections + Overtaken(c) * Cardinality(Names)
                 => SectionCount' <= MaxSections + k * Cardinality(Names)
  BY <1>1, InsertsFit
<1> HIDE DEF k
<1>11. CASE InsertSection(c)
  <2>1. InFlight(c) /\ calls[c].op = "createSection" /\ questions' = questions
    BY <1>11 DEF InsertSection, At
  <2>2. RoomForSections(c, a.names)
    BY <1>1, <2>1 DEF CallTrue, SectionCallTrue
  <2>3. a.names \in SUBSET Names
    <3>1. calls[c] \in Call({"checked"}, "createSection", [names : {{n} : n \in Names}])
      BY <1>1, <2>1, InFlightTyped, KindOf
    <3>2. a \in [names : {{n} : n \in Names}]
      BY <3>1 DEF Call
    <3> QED BY <3>2
  <2>4. IsFiniteSet({c} \X a.names) /\ Cardinality({c} \X a.names) = Cardinality(a.names)
    BY <2>3, NamesCounted, RowsOfCall
  <2>5. DOMAIN sections' = ({c} \X a.names) \cup DOMAIN sections
    <3>1. DOMAIN NewSections(c, a.names) = {c} \X a.names
      BY <2>3, NewSectionsAre
    <3>2. sections' = Insert(NewSections(c, a.names), sections)
      BY <1>11 DEF InsertSection
    <3>3. DOMAIN sections' = DOMAIN NewSections(c, a.names) \cup DOMAIN sections
      BY <3>2, InsertedRows
    <3> QED BY <3>1, <3>3
  <2>6. Cardinality(DOMAIN sections) + Cardinality({c} \X a.names)
          <= MaxSections + Overtaken(c) * Cardinality(Names)
    BY <2>2, <2>4 DEF RoomForSections, SectionCount
  <2>7. SectionCount' <= MaxSections + k * Cardinality(Names)
    BY <1>10, <2>1, <2>4, <2>5, <2>6
  <2> QED BY <1>8, <2>1, <2>7
<1>12. CASE InsertQuestion(c) \/ InsertCopy(c)
  <2>1. /\ InFlight(c) /\ calls[c].op \in {"createQuestion", "duplicateQuestion"}
        /\ sections' = sections
    BY <1>12 DEF InsertQuestion, InsertCopy, At
  <2>2. RoomForQuestions(c, 1)
    BY <1>1, <2>1 DEF CallTrue, QuestionCallTrue
  <2>3. IsFiniteSet({c} \X (1..1)) /\ Cardinality({c} \X (1..1)) = 1
    BY RowNumbers, RowsOfCall
  <2>4. DOMAIN questions' = ({c} \X (1..1)) \cup DOMAIN questions
    <3>1. \A at, fits : DOMAIN NewQuestions(c, 1, at, fits) = {c} \X (1..1)
      BY DEF NewQuestions
    <3>2. \E at, fits, table : /\ questions' = Insert(NewQuestions(c, 1, at, fits), table)
                               /\ DOMAIN table = DOMAIN questions
      BY <1>12 DEF InsertQuestion, InsertCopy
    <3>3. PICK at, fits, table : /\ questions' = Insert(NewQuestions(c, 1, at, fits), table)
                                 /\ DOMAIN table = DOMAIN questions
      BY <3>2
    <3>4. DOMAIN Insert(NewQuestions(c, 1, at, fits), table)
            = DOMAIN NewQuestions(c, 1, at, fits) \cup DOMAIN table
      BY InsertedRows
    <3> QED BY <3>1, <3>3, <3>4
  <2>5. Cardinality(DOMAIN questions) + Cardinality({c} \X (1..1))
          <= MaxQuestions + Overtaken(c) * MaxRows
    BY <2>2, <2>3 DEF RoomForQuestions, Count
  <2>6. Count' <= MaxQuestions + k * MaxRows
    BY <1>10, <2>1, <2>3, <2>4, <2>5
  <2> QED BY <1>9, <2>1, <2>6
<1>13. CASE CommitImport(c)
  <2> DEFINE Q == {c} \X (1..a.rows)
             N == {c} \X a.names
  <2>1. /\ DOMAIN questions' = Q \cup (DOMAIN questions \ calls[c].held)
        /\ DOMAIN sections' = N \cup (DOMAIN sections \ calls[c].held)
        /\ Spared(c, "questions") = DOMAIN questions \ calls[c].held
        /\ Spared(c, "sections") = DOMAIN sections \ calls[c].held
        /\ Reached(c, "questions") /\ Reached(c, "sections")
        /\ calls[c].op \in {"import", "document", "bands"} /\ InFlight(c)
        /\ IsFiniteSet(Q) /\ Cardinality(Q) = a.rows
        /\ IsFiniteSet(N) /\ Cardinality(N) = Cardinality(a.names)
    BY <1>13, ImportedTables
  <2>2. ImportCallTrue(c)
    BY <1>1, <2>1 DEF CallTrue
  <2>3. /\ a.rows \in 0..MaxRows
        /\ calls[c].op = "document" => Cardinality(a.names) <= MaxSections
        /\ calls[c].op = "bands" => a.rows = 0 /\ a.names = {}
    BY <1>1, <2>1, WriteArgsOf
  <2>4. Overtaken(c) * MaxRows \in Nat /\ Overtaken(c) * Cardinality(Names) \in Nat
    <3>1. Overtaken(c) \in Nat
      BY <1>1, Overtaking DEF Typing
    <3> QED BY <1>5, <3>1, TimesGrows
  <2>5. /\ Cardinality(DOMAIN questions \ calls[c].held) \in Nat
        /\ Cardinality(DOMAIN sections \ calls[c].held) \in Nat
        /\ Cardinality(DOMAIN sections \ calls[c].held) <= SectionCount
        /\ Cardinality(N) \in Nat
    BY <1>4, <2>1, FS_Subset, FS_CardinalityType DEF SectionCount
  <2>6. \A s, n, m, o \in Nat : s <= o /\ n <= m => s + n <= m + o
    OBVIOUS
  <2>7. (calls[c].op # "bands" /\ QuestionsSpared(c)) => Count' <= MaxQuestions + k * MaxRows
    <3>1. QuestionsSpared(c) => Cardinality(DOMAIN questions \ calls[c].held) + Cardinality(Q)
                                  <= MaxQuestions + Overtaken(c) * MaxRows
      <4>1. a.rows \in Nat /\ a.rows <= MaxQuestions
        BY <1>5, <2>3
      <4> HIDE DEF Q
      <4> QED BY <1>5, <2>1, <2>4, <2>5, <2>6, <4>1 DEF QuestionsSpared
    <3>2. /\ DOMAIN questions \ calls[c].held \subseteq DOMAIN questions
          /\ DOMAIN questions' \subseteq (DOMAIN questions \ calls[c].held) \cup Q
      BY <2>1
    <3> HIDE DEF Q
    <3> QED BY <1>10, <2>1, <3>1, <3>2
  <2>8. RoomForQuestions(c, a.rows) => Count' <= MaxQuestions + k * MaxRows
    <3>1. RoomForQuestions(c, a.rows) => Cardinality(DOMAIN questions) + Cardinality(Q)
                                           <= MaxQuestions + Overtaken(c) * MaxRows
      BY <2>1 DEF RoomForQuestions, Count
    <3>2. DOMAIN questions' \subseteq DOMAIN questions \cup Q
      BY <2>1
    <3> HIDE DEF Q
    <3> QED BY <1>10, <2>1, <3>1, <3>2
  <2>9. CASE calls[c].op = "import"
    <3>1. QuestionsSpared(c) \/ RoomForQuestions(c, a.rows)
      BY <2>1, <2>2, <2>9 DEF ImportCallTrue
    <3>2. Cardinality(DOMAIN sections) + Cardinality(N)
            <= MaxSections + Overtaken(c) * Cardinality(Names)
      BY <2>1, <2>2, <2>9 DEF ImportCallTrue, RoomForSections, SectionCount
    <3>3. DOMAIN sections' \subseteq DOMAIN sections \cup N
      BY <2>1
    <3> HIDE DEF N
    <3>4. SectionCount' <= MaxSections + k * Cardinality(Names)
      BY <1>10, <2>1, <3>2, <3>3
    <3> QED BY <2>7, <2>8, <2>9, <3>1, <3>4
  <2>10. CASE calls[c].op = "document"
    <3>1. /\ QuestionsSpared(c)
          /\ Cardinality(Spared(c, "sections")) <= Overtaken(c) * Cardinality(Names)
      BY <2>1, <2>2, <2>10 DEF ImportCallTrue
    <3>2. Cardinality(DOMAIN sections \ calls[c].held) + Cardinality(N)
            <= MaxSections + Overtaken(c) * Cardinality(Names)
      <4> HIDE DEF N
      <4> QED BY <1>5, <2>1, <2>3, <2>4, <2>5, <2>10, <2>6, <3>1
    <3>3. /\ DOMAIN sections \ calls[c].held \subseteq DOMAIN sections
          /\ DOMAIN sections' \subseteq (DOMAIN sections \ calls[c].held) \cup N
      BY <2>1
    <3> HIDE DEF N
    <3>4. SectionCount' <= MaxSections + k * Cardinality(Names)
      BY <1>10, <2>1, <3>2, <3>3
    <3> QED BY <2>7, <2>10, <3>1, <3>4
  <2>11. CASE calls[c].op = "bands"
    <3>1. Q = {} /\ N = {}
      BY <2>3, <2>11
    <3> QED BY <1>8, <1>9, <2>1, <3>1
  <2> QED BY <2>1, <2>9, <2>10, <2>11
<1>14. CASE DOMAIN questions' \subseteq DOMAIN questions /\ DOMAIN sections' \subseteq DOMAIN sections
  BY <1>8, <1>9, <1>14
<1> QED BY <1>11, <1>12, <1>13, <1>14, FewInsert DEF TablesStep

-----------------------------------------------------------------------------
(* The invariant.                                                           *)

LEMMA Initially ==
    ASSUME Init
    PROVE  EInv
<1>1. \A c \in Calls : calls[c] = Waiting
  BY DEF Init
<1>2. CallsOK
  BY DEF Init, CallsOK, CallOK
<1>3. \A c \in Calls : ~InFlight(c)
  BY <1>1 DEF InFlight, Waiting
<1>4. PICK S \in SUBSET Old : \E place \in Injection(S, 0..MaxPlace) :
         questions = [q \in S |-> [Fresh EXCEPT !.order = place[q]]]
  BY DEF Init
<1>5. PICK place \in Injection(S, 0..MaxPlace) :
         questions = [q \in S |-> [Fresh EXCEPT !.order = place[q]]]
  BY <1>4
<1>6. place \in [S -> 0..MaxPlace] /\ 0..MaxPlace \subseteq Nat
  BY <1>5, BoundsAssumption DEF Injection, IsInjective
<1>7. /\ DOMAIN questions = S
      /\ \A q \in DOMAIN questions : /\ questions[q] \in Question
                                     /\ questions[q].options = questions[q].meant
  <2>1. method \in Methods
    BY DEF Init
  <2> QED BY <1>5, <1>6, <2>1 DEF Fresh, Question, Oids
<1>8. TypeOK
  BY <1>3, <1>7 DEF Init, TypeOK, Qids, Sids, Bids
<1>9. CallsTrue
  BY <1>3 DEF CallsTrue
<1>10. MediaTrue
  BY <1>3, NamesAssumption DEF Init, MediaTrue, RecordsHaveFiles, At
<1>11. OptionsAreOneSave
  BY <1>7 DEF OptionsAreOneSave
<1>12. LimitsNearlyHold
  <2>1. Count <= MaxQuestions /\ SectionCount <= MaxSections
    BY DEF Init, Sound, Count, SectionCount
  <2>2. Count \in Nat /\ SectionCount \in Nat
    BY <1>2, <1>8, TypingParts, PlacesKnown DEF Typing
  <2>3. /\ MaxQuestions \in Nat /\ MaxSections \in Nat
        /\ (Cardinality(Calls) - 1) * MaxRows \in Nat
        /\ (Cardinality(Calls) - 1) * Cardinality(Names) \in Nat
    BY BoundsAssumption, RowsAreFinite, TimesGrows
  <2> QED BY <2>1, <2>2, <2>3 DEF LimitsNearlyHold
<1> QED BY <1>2, <1>8, <1>9, <1>10, <1>11, <1>12 DEF EInv

LEMMA Stepwise ==
    ASSUME EInv, [Next]_vars
    PROVE  EInv'
<1>1. CASE UNCHANGED vars
  <2>1. /\ method' = method /\ questions' = questions /\ sections' = sections
        /\ bands' = bands /\ media' = media /\ calls' = calls
    BY <1>1 DEF vars
  <2>2. TypeOK' /\ CallsOK'
    BY <2>1 DEF EInv, TypeOK, CallsOK, InFlight
  <2>3. CallsTrue'
    <3>1. ASSUME NEW c \in Calls, InFlight(c)'
          PROVE  CallTrue(c)'
      <4>1. CallTrue(c)
        BY <2>1, <3>1 DEF EInv, CallsTrue, InFlight
      <4>2. /\ Overtaken(c)' = Overtaken(c) /\ Count' = Count /\ SectionCount' = SectionCount
            /\ \A names, except : NameFree(c, names, except)' = NameFree(c, names, except)
            /\ \A rows, at : Later(rows, at)' = Later(rows, at)
        BY <2>1 DEF Overtaken, Count, SectionCount, NameFree, Later
      <4>3. /\ SectionCallTrue(c)' = SectionCallTrue(c)
            /\ SettingsTrue(c)' = SettingsTrue(c)
        BY <2>1, <4>2 DEF SectionCallTrue, RoomForSections, SettingsTrue
      <4>4. QuestionCallTrue(c)' = QuestionCallTrue(c)
        BY <2>1, <4>2 DEF QuestionCallTrue, RoomForQuestions, Appends, CopyTrue, SaveTrue
      <4>5. ImportCallTrue(c)' = ImportCallTrue(c)
        <5>1. \A table : /\ Spared(c, table)' = Spared(c, table)
                         /\ Reached(c, table)' = Reached(c, table)
          BY <2>1 DEF Spared, Reached, RowsOf
        <5> QED BY <2>1, <4>2, <5>1
            DEF ImportCallTrue, RoomForSections, RoomForQuestions, QuestionsSpared, Appends
      <4> QED BY <4>1, <4>3, <4>4, <4>5 DEF CallTrue
    <3> QED BY <3>1 DEF CallsTrue
  <2>4. MediaTrue' /\ OptionsAreOneSave'
    BY <2>1 DEF EInv, MediaTrue, RecordsHaveFiles, OptionsAreOneSave, InFlight, At
  <2>5. LimitsNearlyHold'
    BY <2>1 DEF EInv, LimitsNearlyHold, Count, SectionCount
  <2> QED BY <2>2, <2>3, <2>4, <2>5 DEF EInv
<1>2. ASSUME NEW c \in Calls, Handler(c) \/ Drop(c)
      PROVE  EInv'
  <2>1. Typing
    BY DEF EInv, Typing
  <2>2. Typing' /\ CallsTrue' /\ MediaTrue' /\ OptionsAreOneSave' /\ LimitsNearlyHold'
    BY <1>2, <2>1, StepTyped, CallsStayTrue, MediaStaysTrue, OptionsStay, LimitsStay DEF EInv
  <2> QED BY <2>2 DEF EInv, Typing
<1> QED BY <1>1, <1>2 DEF Next

\* Whatever calls overlap, those still to write may rely on what EInv says of
\* the test they read.
THEOREM Invariance == Spec => []EInv
<1>1. Init => EInv
  BY Initially
<1>2. EInv /\ [Next]_vars => EInv'
  BY Stepwise
<1> QED BY <1>1, <1>2, PTL DEF Spec

\* Rows keep the columns their tables have.
THEOREM TypeCorrect == Spec => []TypeOK
<1>1. EInv => TypeOK
  BY DEF EInv
<1> QED BY <1>1, Invariance, PTL

\* The options of a question are those of one save, whatever other saves of it
\* run between its statements (updateQuestion).
THEOREM OptionsKept == Spec => []OptionsAreOneSave
<1>1. EInv => OptionsAreOneSave
  BY DEF EInv
<1> QED BY <1>1, Invariance, PTL

\* Any number of overlapping calls pass the limits by no more than what all
\* but one of them add (create, duplicate, importCsv, createSection, replace).
THEOREM LimitsHold == Spec => []LimitsNearlyHold
<1>1. EInv => LimitsNearlyHold
  BY DEF EInv
<1> QED BY <1>1, Invariance, PTL

\* A stored record has its file, whatever uploads and removals fail half-way
\* (MediaService.upload and remove).
THEOREM FilesThere == Spec => []RecordsHaveFiles
<1>1. EInv => RecordsHaveFiles
  BY DEF EInv, MediaTrue
<1> QED BY <1>1, Invariance, PTL

-----------------------------------------------------------------------------
(* A call nobody wrote in between keeps a sound test sound.                 *)

LEMMA InsertedApart ==
    ASSUME NEW rows, NEW table, IsInjective(rows), IsInjective(table),
           \A r \in DOMAIN rows, t \in DOMAIN table : rows[r] # table[t]
    PROVE  IsInjective(Insert(rows, table))
BY DEF IsInjective, Insert

LEMMA KeptApart ==
    ASSUME NEW c, NEW table, IsInjective(table)
    PROVE  IsInjective(Kept(c, table))
<1>1. ASSUME NEW r \in DOMAIN Kept(c, table)
      PROVE  r \in DOMAIN table /\ Kept(c, table)[r] = table[r]
  BY KeptRows
<1> QED BY <1>1 DEF IsInjective

LEMMA NewPlaces ==
    ASSUME NEW c \in Calls, NEW rows \in 0..MaxRows, NEW at \in Nat, NEW fits \in Methods
    PROVE  \A q \in DOMAIN NewQuestions(c, rows, at, fits) : \E i \in 1..rows :
              /\ q = <<c, i>>
              /\ NewQuestions(c, rows, at, fits)[q].order = at + i - 1
              /\ NewQuestions(c, rows, at, fits)[q].fits = fits
<1> DEFINE new == NewQuestions(c, rows, at, fits)
<1>1. /\ DOMAIN new = {c} \X (1..rows)
      /\ \A i \in 1..rows : new[<<c, i>>] =
            [order |-> at + i - 1, fits |-> fits, options |-> Given, meant |-> Given]
  BY NewQuestionsAre
<1> HIDE DEF new
<1>2. ASSUME NEW i \in 1..rows
      PROVE  new[<<c, i>>].order = at + i - 1 /\ new[<<c, i>>].fits = fits
  <2>1. new[<<c, i>>] = [order |-> at + i - 1, fits |-> fits, options |-> Given, meant |-> Given]
    BY <1>1
  <2> QED BY <2>1
<1>3. \A q \in DOMAIN new : \E i \in 1..rows :
         q = <<c, i>> /\ new[q].order = at + i - 1 /\ new[q].fits = fits
  BY <1>1, <1>2
<1> QED BY <1>3 DEF new

\* Questions of one kind, each at a place of its own.
Apart(table, m) ==
    /\ \A q \in DOMAIN table : table[q].fits = m
    /\ \A p, q \in DOMAIN table : table[p].order = table[q].order => p = q

PlacedFrom(new, c, rows, at, fits) ==
    \A q \in DOMAIN new : \E i \in 1..rows :
       q = <<c, i>> /\ new[q].order = at + i - 1 /\ new[q].fits = fits

PlacesFree(table, rows, at) ==
    \A q \in DOMAIN table, i \in 1..rows : table[q].order # at + i - 1

\* New questions of the test's kind, at places no question has.
LEMMA QuestionsApart ==
    ASSUME NEW c, NEW rows \in Nat, NEW at \in Nat, NEW fits, NEW m, rows # 0 => fits = m,
           NEW new, PlacedFrom(new, c, rows, at, fits),
           NEW table, Apart(table, m), PlacesFree(table, rows, at)
    PROVE  Apart(Insert(new, table), m)
<1> DEFINE all == Insert(new, table)
<1>1. ASSUME NEW i \in 1..rows
      PROVE  rows # 0
  OBVIOUS
<1>2. \A q \in DOMAIN new : \E i \in 1..rows :
         q = <<c, i>> /\ new[q].order = at + i - 1 /\ new[q].fits = m
  BY <1>1 DEF PlacedFrom
<1>3. \A i \in 1..rows : i \in Int
  OBVIOUS
<1>4. \A p, q \in DOMAIN new : new[p].order = new[q].order => p = q
  <2>1. SUFFICES ASSUME NEW p \in DOMAIN new, NEW q \in DOMAIN new, new[p].order = new[q].order
                 PROVE  p = q
    OBVIOUS
  <2>2. PICK i \in 1..rows : p = <<c, i>> /\ new[p].order = at + i - 1
    BY <1>2
  <2>3. PICK j \in 1..rows : q = <<c, j>> /\ new[q].order = at + j - 1
    BY <1>2
  <2>4. i = j
    BY <2>1, <2>2, <2>3
  <2> QED BY <2>2, <2>3, <2>4
<1>5. \A p \in DOMAIN new, q \in DOMAIN table : new[p].order # table[q].order
  BY <1>2 DEF PlacesFree
<1>6. /\ DOMAIN all = DOMAIN new \cup DOMAIN table
      /\ \A q \in DOMAIN new : all[q] = new[q]
      /\ \A q \in DOMAIN table \ DOMAIN new : all[q] = table[q]
  <2>1. /\ DOMAIN Insert(new, table) = DOMAIN new \cup DOMAIN table
        /\ \A q \in DOMAIN new : Insert(new, table)[q] = new[q]
        /\ \A q \in DOMAIN table \ DOMAIN new : Insert(new, table)[q] = table[q]
    BY InsertedRows
  <2> QED BY <2>1
<1>7. \A q \in DOMAIN all : all[q].fits = m
  BY <1>2, <1>6 DEF Apart
<1>8. \A p, q \in DOMAIN all : all[p].order = all[q].order => p = q
  <2>1. \A p, q \in DOMAIN all : p \in DOMAIN new /\ q \in DOMAIN new =>
           (all[p].order = all[q].order => p = q)
    BY <1>4, <1>6
  <2>2. \A p, q \in DOMAIN all : p \in DOMAIN new /\ q \notin DOMAIN new =>
           all[p].order # all[q].order
    BY <1>5, <1>6
  <2>3. \A p, q \in DOMAIN all : p \notin DOMAIN new /\ q \notin DOMAIN new =>
           (all[p].order = all[q].order => p = q)
    BY <1>6 DEF Apart
  <2> QED BY <2>1, <2>2, <2>3
<1> QED BY <1>7, <1>8 DEF Apart

LEMMA SectionsApart ==
    ASSUME NEW c \in Calls, NEW names \in SUBSET Names, NEW table, IsInjective(table),
           \A s \in DOMAIN table : table[s] \notin names
    PROVE  IsInjective(Insert(NewSections(c, names), table))
<1>1. IsInjective(NewSections(c, names))
  BY DEF IsInjective, NewSections
<1>2. \A r \in DOMAIN NewSections(c, names) : NewSections(c, names)[r] \in names
  BY DEF NewSections
<1> QED BY <1>1, <1>2, InsertedApart

\* Only its own last step ends a call.
LEMMA EndsItself ==
    ASSUME Typing, NEW c \in Calls, Handler(c) \/ Drop(c),
           NEW d \in Calls, InFlight(d), calls'[d] = Done
    PROVE  d = c
<1>1. Quiet(c) \/ Grows(c)
  BY StepShape
<1>2. CallOK(calls[d]) /\ calls[d] \notin {Waiting, Done}
  BY InFlightTyped DEF Typing
<1>3. calls[d] = [pc |-> calls[d].pc, op |-> calls[d].op, arg |-> calls[d].arg,
                  alone |-> calls[d].alone, want |-> calls[d].want, held |-> calls[d].held]
  BY <1>2, CallTyped
<1>4. ASSUME d # c
      PROVE  FALSE
  <2>1. calls'[d].pc = calls[d].pc
    BY <1>1, <1>3, <1>4 DEF Quiet, Grows
  <2> QED BY <2>1 DEF InFlight, Done
<1> QED BY <1>4

LEMMA AloneIsFirst ==
    ASSUME NEW c \in Calls, calls[c].alone
    PROVE  /\ Overtaken(c) = 0
           /\ \A rows : RoomForQuestions(c, rows) => Count + rows <= MaxQuestions
           /\ \A names : RoomForSections(c, names)
                           => SectionCount + Cardinality(names) <= MaxSections
<1>1. Overtaken(c) = 0
  BY DEF Overtaken
<1> QED BY <1>1, LimitsTimesNothing DEF RoomForQuestions, RoomForSections

LEMMA SectionsStaySound ==
    ASSUME Typing, NEW c \in Calls, calls[c].alone, CallTrue(c), Sound,
           InsertSection(c) \/ RenameSection(c) \/ DeleteSection(c)
    PROVE  Sound'
<1> DEFINE a == calls[c].arg
<1>1. /\ CallsOK /\ InFlight(c) /\ SectionCallTrue(c)
      /\ IsFiniteSet(DOMAIN sections) /\ SectionCount \in Nat
  BY TypingParts, PlacesKnown
     DEF Typing, CallTrue, InsertSection, RenameSection, DeleteSection, At
<1>2. method' = method /\ questions' = questions /\ bands' = bands
  BY DEF InsertSection, RenameSection, DeleteSection, Fail, test
<1>3. IsInjective(sections) /\ SectionCount <= MaxSections /\ MaxSections \in Nat
  BY BoundsAssumption DEF Sound, SectionCount
<1>4. SUFFICES IsInjective(sections') /\ Cardinality(DOMAIN sections') <= MaxSections
  BY <1>2 DEF Sound
<1>5. CASE InsertSection(c)
  <2>1. calls[c].op = "createSection"
    BY <1>5 DEF InsertSection, At
  <2>2. a.names \in SUBSET Names
    <3>1. calls[c] \in Call({"checked"}, "createSection", [names : {{n} : n \in Names}])
      BY <1>1, <2>1, InFlightTyped, KindOf
    <3>2. a \in [names : {{n} : n \in Names}]
      BY <3>1 DEF Call
    <3> QED BY <3>2
  <2>3. /\ SectionCount + Cardinality(a.names) <= MaxSections
        /\ \A s \in DOMAIN sections : sections[s] \notin a.names
    BY <1>1, <2>1, AloneIsFirst DEF SectionCallTrue, NameFree
  <2>4. sections' = Insert(NewSections(c, a.names), sections)
    BY <1>5 DEF InsertSection
  <2>5. IsInjective(sections')
    BY <1>3, <2>2, <2>3, <2>4, SectionsApart
  <2>6. DOMAIN sections' = DOMAIN NewSections(c, a.names) \cup DOMAIN sections
    BY <2>4, InsertedRows
  <2>7. DOMAIN NewSections(c, a.names) = {c} \X a.names
    BY DEF NewSections
  <2>8. /\ IsFiniteSet({c} \X a.names) /\ Cardinality({c} \X a.names) = Cardinality(a.names)
        /\ Cardinality(a.names) \in Nat
    BY <2>2, NamesCounted, RowsOfCall
  <2>9. /\ Cardinality(DOMAIN sections') \in Nat
        /\ Cardinality(DOMAIN sections') <= Cardinality(DOMAIN sections) + Cardinality({c} \X a.names)
    <3>1. DOMAIN sections' \subseteq DOMAIN sections \cup ({c} \X a.names)
      BY <2>6, <2>7
    <3> QED BY <1>1, <2>8, <3>1, AddedRows
  <2> QED BY <1>1, <1>3, <2>3, <2>5, <2>8, <2>9 DEF SectionCount
<1>6. CASE RenameSection(c)
  <2>1. calls[c].op = "updateSection"
    BY <1>6 DEF RenameSection, At
  <2>2. \A s \in DOMAIN sections \ {a.section} : sections[s] \notin {a.name}
    BY <1>1, <2>1 DEF SectionCallTrue, NameFree
  <2>3. sections' = [sections EXCEPT ![a.section] = a.name] \/ sections' = sections
    BY <1>6 DEF RenameSection, Fail, test
  <2> QED BY <1>3, <2>2, <2>3 DEF IsInjective, SectionCount
<1>7. CASE DeleteSection(c)
  <2>1. sections' = Restrict(sections, DOMAIN sections \ {a.section}) \/ sections' = sections
    BY <1>7 DEF DeleteSection, Fail, test
  <2>2. DOMAIN sections' \subseteq DOMAIN sections
    BY <2>1 DEF Restrict
  <2>3. IsInjective(sections')
    BY <1>3, <2>1 DEF IsInjective, Restrict
  <2>4. /\ Cardinality(DOMAIN sections') \in Nat
        /\ Cardinality(DOMAIN sections') <= Cardinality(DOMAIN sections)
    BY <1>1, <2>2, FS_Subset, FS_CardinalityType
  <2> QED BY <1>1, <1>3, <2>3, <2>4 DEF SectionCount
<1> QED BY <1>5, <1>6, <1>7

LEMMA SettingsStaySound ==
    ASSUME Typing, NEW c \in Calls, calls[c].alone, CallTrue(c), Sound, WriteSettings(c)
    PROVE  Sound'
<1>1. \A q \in DOMAIN questions : questions[q].fits = calls[c].arg.method
  BY DEF CallTrue, SettingsTrue, WriteSettings, At
<1> QED BY <1>1 DEF WriteSettings, Sound

\* A question more, where none is.
LEMMA OneMoreQuestion ==
    ASSUME Typing, NEW c \in Calls, Sound, NEW at \in Nat, NEW table,
           DOMAIN table = DOMAIN questions,
           \A q \in DOMAIN table : table[q].fits = method,
           \A p, q \in DOMAIN table : table[p].order = table[q].order => p = q,
           \A q \in DOMAIN table : table[q].order # at,
           Count + 1 <= MaxQuestions, NEW fits \in Methods, fits = method,
           method' = method, sections' = sections, bands' = bands,
           questions' = Insert(NewQuestions(c, 1, at, fits), table)
    PROVE  Sound'
<1> DEFINE new == NewQuestions(c, 1, at, fits)
<1>1. 1 \in 0..MaxRows /\ MaxQuestions \in Nat
  BY BoundsAssumption
<1>2. PlacedFrom(new, c, 1, at, fits)
  BY <1>1, NewPlaces DEF PlacedFrom
<1>3. DOMAIN new = {c} \X (1..1)
  BY DEF NewQuestions
<1>4. questions' = Insert(new, table)
  OBVIOUS
<1> HIDE DEF new
<1>5. \A i \in 1..1 : at + i - 1 = at
  OBVIOUS
<1>6. Apart(questions', method')
  <2>1. PlacesFree(table, 1, at) /\ Apart(table, method)
    BY <1>5 DEF PlacesFree, Apart
  <2> QED BY <1>2, <1>4, <2>1, QuestionsApart
<1>7. DOMAIN questions' = ({c} \X (1..1)) \cup DOMAIN questions
  <2>1. DOMAIN Insert(new, table) = DOMAIN new \cup DOMAIN table
    BY InsertedRows
  <2> QED BY <1>3, <1>4, <2>1
<1>8. Cardinality(DOMAIN questions') <= MaxQuestions
  <2>1. IsFiniteSet({c} \X (1..1)) /\ Cardinality({c} \X (1..1)) = 1
    BY RowNumbers, RowsOfCall
  <2>2. IsFiniteSet(DOMAIN questions) /\ Count \in Nat
    BY TypingParts, PlacesKnown
  <2>3. DOMAIN questions' \subseteq DOMAIN questions \cup ({c} \X (1..1))
    BY <1>7
  <2>4. /\ Cardinality(DOMAIN questions') \in Nat
        /\ Cardinality(DOMAIN questions') <= Cardinality(DOMAIN questions) + 1
    BY <2>1, <2>2, <2>3, AddedRows
  <2> QED BY <1>1, <2>2, <2>4 DEF Count
<1>9. IsInjective(sections') /\ IsInjective(bands') /\ Cardinality(DOMAIN sections') <= MaxSections
  BY DEF Sound
<1> QED BY <1>6, <1>8, <1>9 DEF Sound, Apart

LEMMA QuestionsStaySound ==
    ASSUME Typing, NEW c \in Calls, calls[c].alone, CallTrue(c), Sound,
           \/ InsertQuestion(c) \/ InsertCopy(c) \/ WriteOptions(c)
           \/ DeleteQuestion(c) \/ WritePlaces(c)
    PROVE  Sound'
<1> DEFINE a == calls[c].arg
<1>1. /\ CallsOK /\ InFlight(c) /\ QuestionCallTrue(c)
      /\ IsFiniteSet(DOMAIN questions) /\ Count \in Nat
      /\ method \in Methods
      /\ \A q \in DOMAIN questions : questions[q] \in Question
  BY TypingParts, PlacesKnown
     DEF Typing, TestOK, CallTrue, InsertQuestion, InsertCopy, WriteOptions, DeleteQuestion,
         WritePlaces, At
<1>2. method' = method /\ sections' = sections /\ bands' = bands
  BY DEF InsertQuestion, InsertCopy, WriteOptions, DeleteQuestion, WritePlaces, Fail, test
<1>3. /\ \A q \in DOMAIN questions : questions[q].fits = method
      /\ \A p, q \in DOMAIN questions : questions[p].order = questions[q].order => p = q
      /\ Cardinality(DOMAIN questions) <= MaxQuestions
  BY DEF Sound
<1>4. /\ \A q \in DOMAIN questions' : questions'[q].fits = method
      /\ \A p, q \in DOMAIN questions' : questions'[p].order = questions'[q].order => p = q
      /\ Cardinality(DOMAIN questions') <= MaxQuestions
      => Sound'
  BY <1>2 DEF Sound
<1>5. CASE InsertQuestion(c)
  <2>1. calls[c].op = "createQuestion"
    BY <1>5 DEF InsertQuestion, At
  <2>2. a.at \in Nat
    <3>1. calls[c] \in Call({"checked"}, "createQuestion", [at : Nat, fits : Methods])
      BY <1>1, <2>1, InFlightTyped, KindOf
    <3>2. a \in [at : Nat, fits : Methods]
      BY <3>1 DEF Call
    <3> QED BY <3>2
  <2>3. /\ Count + 1 <= MaxQuestions /\ a.fits = method
        /\ \A q \in DOMAIN questions : questions[q].order < a.at
    BY <1>1, <2>1, AloneIsFirst DEF QuestionCallTrue, Appends
  <2>4. \A q \in DOMAIN questions : questions[q].order # a.at
    <3>1. \A q \in DOMAIN questions : questions[q].order \in Nat
      BY <1>1 DEF Question
    <3> QED BY <2>2, <2>3, <3>1
  <2>5. questions' = Insert(NewQuestions(c, 1, a.at, method), questions)
    BY <1>5, <2>3 DEF InsertQuestion
  <2> QED BY <1>1, <1>2, <1>3, <2>2, <2>3, <2>4, <2>5, OneMoreQuestion
<1>6. CASE InsertCopy(c)
  <2>1. calls[c].op = "duplicateQuestion" /\ calls[c].pc = "held"
    BY <1>6 DEF InsertCopy, At
  <2>2. a.at \in Nat /\ a.at + 1 \in Nat
    <3>1. calls[c] \in Call({"checked", "issued", "held"}, "duplicateQuestion",
                            [at : Nat, fits : Methods])
      BY <1>1, <2>1, InFlightTyped, KindOf
    <3>2. a \in [at : Nat, fits : Methods]
      BY <3>1 DEF Call
    <3>3. a.at \in Nat
      BY <3>2
    <3> QED BY <3>3
  <2>3. Count + 1 <= MaxQuestions /\ a.fits = method /\ calls[c].held = Later(DOMAIN questions, a.at)
    BY <1>1, <1>3, <2>1, AloneIsFirst DEF QuestionCallTrue, CopyTrue
  <2>4. \A q \in DOMAIN questions : q \in calls[c].held <=> questions[q].order > a.at
    BY <2>3 DEF Later
  <2> DEFINE shifted == [q \in DOMAIN questions |->
                           IF q \in calls[c].held
                             THEN [questions[q] EXCEPT !.order = @ + 1] ELSE questions[q]]
  <2>5. ASSUME NEW q \in DOMAIN questions
        PROVE  /\ questions[q].order \in Nat
               /\ shifted[q].fits = method
               /\ shifted[q].order = IF questions[q].order > a.at THEN questions[q].order + 1
                                                                  ELSE questions[q].order
    BY <1>1, <1>3, <2>4 DEF Question
  <2>6. DOMAIN shifted = DOMAIN questions
    OBVIOUS
  <2>7. questions' = Insert(NewQuestions(c, 1, a.at + 1, method), shifted)
    BY <1>6, <2>3 DEF InsertCopy
  <2> HIDE DEF shifted
  <2>8. \A q \in DOMAIN shifted : shifted[q].order # a.at + 1
    BY <2>2, <2>5, <2>6
  <2>9. \A p, q \in DOMAIN shifted : shifted[p].order = shifted[q].order => p = q
    <3>1. \A p, q \in DOMAIN shifted : shifted[p].order = shifted[q].order
             => questions[p].order = questions[q].order
      BY <2>2, <2>5, <2>6
    <3> QED BY <1>3, <2>6, <3>1
  <2> QED BY <1>1, <1>2, <2>2, <2>3, <2>5, <2>6, <2>7, <2>8, <2>9, OneMoreQuestion
<1>7. CASE WriteOptions(c)
  <2>1. a.fits = method
    BY <1>1, <1>7 DEF QuestionCallTrue, SaveTrue, WriteOptions, At
  <2>2. \/ questions' = questions
        \/ questions' = [questions EXCEPT ![a.q].fits = a.fits,
                           ![a.q].options = a.left \cup a.added,
                           ![a.q].meant = a.kept \cup a.added]
    BY <1>7 DEF WriteOptions, Fail, test
  <2>3. DOMAIN questions' = DOMAIN questions
    BY <2>2
  <2>4. \A q \in DOMAIN questions :
           questions'[q].fits = method /\ questions'[q].order = questions[q].order
    BY <1>1, <1>3, <2>1, <2>2 DEF Question
  <2> QED BY <1>3, <1>4, <2>3, <2>4
<1>8. CASE DeleteQuestion(c)
  <2>1. questions' = questions \/ questions' = Restrict(questions, DOMAIN questions \ {a.q})
    BY <1>8 DEF DeleteQuestion, Fail, test
  <2>2. /\ DOMAIN questions' \subseteq DOMAIN questions
        /\ \A q \in DOMAIN questions' : questions'[q] = questions[q]
    BY <2>1 DEF Restrict
  <2>3. /\ Cardinality(DOMAIN questions') \in Nat
        /\ Cardinality(DOMAIN questions') <= Cardinality(DOMAIN questions)
    BY <1>1, <2>2, FS_Subset, FS_CardinalityType
  <2>4. Cardinality(DOMAIN questions') <= MaxQuestions
    BY <1>1, <1>3, <2>3, BoundsAssumption DEF Count
  <2> QED BY <1>3, <1>4, <2>2, <2>4
<1>9. CASE WritePlaces(c)
  <2>1. IsInjective(a.place) /\ DOMAIN a.place = DOMAIN questions
    BY <1>1, <1>9 DEF QuestionCallTrue, WritePlaces, At
  <2>2. questions' = [q \in DOMAIN questions |->
                        IF q \in DOMAIN a.place
                          THEN [questions[q] EXCEPT !.order = a.place[q]] ELSE questions[q]]
    BY <1>9, <2>1 DEF WritePlaces
  <2>3. /\ DOMAIN questions' = DOMAIN questions
        /\ \A q \in DOMAIN questions :
              questions'[q].fits = method /\ questions'[q].order = a.place[q]
    BY <1>1, <1>3, <2>1, <2>2 DEF Question
  <2> QED BY <1>3, <1>4, <2>1, <2>3 DEF IsInjective
<1> QED BY <1>5, <1>6, <1>7, <1>8, <1>9

LEMMA ImportStaysSound ==
    ASSUME Typing, NEW c \in Calls, calls[c].alone, CallTrue(c), Sound, CommitImport(c)
    PROVE  Sound'
<1> DEFINE a == calls[c].arg
           Q == {c} \X (1..a.rows)
           N == {c} \X a.names
           new == NewQuestions(c, a.rows, a.at, a.fits)
           m == IF calls[c].op = "document" THEN a.fits ELSE method
<1>1. /\ CallsOK /\ ImportCallTrue(c)
      /\ IsFiniteSet(DOMAIN questions) /\ Count \in Nat
      /\ IsFiniteSet(DOMAIN sections) /\ SectionCount \in Nat
  BY TypingParts, PlacesKnown DEF Typing, CallTrue
<1>2. /\ DOMAIN questions' = Q \cup (DOMAIN questions \ calls[c].held)
      /\ DOMAIN sections' = N \cup (DOMAIN sections \ calls[c].held)
      /\ Spared(c, "questions") = DOMAIN questions \ calls[c].held
      /\ Spared(c, "sections") = DOMAIN sections \ calls[c].held
      /\ Spared(c, "bands") = DOMAIN bands \ calls[c].held
      /\ Reached(c, "questions") /\ Reached(c, "sections") /\ Reached(c, "bands")
      /\ calls[c].op \in {"import", "document", "bands"} /\ InFlight(c)
      /\ questions' = Insert(new, Kept(c, questions))
      /\ sections' = Insert(NewSections(c, a.names), Kept(c, sections))
      /\ IsFiniteSet(Q) /\ Cardinality(Q) = a.rows
      /\ IsFiniteSet(N) /\ Cardinality(N) = Cardinality(a.names)
  BY ImportedTables
<1>3. /\ a.rows \in 0..MaxRows /\ a.names \in SUBSET Names /\ a.at \in Nat /\ a.fits \in Methods
      /\ calls[c].op = "document" => Cardinality(a.names) <= MaxSections
      /\ calls[c].op = "bands" => a.rows = 0 /\ a.names = {}
  BY <1>1, <1>2, WriteArgsOf
<1>4. MaxRows \in Nat /\ MaxRows <= MaxQuestions /\ MaxQuestions \in Nat /\ MaxSections \in Nat
  BY BoundsAssumption
<1>5. method' = m /\ bands' = Insert([b \in {c} \X a.bands |-> b[2]], Kept(c, bands))
  BY DEF CommitImport
<1>6. /\ Apart(questions, method) /\ Cardinality(DOMAIN questions) <= MaxQuestions
      /\ IsInjective(sections) /\ Cardinality(DOMAIN sections) <= MaxSections
      /\ IsInjective(bands)
  BY DEF Sound, Apart
\* What a transaction nobody overtook spares, of the tables it empties.
<1>7. QuestionsSpared(c) => DOMAIN questions \ calls[c].held = {}
  <2>1. /\ IsFiniteSet(DOMAIN questions \ calls[c].held)
        /\ Cardinality(DOMAIN questions \ calls[c].held) \in Nat
    BY <1>1, FS_Subset, FS_CardinalityType
  <2>2. Overtaken(c) * MaxRows = 0
    BY <1>4, AloneIsFirst
  <2>3. QuestionsSpared(c) => Cardinality(DOMAIN questions \ calls[c].held) = 0
    <3>1. QuestionsSpared(c) => Cardinality(DOMAIN questions \ calls[c].held) <= 0
      BY <1>2, <2>2, Zenon DEF QuestionsSpared
    <3> QED BY <2>1, <3>1
  <2> QED BY <2>1, <2>3, FS_EmptySet
<1>8. calls[c].op = "document" => DOMAIN sections \ calls[c].held = {}
  <2>1. /\ IsFiniteSet(DOMAIN sections \ calls[c].held)
        /\ Cardinality(DOMAIN sections \ calls[c].held) \in Nat
    BY <1>1, FS_Subset, FS_CardinalityType
  <2>2. Overtaken(c) * Cardinality(Names) = 0
    BY AloneIsFirst, RowsAreFinite
  <2>3. calls[c].op = "document" => Cardinality(DOMAIN sections \ calls[c].held) = 0
    <3>1. calls[c].op = "document" => Cardinality(DOMAIN sections \ calls[c].held) <= 0
      BY <1>1, <1>2, <2>2, Zenon DEF ImportCallTrue
    <3> QED BY <2>1, <3>1
  <2> QED BY <2>1, <2>3, FS_EmptySet
<1>9. calls[c].op \in {"document", "bands"} => DOMAIN bands \ calls[c].held = {}
  BY <1>1, <1>2 DEF ImportCallTrue
<1>10. /\ calls[c].op = "document" => QuestionsSpared(c)
       /\ calls[c].op = "import" =>
             /\ a.fits = method /\ a.bands = {}
             /\ QuestionsSpared(c) \/ (RoomForQuestions(c, a.rows) /\ Appends(c))
             /\ RoomForSections(c, a.names)
             /\ \A s \in DOMAIN sections : sections[s] \notin a.names
  BY <1>1, <1>2 DEF ImportCallTrue, NameFree
\* Its questions.
<1>11. Apart(questions', m)
  <2>1. PlacedFrom(new, c, a.rows, a.at, a.fits)
    BY <1>3, NewPlaces DEF PlacedFrom
  <2>2. \A q \in DOMAIN Kept(c, questions) :
           /\ q \in DOMAIN questions /\ q \notin calls[c].held
           /\ Kept(c, questions)[q] = questions[q]
    <3>1. ASSUME NEW q \in DOMAIN Kept(c, questions)
          PROVE  /\ q \in DOMAIN questions /\ q \notin calls[c].held
                 /\ Kept(c, questions)[q] = questions[q]
      BY DEF Kept, Restrict
    <3> QED BY <3>1
  <2>3. Apart(Kept(c, questions), m)
    BY <1>6, <1>7, <1>10, <2>2 DEF Apart
  <2>4. PlacesFree(Kept(c, questions), a.rows, a.at)
    <3>1. CASE QuestionsSpared(c)
      BY <1>7, <2>2, <3>1 DEF PlacesFree
    <3>2. CASE calls[c].op = "import" /\ Appends(c)
      <4>1. \A q \in DOMAIN questions : questions[q].order < a.at /\ questions[q].order \in Nat
        BY <3>2, TypingParts DEF Appends, TestOK, Question
      <4> QED BY <1>3, <2>2, <4>1 DEF PlacesFree
    <3>3. CASE calls[c].op = "bands"
      BY <1>3, <3>3 DEF PlacesFree
    <3> QED BY <1>2, <1>10, <3>1, <3>2, <3>3
  <2>5. a.rows \in Nat /\ (a.rows # 0 => a.fits = m)
    BY <1>2, <1>3, <1>10
  <2> HIDE DEF new, m
  <2> QED BY <1>2, <1>3, <2>1, <2>3, <2>4, <2>5, QuestionsApart
<1>12. Cardinality(DOMAIN questions') <= MaxQuestions
  <2>1. CASE QuestionsSpared(c)
    <3>1. DOMAIN questions' = Q
      BY <1>2, <1>7, <2>1
    <3> QED BY <1>2, <1>3, <1>4, <3>1
  <2>2. CASE calls[c].op = "import" /\ RoomForQuestions(c, a.rows)
    <3>1. Count + a.rows <= MaxQuestions
      BY <2>2, AloneIsFirst
    <3>2. DOMAIN questions' \subseteq DOMAIN questions \cup Q
      BY <1>2
    <3>3. /\ Cardinality(DOMAIN questions') \in Nat
          /\ Cardinality(DOMAIN questions') <= Cardinality(DOMAIN questions) + a.rows
      BY <1>1, <1>2, <3>2, AddedRows
    <3> QED BY <1>1, <1>3, <1>4, <3>1, <3>3 DEF Count
  <2>3. CASE calls[c].op = "bands"
    <3>1. DOMAIN questions' \subseteq DOMAIN questions
      BY <1>2, <1>3, <2>3
    <3>2. /\ Cardinality(DOMAIN questions') \in Nat
          /\ Cardinality(DOMAIN questions') <= Cardinality(DOMAIN questions)
      BY <1>1, <3>1, FS_Subset, FS_CardinalityType
    <3> QED BY <1>1, <1>4, <1>6, <3>2 DEF Count
  <2> QED BY <1>2, <1>10, <2>1, <2>2, <2>3
\* Its sections.
<1>13. IsInjective(sections')
  <2>1. IsInjective(Kept(c, sections))
    BY <1>6, KeptApart
  <2>2. \A s \in DOMAIN Kept(c, sections) :
           /\ s \in DOMAIN sections /\ s \notin calls[c].held
           /\ Kept(c, sections)[s] = sections[s]
    <3>1. ASSUME NEW s \in DOMAIN Kept(c, sections)
          PROVE  /\ s \in DOMAIN sections /\ s \notin calls[c].held
                 /\ Kept(c, sections)[s] = sections[s]
      BY DEF Kept, Restrict
    <3> QED BY <3>1
  <2>3. \A s \in DOMAIN Kept(c, sections) : Kept(c, sections)[s] \notin a.names
    BY <1>2, <1>3, <1>8, <1>10, <2>2
  <2> QED BY <1>2, <1>3, <2>1, <2>3, SectionsApart
<1>14. Cardinality(DOMAIN sections') <= MaxSections
  <2>1. Cardinality(a.names) \in Nat
    BY <1>3, NamesCounted
  <2>2. CASE calls[c].op = "document"
    <3>1. DOMAIN sections' = N
      BY <1>2, <1>8, <2>2
    <3> QED BY <1>2, <1>3, <2>2, <3>1
  <2>3. CASE calls[c].op = "import"
    <3>1. SectionCount + Cardinality(a.names) <= MaxSections
      BY <1>10, <2>3, AloneIsFirst
    <3>2. DOMAIN sections' \subseteq DOMAIN sections \cup N
      BY <1>2
    <3>3. /\ Cardinality(DOMAIN sections') \in Nat
          /\ Cardinality(DOMAIN sections') <= Cardinality(DOMAIN sections) + Cardinality(a.names)
      BY <1>1, <1>2, <3>2, AddedRows
    <3> QED BY <1>1, <1>4, <2>1, <3>1, <3>3 DEF SectionCount
  <2>4. CASE calls[c].op = "bands"
    <3>1. DOMAIN sections' \subseteq DOMAIN sections
      BY <1>2, <1>3, <2>4
    <3>2. /\ Cardinality(DOMAIN sections') \in Nat
          /\ Cardinality(DOMAIN sections') <= Cardinality(DOMAIN sections)
      BY <1>1, <3>1, FS_Subset, FS_CardinalityType
    <3> QED BY <1>1, <1>4, <1>6, <3>2 DEF SectionCount
  <2> QED BY <1>2, <2>2, <2>3, <2>4
\* Its bands.
<1>15. IsInjective(bands')
  <2> DEFINE fresh == [b \in {c} \X a.bands |-> b[2]]
  <2>1. IsInjective(fresh)
    BY DEF IsInjective
  <2>2. IsInjective(Kept(c, bands))
    BY <1>6, KeptApart
  <2>3. DOMAIN fresh = {} \/ DOMAIN Kept(c, bands) = {}
    <3>1. DOMAIN Kept(c, bands) = DOMAIN bands \ calls[c].held
      BY KeptRows
    <3> QED BY <1>2, <1>9, <1>10, <3>1
  <2> HIDE DEF fresh
  <2> QED BY <1>5, <2>1, <2>2, <2>3, InsertedApart DEF fresh
<1> QED BY <1>5, <1>11, <1>12, <1>13, <1>14, <1>15 DEF Sound, Apart

\* The checks are enough for one admin: a call nobody wrote in between keeps a
\* sound test sound (createQuestion ... replaceDocument).
THEOREM OneAdminIsSafe == Spec => KeepsSound
<1>1. ASSUME EInv, [Next]_vars
      PROVE  [\A c \in Calls :
                (InFlight(c) /\ calls[c].alone /\ calls'[c] = Done /\ Sound) => Sound']_vars
  <2>1. SUFFICES ASSUME ~UNCHANGED vars, NEW c \in Calls,
                        InFlight(c), calls[c].alone, calls'[c] = Done, Sound
                 PROVE  Sound'
    OBVIOUS
  <2>2. PICK d \in Calls : Handler(d) \/ Drop(d)
    BY <1>1, <2>1 DEF Next
  <2>3. Typing /\ CallTrue(c) /\ CallsOK
    BY <1>1, <2>1 DEF EInv, Typing, CallsTrue
  <2>4. c = d
    BY <2>1, <2>2, <2>3, EndsItself
  <2>5. UNCHANGED structure => Sound'
    BY <2>1 DEF structure, Sound
  <2>6. Quiet(c) => Sound'
    BY <2>5 DEF Quiet
  <2>7. RecordUpload(c) \/ DeleteFile(c) => Sound'
    BY <2>5 DEF RecordUpload, DeleteFile, Store, structure
  <2>8. \/ InsertSection(c) \/ RenameSection(c) \/ DeleteSection(c)
        \/ InsertQuestion(c) \/ InsertCopy(c) \/ WriteOptions(c)
        \/ DeleteQuestion(c) \/ WritePlaces(c) \/ CommitImport(c) \/ WriteSettings(c)
        => Sound'
    BY <2>1, <2>3, SectionsStaySound, QuestionsStaySound, ImportStaysSound, SettingsStaySound
  <2> QED BY <2>2, <2>3, <2>4, <2>6, <2>7, <2>8, ChecksAreQuiet, StatementsAreQuiet DEF Handler
<1> QED BY <1>1, Invariance, PTL DEF Spec, KeepsSound

=============================================================================
