--------------------------- MODULE StaffPageProofs ---------------------------
(***************************************************************************)
(* PInv is an invariant of StaffPage, for any forms, fields, questions and *)
(* files and any number of calls under way, and what follows from it.      *)
(***************************************************************************)
EXTENDS StaffPageInv, FunctionTheorems, FiniteSetTheorems, SequenceTheorems, TLAPS

-----------------------------------------------------------------------------
(* Tests: orders of questions and fields.                                   *)

LEMMA OrderIs ==
    ASSUME NEW o \in Orders
    PROVE  /\ o \in Seq(Ids) /\ Len(o) \in Nat /\ DOMAIN o = 1 .. Len(o)
           /\ \A i \in DOMAIN o : o[i] \in Ids
           /\ \A i, j \in DOMAIN o : o[i] = o[j] => i = j
BY DEF Orders, IsInjective

LEMMA OrderMade ==
    ASSUME NEW o \in Seq(Ids), \A i, j \in DOMAIN o : o[i] = o[j] => i = j
    PROVE  o \in Orders
BY DEF Orders, IsInjective

LEMMA SwappedOrder ==
    ASSUME NEW o \in Orders, NEW i \in DOMAIN o, NEW j \in DOMAIN o
    PROVE  /\ Swapped(o, i, j) \in Orders /\ Len(Swapped(o, i, j)) = Len(o)
           /\ Range(Swapped(o, i, j)) = Range(o)
<1> DEFINE s == Swapped(o, i, j)
<1>1. /\ o \in Seq(Ids) /\ Len(o) \in Nat /\ DOMAIN o = 1 .. Len(o)
      /\ \A k \in DOMAIN o : o[k] \in Ids
      /\ \A k, l \in DOMAIN o : o[k] = o[l] => k = l
  BY OrderIs
<1>2. DOMAIN s = DOMAIN o /\ \A k \in DOMAIN o : s[k] = IF k = j THEN o[i] ELSE IF k = i THEN o[j] ELSE o[k]
  BY <1>1 DEF Swapped
<1>3. s \in Seq(Ids)
  <2>1. s \in [1 .. Len(o) -> Ids]
    BY <1>1 DEF Swapped
  <2> QED BY <1>1, <2>1
<1>4. Len(s) = Len(o)
  BY <1>1, <1>2, <1>3
<1> HIDE DEF s
<1>5. \A k, l \in DOMAIN s : s[k] = s[l] => k = l
  BY <1>1, <1>2
<1>6. Range(s) = Range(o)
  <2>1. \A k \in DOMAIN s : s[k] \in Range(o)
    BY <1>2 DEF Range
  <2>2. \A k \in DOMAIN o : o[k] \in Range(s)
    <3> TAKE k \in DOMAIN o
    <3>1. s[j] = o[i] /\ s[i] = o[j]
      BY <1>1, <1>2
    <3>2. k = i \/ k = j \/ s[k] = o[k]
      BY <1>2
    <3> QED BY <1>2, <3>1, <3>2 DEF Range
  <2> QED BY <2>1, <2>2 DEF Range
<1>7. s \in Orders
  BY <1>3, <1>5, OrderMade
<1> QED BY <1>4, <1>6, <1>7 DEF s

LEMMA RemovedOrder ==
    ASSUME NEW o \in Orders, NEW i \in DOMAIN o
    PROVE  RemoveAt(o, i) \in Orders
<1> DEFINE s == RemoveAt(o, i)
<1>1. /\ o \in Seq(Ids) /\ Len(o) \in Nat /\ DOMAIN o = 1 .. Len(o)
      /\ \A k \in DOMAIN o : o[k] \in Ids
      /\ \A k, l \in DOMAIN o : o[k] = o[l] => k = l
  BY OrderIs
<1> DEFINE a == SubSeq(o, 1, i - 1)
           b == SubSeq(o, i + 1, Len(o))
<1>5. /\ a \in Seq(Ids) /\ Len(a) = i - 1 /\ \A k \in 1 .. i - 1 : a[k] = o[k]
      /\ b \in Seq(Ids) /\ Len(b) = Len(o) - i /\ \A k \in 1 .. Len(o) - i : b[k] = o[k + i]
  BY <1>1
<1>6. s = a \o b
  BY DEF RemoveAt
<1> HIDE DEF a, b, s
<1>9. a \in Seq(Ids) /\ b \in Seq(Ids)
  BY <1>5
<1>7. /\ s \in Seq(Ids) /\ Len(s) = Len(a) + Len(b)
      /\ \A k \in 1 .. Len(a) + Len(b) : s[k] = IF k <= Len(a) THEN a[k] ELSE b[k - Len(a)]
  BY <1>6, <1>9, ConcatProperties, Zenon
<1>8. i \in 1 .. Len(o) /\ Len(s) = Len(o) - 1
  BY <1>1, <1>5, <1>7
<1>2. s \in Seq(Ids) /\ DOMAIN s = 1 .. (Len(o) - 1)
  <2>1. DOMAIN s = 1 .. Len(s)
    BY <1>7, LenProperties
  <2> QED BY <1>7, <1>8, <2>1
<1>3. \A k \in DOMAIN s : s[k] = IF k < i THEN o[k] ELSE o[k + 1]
  <2> TAKE k \in DOMAIN s
  <2>1. k \in 1 .. Len(s) /\ k \in 1 .. (Len(o) - 1)
    BY <1>2, <1>8
  <2>2. k < i => s[k] = a[k] /\ k \in 1 .. i - 1
    BY <1>5, <1>7, <1>8, <2>1
  <2>3. ~(k < i) => s[k] = b[k - (i - 1)] /\ k - (i - 1) \in 1 .. Len(o) - i /\ k - (i - 1) + i = k + 1
    BY <1>1, <1>5, <1>7, <1>8, <2>1
  <2> QED BY <1>5, <2>2, <2>3
<1>4. \A k, l \in DOMAIN s : s[k] = s[l] => k = l
  <2> TAKE k, l \in DOMAIN s
  <2>1. k \in 1 .. Len(o) - 1 /\ l \in 1 .. Len(o) - 1
    BY <1>2
  <2>2. {k, l, k + 1, l + 1} \subseteq DOMAIN o
    BY <1>1, <2>1
  <2>3. s[k] = o[IF k < i THEN k ELSE k + 1] /\ s[l] = o[IF l < i THEN l ELSE l + 1]
    BY <1>3
  <2>4. s[k] = s[l] => (IF k < i THEN k ELSE k + 1) = (IF l < i THEN l ELSE l + 1)
    BY <1>1, <2>2, <2>3
  <2> QED BY <1>1, <2>1, <2>4
<1> QED BY <1>2, <1>4, OrderMade DEF s

LEMMA AppendedOrder ==
    ASSUME NEW o \in Orders, NEW q \in Ids \ Range(o)
    PROVE  Append(o, q) \in Orders
<1>1. /\ o \in Seq(Ids) /\ Len(o) \in Nat /\ DOMAIN o = 1 .. Len(o)
      /\ \A k, l \in DOMAIN o : o[k] = o[l] => k = l
  BY OrderIs
<1>2. \A k \in DOMAIN o : o[k] # q
  BY DEF Range
<1>3. /\ Append(o, q) \in Seq(Ids) /\ DOMAIN Append(o, q) = 1 .. Len(o) + 1
      /\ \A k \in DOMAIN Append(o, q) : Append(o, q)[k] = IF k = Len(o) + 1 THEN q ELSE o[k]
  BY <1>1
<1>4. \A k, l \in DOMAIN Append(o, q) : Append(o, q)[k] = Append(o, q)[l] => k = l
  BY <1>1, <1>2, <1>3
<1> QED BY <1>3, <1>4, OrderMade

LEMMA SingleOrder ==
    ASSUME NEW q \in Ids
    PROVE  <<q>> \in Orders
<1>1. <<q>> \in Seq(Ids) /\ DOMAIN <<q>> = {1}
  OBVIOUS
<1> QED BY <1>1, OrderMade

\* Two orders of the same questions are of the same length.
LEMMA SameLength ==
    ASSUME NEW o \in Orders, NEW p \in Orders, Range(o) = Range(p)
    PROVE  Len(o) = Len(p)
<1>1. \A s \in Orders : Cardinality(Range(s)) = Len(s)
  <2> TAKE s \in Orders
  <2>1. /\ Len(s) \in Nat /\ DOMAIN s = 1 .. Len(s) /\ s \in Seq(Ids)
        /\ \A i, j \in DOMAIN s : s[i] = s[j] => i = j
    BY OrderIs
  <2>2. s \in [1 .. Len(s) -> Range(s)]
    BY <2>1 DEF Range
  <2>3. s \in Bijection(1 .. Len(s), Range(s))
    <3>1. s \in Injection(1 .. Len(s), Range(s))
      BY <2>1, <2>2 DEF Injection, IsInjective
    <3>2. s \in Surjection(1 .. Len(s), Range(s))
      BY <2>1, <2>2 DEF Surjection, Range
    <3> QED BY <3>1, <3>2 DEF Bijection
  <2>4. ExistsBijection(1 .. Len(s), Range(s))
    BY <2>3 DEF ExistsBijection
  <2> QED BY <2>1, <2>4, FS_CountingElements
<1> QED BY <1>1

LEMMA TestIs ==
    ASSUME NEW t \in Tests
    PROVE  /\ t.order \in Orders /\ t.is \in [Cells -> Values]
           /\ t = [order |-> t.order, is |-> t.is]
           /\ \A o \in Orders : /\ [t EXCEPT !.order = o] \in Tests
                                /\ [t EXCEPT !.order = o].order = o
                                /\ [t EXCEPT !.order = o].is = t.is
           /\ \A p \in [Cells -> Values] : /\ [t EXCEPT !.is = p] \in Tests
                                           /\ [t EXCEPT !.is = p].order = t.order
                                           /\ [t EXCEPT !.is = p].is = p
BY DEF Tests

LEMMA TestSame ==
    ASSUME NEW t \in Tests, NEW u \in Tests, t.order = u.order, t.is = u.is
    PROVE  t = u
BY DEF Tests

LEMMA PatchIs ==
    ASSUME NEW p \in Patches
    PROVE  /\ DOMAIN p \subseteq Cells /\ \A x \in DOMAIN p : p[x] \in Values
           /\ p = [x \in DOMAIN p |-> p[x]]
BY DEF Patches

LEMMA PatchMade ==
    ASSUME NEW xs \in SUBSET Cells, NEW p \in [xs -> Values]
    PROVE  p \in Patches
BY DEF Patches

LEMMA EmptyPatch == <<>> \in Patches
<1>1. <<>> \in [{} -> Values]
  OBVIOUS
<1> QED BY <1>1, PatchMade

LEMMA CellsAre == Fields \subseteq Cells /\ Sections \in Cells /\ Place \in Fields /\ Method \in Fields
<1>1. FieldsOf["question"] \subseteq Fields /\ FieldsOf["settings"] \subseteq Fields
  BY StaffPageAssumption DEF Fields, Forms, Range
<1> QED BY <1>1, StaffPageAssumption DEF Cells

LEMMA WrittenIs ==
    ASSUME NEW t \in Tests, NEW p, \A x \in DOMAIN p : p[x] \in Values
    PROVE  /\ Written(t, p) \in Tests /\ Written(t, p).order = t.order
           /\ \A x \in Cells : x \in DOMAIN p => Written(t, p).is[x] = p[x]
<1> DEFINE is == [x \in Cells |-> IF x \in DOMAIN p THEN p[x]
                                 ELSE IF x = Place /\ Sections \in DOMAIN p THEN NoSection ELSE t.is[x]]
<1>1. is \in [Cells -> Values]
  BY TestIs, StaffPageAssumption
<1>2. Written(t, p) = [t EXCEPT !.is = is]
  BY TestIs DEF Written
<1>3. \A x \in Cells : x \in DOMAIN p => is[x] = p[x]
  OBVIOUS
<1> HIDE DEF is
<1>4. Written(t, p) \in Tests /\ Written(t, p).order = t.order /\ Written(t, p).is = is
  BY <1>1, <1>2, TestIs
<1> QED BY <1>3, <1>4

\* Whether the page has a place for a form doesn't depend on the order.
LEMMA HasSame ==
    ASSUME NEW t, NEW u, t.is = u.is, Range(t.order) = Range(u.order), NEW f, NEW flt
    PROVE  Has(f, t, flt) <=> Has(f, u, flt)
BY DEF Has, Listed, HasSections

\* The library's row tells how many questions there are and what the settings say.
LEMMA SummarySame ==
    ASSUME NEW t \in Tests, NEW u \in Tests, Len(t.order) = Len(u.order), t.is = u.is
    PROVE  Summary(t) = Summary(u)
BY DEF Summary

-----------------------------------------------------------------------------
(* Forms and their fields.                                                  *)

\* What each form is.
LEMMA FormIs ==
    ASSUME NEW f \in Forms
    PROVE  /\ FieldsOf[f] \subseteq Fields /\ FieldsOf[f] # {} /\ IsFiniteSet(FieldsOf[f])
           /\ Form[f].there \in BOOLEAN /\ Form[f].waits \in BOOLEAN
           /\ Form[f].then \in {"fill", "keep", "close"}
           /\ Form[f].then = "close" <=> f = "question"
           /\ Form[f].then = "fill" <=> f \in {"settings", "bands"}
           /\ Form[f].then # "keep" => Form[f].sends # "changes, one by one"
           /\ Form[f].there <=> f \in {"settings", "bands", "weights"}
           /\ f # "question" => Form[f].waits /\ Form[f].against = "page"
<1>1. f \in {"settings", "bands", "weights", "section", "question"}
  BY StaffPageAssumption
<1>2. FieldsOf[f] \subseteq Fields /\ FieldsOf[f] # {} /\ IsFiniteSet(FieldsOf[f])
  BY StaffPageAssumption DEF Fields, Forms, Range
<1>3. /\ f = "settings" => Form[f] = SettingsTab
      /\ f = "bands" => Form[f] = BandsForm
      /\ f = "weights" => Form[f] = WeightsForm
      /\ f = "section" => Form[f] = SectionRow
      /\ f = "question" => Form[f] = QuestionForm
  BY DEF Form
<1>4. /\ SettingsTab.there = TRUE /\ SettingsTab.waits = TRUE /\ SettingsTab.then = "fill"
      /\ SettingsTab.sends = "changes" /\ SettingsTab.against = "page"
  BY DEF SettingsTab
<1>5. /\ BandsForm.there = TRUE /\ BandsForm.waits = TRUE /\ BandsForm.then = "fill"
      /\ BandsForm.sends = "all" /\ BandsForm.against = "page"
  BY DEF BandsForm
<1>6. /\ WeightsForm.there = TRUE /\ WeightsForm.waits = TRUE /\ WeightsForm.then = "keep"
      /\ WeightsForm.against = "page"
  BY DEF WeightsForm
<1>7. /\ SectionRow.there = FALSE /\ SectionRow.waits = TRUE /\ SectionRow.then = "keep"
      /\ SectionRow.against = "page"
  BY DEF SectionRow
<1>8. /\ QuestionForm.there = FALSE /\ QuestionForm.waits = FALSE /\ QuestionForm.then = "close"
      /\ QuestionForm.sends = "all"
  BY DEF QuestionForm
<1>9. CASE f = "settings"
  BY <1>2, <1>3, <1>4, <1>9
<1>10. CASE f = "bands"
  BY <1>2, <1>3, <1>5, <1>10
<1>11. CASE f = "weights"
  BY <1>2, <1>3, <1>6, <1>11
<1>12. CASE f = "section"
  BY <1>2, <1>3, <1>7, <1>12
<1>13. CASE f = "question"
  BY <1>2, <1>3, <1>8, <1>13
<1> QED BY <1>1, <1>9, <1>10, <1>11, <1>12, <1>13

LEMMA FieldIs ==
    ASSUME NEW x \in Fields
    PROVE  /\ FormOf(x) \in Forms /\ x \in FieldsOf[FormOf(x)]
           /\ \A f \in Forms : x \in FieldsOf[f] => f = FormOf(x)
<1>1. \E f \in Forms : x \in FieldsOf[f]
  BY DEF Fields, Forms, Range
<1>2. FormOf(x) \in Forms /\ x \in FieldsOf[FormOf(x)]
  BY <1>1 DEF FormOf
<1>3. \A f, g \in Forms : f # g => FieldsOf[f] \cap FieldsOf[g] = {}
  BY StaffPageAssumption
<1> QED BY <1>2, <1>3

LEMMA FieldsInIs ==
    ASSUME NEW fs \in SUBSET Forms
    PROVE  /\ FieldsIn(fs) \subseteq Fields
           /\ \A f \in Forms : \A x \in FieldsOf[f] : x \in FieldsIn(fs) <=> f \in fs
<1>1. ASSUME NEW x \in FieldsIn(fs)
      PROVE  x \in Fields
  <2>1. PICK f \in fs : x \in FieldsOf[f]
    BY DEF FieldsIn
  <2> QED BY <2>1, FormIs
<1>2. \A f \in Forms : \A x \in FieldsOf[f] : f \in fs => x \in FieldsIn(fs)
  BY DEF FieldsIn
<1>3. ASSUME NEW f \in Forms, NEW x \in FieldsOf[f], x \in FieldsIn(fs)
      PROVE  f \in fs
  <2>1. PICK g \in fs : x \in FieldsOf[g]
    BY <1>3 DEF FieldsIn
  <2>2. x \in Fields
    BY FormIs
  <2> QED BY <2>1, <2>2, FieldIs
<1> QED BY <1>1, <1>2, <1>3

LEMMA SetInOrder ==
    ASSUME NEW S, IsFiniteSet(S)
    PROVE  SetToSeq(S) \in Seq(S) /\ (S # {} => SetToSeq(S) # <<>>)
<1> DEFINE n == Cardinality(S)
           f == SetToSeq(S)
<1>1. n \in Nat /\ ExistsBijection(1 .. n, S)
  BY FS_CardinalityType
<1>2. PICK g : g \in Bijection(1 .. n, S)
  BY <1>1, Fun_ExistsBij
<1>3. g \in [1 .. n -> S] /\ IsInjective(g)
  <2>1. g \in [1 .. n -> S] /\ \A a, b \in 1 .. n : g[a] = g[b] => a = b
    BY <1>2, Fun_BijectionProperties, Zenon
  <2> QED BY <2>1 DEF IsInjective
<1>4. f \in [1 .. n -> S]
  BY <1>3 DEF SetToSeq
<1>5. f \in Seq(S) /\ DOMAIN f = 1 .. n
  BY <1>1, <1>4
<1>6. S # {} => n # 0
  BY FS_EmptySet
<1>7. n # 0 => f # <<>>
  BY <1>1, <1>5
<1> QED BY <1>5, <1>6, <1>7

-----------------------------------------------------------------------------
(* Calls.                                                                   *)

LEMMA CallIs ==
    ASSUME NEW c \in CallShape
    PROVE  /\ c.op \in {"save", "drop", "move", "read", "check", "import"}
           /\ c.state \in {"sent", "back", "over"} /\ c.form \in Forms \cup {None}
           /\ c.todo \in Seq(Patches) /\ c.sent \in Patches /\ c.ids \in Seq(Ids)
           /\ c.prev \in Tests \cup {None} /\ c.file \in Files \cup {None}
           /\ c.mode \in {"append", "replace", None} /\ c.got \in Tests \cup {None}
           /\ c.at \in Nat /\ c.late \in BOOLEAN /\ c.ready \in BOOLEAN
BY DEF CallShape

LEMMA NewCallIs ==
    ASSUME NEW op \in {"save", "drop", "move", "read", "check", "import"}
    PROVE  /\ NewCall(op) \in CallShape
           /\ NewCall(op).op = op /\ NewCall(op).state = "sent" /\ NewCall(op).got = None
           /\ ~NewCall(op).late /\ NewCall(op).at = 0
<1>1. <<>> \in Patches
  BY EmptyPatch
<1> QED BY <1>1 DEF NewCall, CallShape

LEMMA EndedIs ==
    ASSUME NEW c \in CallShape
    PROVE  /\ Ended(c) \in CallShape /\ Ended(c).state = "over" /\ Ended(c).op = c.op
           /\ c.op \in {"check", "import"} =>
                /\ Ended(c).file = c.file /\ Ended(c).mode = c.mode /\ Ended(c).ready = c.ready
<1>1. CASE c.op \in {"check", "import"}
  <2> DEFINE a == [c EXCEPT !.state = "over"]
             b == [a EXCEPT !.got = None]
  <2>1. /\ a \in CallShape /\ a.state = "over" /\ a.op = c.op
        /\ a.file = c.file /\ a.mode = c.mode /\ a.ready = c.ready
    BY DEF CallShape
  <2> HIDE DEF a
  <2>2. /\ b \in CallShape /\ b.state = "over" /\ b.op = c.op
        /\ b.file = c.file /\ b.mode = c.mode /\ b.ready = c.ready
    BY <2>1 DEF CallShape
  <2>3. Ended(c) = [b EXCEPT !.at = 0]
    BY <1>1 DEF Ended, a
  <2> HIDE DEF b
  <2> QED BY <2>2, <2>3 DEF CallShape
<1>2. CASE c.op \notin {"check", "import"}
  <2>1. Ended(c) = [NewCall(c.op) EXCEPT !.state = "over"]
    BY <1>2 DEF Ended
  <2>2. NewCall(c.op) \in CallShape /\ NewCall(c.op).op = c.op
    BY CallIs, NewCallIs
  <2> QED BY <1>2, <2>1, <2>2 DEF CallShape
<1> QED BY <1>1, <1>2

LEMMA CallsAre ==
    ASSUME CallsOK
    PROVE  /\ calls \in Seq(CallShape) /\ Len(calls) \in Nat /\ DOMAIN calls = 1 .. Len(calls)
           /\ \A n \in DOMAIN calls : calls[n] \in CallShape /\ n \in Nat /\ n # 0
BY DEF CallsOK

\* What a call knows of the test stays true while the version goes up.
LEMMA TrueStays ==
    ASSUME NEW c \in CallShape, NEW v \in Nat, NEW w \in Nat, v <= w, NEW t, NEW u,
           v = w => t = u, CallTrue(c, v, t)
    PROVE  CallTrue(c, w, u)
<1>1. c.at \in Nat
  BY CallIs
<1>2. c.got # None => c.at <= w /\ (c.at = w => c.got = u)
  BY <1>1 DEF CallTrue
<1> QED BY <1>2 DEF CallTrue

LEMMA CallsGrow ==
    ASSUME CallsOK, NEW k \in CallShape, CallTrue(k, version, test), UNCHANGED server,
           calls' = Append(calls, k)
    PROVE  /\ CallsOK' /\ Len(calls') = Len(calls) + 1 /\ Len(calls') \in DOMAIN calls'
           /\ DOMAIN calls' = DOMAIN calls \cup {Len(calls')} /\ Len(calls') \notin DOMAIN calls
           /\ \A n \in DOMAIN calls : calls'[n] = calls[n]
           /\ calls'[Len(calls')] = k
<1>1. calls \in Seq(CallShape) /\ Len(calls) \in Nat /\ DOMAIN calls = 1 .. Len(calls)
  BY CallsAre
<1>2. /\ calls' \in Seq(CallShape) /\ Len(calls') = Len(calls) + 1 /\ DOMAIN calls' = 1 .. Len(calls')
      /\ \A n \in DOMAIN calls : calls'[n] = calls[n]
      /\ calls'[Len(calls')] = k
  BY <1>1
<1>3. DOMAIN calls' = DOMAIN calls \cup {Len(calls')} /\ Len(calls') \notin DOMAIN calls
  BY <1>1, <1>2
<1>4. \A n \in DOMAIN calls' : UnderWay(n)' => CallTrue(calls[n]', version', test')
  BY <1>2, <1>3 DEF CallsOK, UnderWay, server
<1>5. CallsOK'
  BY <1>2, <1>4 DEF CallsOK
<1> QED BY <1>1, <1>2, <1>3, <1>5

LEMMA CallsChange ==
    ASSUME CallsOK, NEW n \in DOMAIN calls, NEW k \in CallShape,
           k.state # "over" => CallTrue(k, version', test'),
           version \in Nat, version' \in Nat, version <= version', version = version' => test = test',
           calls' = [calls EXCEPT ![n] = k]
    PROVE  /\ CallsOK' /\ DOMAIN calls' = DOMAIN calls /\ Len(calls') = Len(calls)
           /\ \A m \in DOMAIN calls : calls'[m] = IF m = n THEN k ELSE calls[m]
<1>1. /\ calls \in Seq(CallShape) /\ Len(calls) \in Nat /\ DOMAIN calls = 1 .. Len(calls)
      /\ \A m \in DOMAIN calls : calls[m] \in CallShape
  BY CallsAre
<1>2. /\ calls' \in Seq(CallShape) /\ DOMAIN calls' = DOMAIN calls /\ Len(calls') = Len(calls)
      /\ \A m \in DOMAIN calls : calls'[m] = IF m = n THEN k ELSE calls[m]
  BY <1>1
<1>3. ASSUME NEW m \in DOMAIN calls', UnderWay(m)'
      PROVE  CallTrue(calls[m]', version', test')
  <2>1. CASE m = n
    BY <1>2, <1>3, <2>1 DEF UnderWay
  <2>2. CASE m # n
    <3>1. calls'[m] = calls[m] /\ calls[m] \in CallShape /\ CallTrue(calls[m], version, test)
      BY <1>1, <1>2, <1>3, <2>2 DEF CallsOK, UnderWay
    <3> QED BY <3>1, TrueStays
  <2> QED BY <2>1, <2>2
<1>4. CallsOK'
  BY <1>2, <1>3 DEF CallsOK
<1> QED BY <1>2, <1>4

LEMMA ServedIs ==
    ASSUME NEW c \in CallShape, NEW t \in Tests, NEW v \in Nat, NEW l \in BOOLEAN, NEW k,
           k = Replied(c, t, v, l)
    PROVE  /\ k \in CallShape /\ k.state = "back" /\ k.got = t /\ k.at = v
           /\ k.late <=> (c.late \/ l)
           /\ k.todo = IF c.todo = <<>> THEN <<>> ELSE Tail(c.todo)
           /\ k.op = c.op /\ k.form = c.form /\ k.sent = c.sent /\ k.ids = c.ids /\ k.prev = c.prev
           /\ k.file = c.file /\ k.mode = c.mode /\ k.ready = c.ready
<1> DEFINE late == c.late \/ l
           todo == IF c.todo = <<>> THEN c.todo ELSE Tail(c.todo)
           a == [c EXCEPT !.state = "back"]
           b == [a EXCEPT !.got = t]
           d == [b EXCEPT !.at = v]
           e == [d EXCEPT !.late = late]
<1>1. todo \in Seq(Patches) /\ todo = IF c.todo = <<>> THEN <<>> ELSE Tail(c.todo)
  BY CallIs
<1>2. late \in BOOLEAN /\ (late <=> (c.late \/ l))
  BY CallIs
<1>3. k = [e EXCEPT !.todo = todo]
  BY CallIs DEF CallShape, Replied
<1> HIDE DEF late, todo
<1>4. /\ a \in CallShape /\ a.state = "back"
      /\ a.op = c.op /\ a.form = c.form /\ a.sent = c.sent /\ a.ids = c.ids /\ a.prev = c.prev
      /\ a.file = c.file /\ a.mode = c.mode /\ a.ready = c.ready
  BY DEF CallShape
<1> HIDE DEF a
<1>5. /\ b \in CallShape /\ b.state = "back" /\ b.got = t
      /\ b.op = c.op /\ b.form = c.form /\ b.sent = c.sent /\ b.ids = c.ids /\ b.prev = c.prev
      /\ b.file = c.file /\ b.mode = c.mode /\ b.ready = c.ready
  BY <1>4 DEF CallShape
<1> HIDE DEF b
<1>6. /\ d \in CallShape /\ d.state = "back" /\ d.got = t /\ d.at = v
      /\ d.op = c.op /\ d.form = c.form /\ d.sent = c.sent /\ d.ids = c.ids /\ d.prev = c.prev
      /\ d.file = c.file /\ d.mode = c.mode /\ d.ready = c.ready
  BY <1>5 DEF CallShape
<1> HIDE DEF d
<1>7. /\ e \in CallShape /\ e.state = "back" /\ e.got = t /\ e.at = v /\ e.late = late
      /\ e.op = c.op /\ e.form = c.form /\ e.sent = c.sent /\ e.ids = c.ids /\ e.prev = c.prev
      /\ e.file = c.file /\ e.mode = c.mode /\ e.ready = c.ready
  BY <1>2, <1>6 DEF CallShape
<1> HIDE DEF e
<1>8. /\ k \in CallShape /\ k.state = "back" /\ k.got = t /\ k.at = v /\ k.late = late /\ k.todo = todo
      /\ k.op = c.op /\ k.form = c.form /\ k.sent = c.sent /\ k.ids = c.ids /\ k.prev = c.prev
      /\ k.file = c.file /\ k.mode = c.mode /\ k.ready = c.ready
  <2>1. todo \in Seq(Patches)
    BY <1>1
  <2> QED BY <1>3, <1>7, <2>1 DEF CallShape
<1> QED BY <1>1, <1>2, <1>8

Typed == TypeOK /\ Shapes

LEMMA TypedIs ==
    ASSUME Typed
    PROVE  /\ CallsOK /\ calls \in Seq(CallShape) /\ Len(calls) \in Nat /\ DOMAIN calls = 1 .. Len(calls)
           /\ test \in Tests /\ page \in Tests /\ version \in Nat /\ seen \in Nat /\ seen <= version
           /\ \A n \in DOMAIN calls : /\ calls[n] \in CallShape /\ n \in Nat /\ n # 0
                                      /\ UnderWay(n) => CallTrue(calls[n], version, test)
BY CallsAre DEF Typed, TypeOK, Shapes, CallsOK

LEMMA Served ==
    ASSUME Typed, NEW n \in DOMAIN calls, NEW t \in Tests, calls[n].state = "sent",
           calls[n].op \notin {"read", "check"}, calls[n].op = "move" => t.order = calls[n].ids,
           Serve(n, t)
    PROVE  /\ test' = t /\ version' = version + 1 /\ version' \in Nat
           /\ CallsOK' /\ DOMAIN calls' = DOMAIN calls /\ Len(calls') = Len(calls)
           /\ \A m \in DOMAIN calls : m # n => calls'[m] = calls[m]
           /\ calls'[n] \in CallShape /\ calls'[n].state = "back" /\ calls'[n].got = t
           /\ calls'[n].at = version + 1 /\ (calls'[n].late <=> (calls[n].late \/ Late(n)))
           /\ calls'[n].todo = IF calls[n].todo = <<>> THEN <<>> ELSE Tail(calls[n].todo)
           /\ calls'[n].op = calls[n].op /\ calls'[n].form = calls[n].form
           /\ calls'[n].sent = calls[n].sent /\ calls'[n].ids = calls[n].ids
           /\ calls'[n].prev = calls[n].prev /\ calls'[n].file = calls[n].file
           /\ calls'[n].mode = calls[n].mode /\ calls'[n].ready = calls[n].ready
<1> DEFINE c == calls[n]
           k == Replied(c, t, version + 1, Late(n))
<1>1. c \in CallShape /\ version \in Nat /\ version + 1 \in Nat /\ CallTrue(c, version, test) /\ CallsOK
  BY TypedIs DEF UnderWay
<1>2. Late(n) \in BOOLEAN
  BY DEF Late
<1>3. test' = t /\ version' = version + 1 /\ calls' = [calls EXCEPT ![n] = k]
  BY DEF Serve
<1> HIDE DEF k
<1>4. /\ k \in CallShape /\ k.state = "back" /\ k.got = t /\ k.at = version + 1
      /\ k.late <=> (c.late \/ Late(n))
      /\ k.todo = IF c.todo = <<>> THEN <<>> ELSE Tail(c.todo)
      /\ k.op = c.op /\ k.form = c.form /\ k.sent = c.sent /\ k.ids = c.ids /\ k.prev = c.prev
      /\ k.file = c.file /\ k.mode = c.mode /\ k.ready = c.ready
  BY <1>1, <1>2, ServedIs DEF k
<1> HIDE DEF c
<1>5. t # None
  BY NoneAssumption
<1>6. CallTrue(k, version + 1, t)
  BY <1>1, <1>4, <1>5 DEF CallTrue, c
<1>7. /\ CallsOK' /\ DOMAIN calls' = DOMAIN calls /\ Len(calls') = Len(calls)
      /\ \A m \in DOMAIN calls : calls'[m] = IF m = n THEN k ELSE calls[m]
  <2>1. k \in CallShape /\ CallTrue(k, version', test') /\ version' \in Nat /\ version <= version' /\ version # version'
    BY <1>1, <1>3, <1>4, <1>6
  <2> QED BY <1>1, <1>3, <2>1, CallsChange
<1> QED BY <1>1, <1>3, <1>4, <1>7 DEF c

-----------------------------------------------------------------------------
(* Types.                                                                   *)

FormsOK ==
    /\ draft \in [Fields -> Values \cup {None}] /\ filled \in [Fields -> Values \cup {None}]
    /\ owner \in [Forms -> 0 .. Len(calls)] /\ typed \in SUBSET Fields
    /\ wanted \in [Fields -> Values \cup {None}]
    /\ open \in SUBSET Forms /\ filter \in Filters

PageOK ==
    /\ page \in Tests /\ seen \in 0 .. version /\ onTop \in 0 .. Len(calls)
    /\ missed \in SUBSET {"other", "lost", "crossed", "rollback"}

DialogOK == dialog \in DialogShape /\ dialog.commit <= Len(calls)

ScreenOK ==
    /\ listStale \in BOOLEAN /\ listMissed \in BOOLEAN
    /\ screen \in {"editor", "failed", "library", "login"}

ServerOK == test \in Tests /\ version \in Nat

LEMMA TypedParts ==
    Typed <=> ServerOK /\ CallsOK /\ PageOK /\ FormsOK /\ DialogOK /\ ScreenOK
BY DEF Typed, TypeOK, Shapes, ServerOK, PageOK, FormsOK, DialogOK, ScreenOK

LEMMA TypedPartsNext ==
    Typed' <=> ServerOK' /\ CallsOK' /\ PageOK' /\ FormsOK' /\ DialogOK' /\ ScreenOK'
BY DEF Typed, TypeOK, Shapes, ServerOK, PageOK, FormsOK, DialogOK, ScreenOK

LEMMA Framed ==
    ASSUME Typed, CallsOK', version' \in Nat, version <= version', Len(calls) <= Len(calls')
    PROVE  /\ UNCHANGED forms => FormsOK'
           /\ UNCHANGED cache => PageOK'
           /\ UNCHANGED dialog => DialogOK'
           /\ UNCHANGED <<listStale, listMissed, screen>> => ScreenOK'
<1>1. /\ FormsOK /\ PageOK /\ DialogOK /\ ScreenOK /\ version \in Nat
      /\ Len(calls) \in Nat /\ Len(calls') \in Nat
  BY TypedParts, TypedIs DEF CallsOK
<1>2. 0 .. Len(calls) \subseteq 0 .. Len(calls') /\ 0 .. version \subseteq 0 .. version'
  BY <1>1
<1>3. UNCHANGED forms => FormsOK'
  BY <1>1, <1>2 DEF FormsOK, forms
<1>4. UNCHANGED cache => PageOK'
  BY <1>1, <1>2 DEF PageOK, cache
<1>5. UNCHANGED dialog => DialogOK'
  <2>1. dialog.commit \in Nat
    BY <1>1 DEF DialogOK, DialogShape
  <2> QED BY <1>1, <2>1 DEF DialogOK
<1> QED BY <1>1, <1>3, <1>4, <1>5 DEF ScreenOK

\* The same while neither the server nor the calls change.
LEMMA Framed0 ==
    ASSUME Typed, UNCHANGED server, UNCHANGED calls
    PROVE  /\ ServerOK' /\ CallsOK'
           /\ UNCHANGED forms => FormsOK'
           /\ UNCHANGED cache => PageOK'
           /\ UNCHANGED dialog => DialogOK'
           /\ UNCHANGED <<listStale, listMissed, screen>> => ScreenOK'
<1>1. ServerOK /\ CallsOK /\ version \in Nat /\ Len(calls) \in Nat
  BY TypedParts, TypedIs
<1>2. ServerOK' /\ CallsOK' /\ version' = version /\ Len(calls') = Len(calls)
  BY <1>1 DEF ServerOK, CallsOK, server, UnderWay
<1> QED BY <1>1, <1>2, Framed

LEMMA UnmountTyped ==
    ASSUME Typed, Unmount, wanted' \in [Fields -> Values \cup {None}], Len(calls') = Len(calls)
    PROVE  FormsOK'
<1>1. Len(calls) \in Nat
  BY TypedIs
<1>2. draft' \in [Fields -> Values \cup {None}] /\ filled' \in [Fields -> Values \cup {None}]
  BY DEF Unmount
<1>3. open' \in SUBSET Forms /\ filter' \in Filters /\ typed' \in SUBSET Fields
  BY DEF Unmount, Filters
<1>4. owner' \in [Forms -> 0 .. Len(calls)]
  BY <1>1 DEF Unmount
<1> QED BY <1>2, <1>3, <1>4 DEF FormsOK

LEMMA GivenUp ==
    ASSUME Typed, NEW fs, GiveUp(fs)
    PROVE  /\ wanted' \in [Fields -> Values \cup {None}]
           /\ \A x \in Fields : wanted'[x] = IF x \in FieldsIn(fs) THEN None ELSE wanted[x]
<1>1. FormsOK
  BY TypedParts
<1> QED BY <1>1 DEF GiveUp, FormsOK

LEMMA DisplayTyped ==
    ASSUME Typed, NEW t \in Tests, NEW on \in SUBSET Forms, NEW flt \in Filters, NEW refill, NEW saved \in Patches,
           Display(t, on, flt, refill, saved), wanted' \in [Fields -> Values \cup {None}],
           Len(calls') = Len(calls)
    PROVE  FormsOK'
<1>1. FormsOK /\ Len(calls) \in Nat /\ t.is \in [Cells -> Values] /\ Fields \subseteq Cells
  BY TypedParts, TypedIs, TestIs, CellsAre
<1>2. \A x \in DOMAIN saved : saved[x] \in Values
  BY PatchIs
<1> DEFINE there == {f \in on : Has(f, t, flt)}
           new   == {f \in there : f \in refill \/ ~Mounted(f)}
           stay  == FieldsIn(there \ new)
<1>3. /\ open' = on /\ filter' = flt
      /\ draft' = [x \in Fields |->
            IF x \in stay THEN draft[x] ELSE IF x \in FieldsIn(new) THEN t.is[x] ELSE None]
      /\ filled' = [x \in Fields |->
            IF x \in stay THEN IF x \in DOMAIN saved THEN saved[x] ELSE filled[x] ELSE draft'[x]]
      /\ typed' = (typed \cap stay) \ {x \in DOMAIN saved : draft[x] = saved[x]}
      /\ owner' = [f \in Forms |-> IF f \in there /\ Mounted(f) THEN owner[f] ELSE 0]
  BY DEF Display
<1> HIDE DEF there, new, stay
<1>4. draft' \in [Fields -> Values \cup {None}]
  BY <1>1, <1>3 DEF FormsOK
<1>5. filled' \in [Fields -> Values \cup {None}]
  BY <1>1, <1>2, <1>3, <1>4 DEF FormsOK
<1>6. typed' \in SUBSET Fields
  BY <1>1, <1>3 DEF FormsOK
<1>7. owner' \in [Forms -> 0 .. Len(calls)]
  BY <1>1, <1>3 DEF FormsOK
<1> QED BY <1>3, <1>4, <1>5, <1>6, <1>7 DEF FormsOK

LEMMA RedisplayTyped ==
    ASSUME Typed, NEW on \in SUBSET Forms, NEW flt \in Filters, NEW refill, Redisplay(on, flt, refill),
           wanted' \in [Fields -> Values \cup {None}], UNCHANGED calls
    PROVE  FormsOK' /\ UNCHANGED cache /\ UNCHANGED screen
<1>1. Display(page, on, flt, refill, <<>>) /\ UNCHANGED cache /\ UNCHANGED screen
  BY DEF Redisplay
<1>2. page \in Tests /\ <<>> \in Patches
  BY TypedIs, EmptyPatch
<1> QED BY <1>1, <1>2, DisplayTyped

LEMMA AlwaysThereIs == AlwaysThere \in SUBSET Forms
  BY DEF AlwaysThere

LEMMA ShowTyped ==
    ASSUME Typed, NEW t \in Tests, NEW refill, NEW close,
           NEW saved \in Patches, Show(t, refill, close, saved), Len(calls') = Len(calls)
    PROVE  /\ FormsOK' /\ page' = t /\ screen' \in {"editor", "failed", "library", "login"}
           /\ screen' = "login" <=> screen = "login"
<1> DEFINE on == (IF screen = "failed" THEN AlwaysThere ELSE open) \ close
<1>1. FormsOK /\ ScreenOK
  BY TypedParts
<1>2. /\ page' = t /\ Display(t, on, filter, refill, saved)
      /\ wanted' = [x \in Fields |-> IF t.is[x] = wanted[x] \/ draft[x] = None THEN None ELSE wanted[x]]
      /\ screen' = IF screen = "failed" THEN "editor" ELSE screen
  BY DEF Show
<1>3. on \in SUBSET Forms /\ filter \in Filters
  BY <1>1, AlwaysThereIs DEF FormsOK
<1> HIDE DEF on
<1>4. wanted' \in [Fields -> Values \cup {None}]
  BY <1>1, <1>2 DEF FormsOK
<1>5. FormsOK'
  BY <1>2, <1>3, <1>4, DisplayTyped
<1> QED BY <1>1, <1>2, <1>5 DEF ScreenOK

LEMMA InitTyped == Init => Typed
<1> SUFFICES ASSUME Init PROVE Typed
  OBVIOUS
<1>1. PICK q \in Ids : q # Edited /\ q = CHOOSE p \in Ids : p # Edited
  BY StaffPageAssumption
<1>2. <<Edited, q>> \in Orders
  <2>1. <<Edited, q>> \in Seq(Ids) /\ DOMAIN <<Edited, q>> = {1, 2}
    BY StaffPageAssumption
  <2>2. \A i, j \in DOMAIN <<Edited, q>> : <<Edited, q>>[i] = <<Edited, q>>[j] => i = j
    BY <1>1, <2>1
  <2> QED BY <2>1, <2>2, OrderMade
<1>3. (CHOOSE w \in Values : TRUE) \in Values
  BY StaffPageAssumption
<1>4. test \in Tests
  <2>1. PICK o \in {<<Edited, p>> : p \in {CHOOSE p \in Ids : p # Edited}},
             v \in {[x \in Cells |-> CHOOSE w \in Values : TRUE]} : test = [order |-> o, is |-> v]
    BY DEF Init
  <2>2. o = <<Edited, q>>
    BY <1>1
  <2>3. v \in [Cells -> Values]
    BY <1>3
  <2> QED BY <1>2, <2>1, <2>2, <2>3 DEF Tests
<1>5. ServerOK
  BY <1>4 DEF Init, ServerOK
<1>6. calls \in Seq(CallShape) /\ Len(calls) = 0 /\ DOMAIN calls = {}
  BY DEF Init
<1>7. CallsOK
  BY <1>6 DEF CallsOK
<1>8. PageOK
  BY <1>4, <1>6 DEF Init, PageOK
<1>9. FormsOK
  <2>1. test.is \in [Cells -> Values] /\ Fields \subseteq Cells
    BY <1>4, TestIs, CellsAre
  <2>2. open \in SUBSET Forms /\ filter \in Filters
    BY AlwaysThereIs DEF Init, Filters
  <2>3. draft \in [Fields -> Values \cup {None}] /\ filled \in [Fields -> Values \cup {None}]
    BY <2>1 DEF Init
  <2> QED BY <1>6, <2>2, <2>3 DEF Init, FormsOK
<1>10. DialogOK
  BY <1>6 DEF Init, DialogOK, NoDialog, DialogShape
<1>11. ScreenOK
  BY DEF Init, ScreenOK
<1> QED BY <1>5, <1>7, <1>8, <1>9, <1>10, <1>11, TypedParts

-----------------------------------------------------------------------------
(* New calls.                                                               *)

LEMMA NewIsTrue ==
    ASSUME NEW k, k.state = "sent", k.got = None, k.op \in {"save", "read", "check", "import", "drop"},
           k.op = "save" => k.todo # <<>>, k.op = "drop" => k.ids # <<>>, NEW v, NEW t
    PROVE  CallTrue(k, v, t)
BY DEF CallTrue

SaveCall(f, todo, p) == [NewCall("save") EXCEPT !.form = f, !.todo = todo, !.sent = p]

LEMMA SaveIs ==
    ASSUME NEW p \in Patches, NEW todo \in Seq(Patches), todo # <<>>, NEW f \in Forms \cup {None},
           NEW k, k = SaveCall(f, todo, p)
    PROVE  /\ k \in CallShape /\ k.op = "save" /\ k.state = "sent" /\ k.got = None /\ ~k.late
           /\ k.todo = todo /\ k.sent = p /\ k.form = f
           /\ CallTrue(k, version, test)
<1> DEFINE a == [NewCall("save") EXCEPT !.form = f]
           b == [a EXCEPT !.todo = todo]
<1>1. k = [b EXCEPT !.sent = p]
  BY DEF SaveCall
<1>2. /\ a \in CallShape /\ a.op = "save" /\ a.state = "sent" /\ a.got = None /\ ~a.late /\ a.form = f
  BY NewCallIs DEF CallShape
<1> HIDE DEF a
<1>3. /\ b \in CallShape /\ b.op = "save" /\ b.state = "sent" /\ b.got = None /\ ~b.late /\ b.form = f
      /\ b.todo = todo
  BY <1>2 DEF CallShape
<1> HIDE DEF b
<1>4. /\ k \in CallShape /\ k.op = "save" /\ k.state = "sent" /\ k.got = None /\ ~k.late /\ k.form = f
      /\ k.todo = todo /\ k.sent = p
  BY <1>1, <1>3 DEF CallShape
<1> QED BY <1>4, NewIsTrue

LEMMA PatchCallIs ==
    ASSUME NEW p \in Patches, NEW k, k = [NewCall("save") EXCEPT !.todo = <<p>>, !.sent = p]
    PROVE  /\ k \in CallShape /\ k.op = "save" /\ k.state = "sent" /\ k.got = None /\ ~k.late
           /\ CallTrue(k, version, test)
<1> DEFINE a == [NewCall("save") EXCEPT !.todo = <<p>>]
<1>1. k = [a EXCEPT !.sent = p]
  OBVIOUS
<1>2. <<p>> \in Seq(Patches) /\ <<p>> # <<>>
  OBVIOUS
<1>3. /\ a \in CallShape /\ a.op = "save" /\ a.state = "sent" /\ a.got = None /\ ~a.late
      /\ a.todo = <<p>>
  BY <1>2, NewCallIs DEF CallShape
<1> HIDE DEF a
<1>4. /\ k \in CallShape /\ k.op = "save" /\ k.state = "sent" /\ k.got = None /\ ~k.late
      /\ k.todo = <<p>>
  BY <1>1, <1>3 DEF CallShape
<1> QED BY <1>2, <1>4, NewIsTrue

LEMMA DropIs ==
    ASSUME NEW q \in Ids, NEW k, k = [NewCall("drop") EXCEPT !.ids = <<q>>]
    PROVE  /\ k \in CallShape /\ k.op = "drop" /\ k.state = "sent" /\ k.got = None /\ ~k.late
           /\ CallTrue(k, version, test)
<1>1. <<q>> \in Seq(Ids) /\ <<q>> # <<>>
  OBVIOUS
<1>2. /\ k \in CallShape /\ k.op = "drop" /\ k.state = "sent" /\ k.got = None /\ ~k.late /\ k.ids = <<q>>
  BY <1>1, NewCallIs DEF CallShape
<1> QED BY <1>1, <1>2, NewIsTrue

FileCall(op, file, mode) == [NewCall(op) EXCEPT !.file = file, !.mode = mode]

LEMMA FileCallIs ==
    ASSUME NEW op \in {"check", "import"}, NEW file \in Files \cup {None},
           NEW mode \in {"append", "replace", None},
           NEW k, k = FileCall(op, file, mode)
    PROVE  /\ k \in CallShape /\ k.op = op /\ k.state = "sent" /\ k.got = None /\ ~k.late
           /\ k.file = file /\ k.mode = mode
           /\ CallTrue(k, version, test)
<1> DEFINE a == [NewCall(op) EXCEPT !.file = file]
<1>1. k = [a EXCEPT !.mode = mode]
  BY DEF FileCall
<1>4. /\ NewCall(op) \in CallShape /\ NewCall(op).op = op /\ NewCall(op).state = "sent"
      /\ NewCall(op).got = None /\ ~NewCall(op).late
  BY NewCallIs
<1>2. /\ a \in CallShape /\ a.op = op /\ a.state = "sent" /\ a.got = None /\ ~a.late /\ a.file = file
  BY <1>4 DEF CallShape
<1> HIDE DEF a
<1>3. /\ k \in CallShape /\ k.op = op /\ k.state = "sent" /\ k.got = None /\ ~k.late
      /\ k.file = file /\ k.mode = mode
  BY <1>1, <1>2 DEF CallShape
<1> QED BY <1>3, NewIsTrue

MoveCall(ids, t, late) == [NewCall("move") EXCEPT !.ids = ids, !.prev = t, !.late = late]

LEMMA MoveIs ==
    ASSUME NEW ids \in Orders, NEW t \in Tests, NEW late \in BOOLEAN,
           NEW k, k = MoveCall(ids, t, late)
    PROVE  /\ k \in CallShape /\ k.op = "move" /\ k.state = "sent" /\ k.got = None /\ (k.late <=> late)
           /\ k.ids = ids /\ k.prev = t
           /\ CallTrue(k, version, test)
<1> DEFINE a == [NewCall("move") EXCEPT !.ids = ids]
           b == [a EXCEPT !.prev = t]
<1>1. k = [b EXCEPT !.late = late]
  BY DEF MoveCall
<1>2. ids \in Seq(Ids) /\ t # None
  BY OrderIs, NoneAssumption
<1>3. /\ a \in CallShape /\ a.op = "move" /\ a.state = "sent" /\ a.got = None /\ a.ids = ids
  BY <1>2, NewCallIs DEF CallShape
<1> HIDE DEF a
<1>4. /\ b \in CallShape /\ b.op = "move" /\ b.state = "sent" /\ b.got = None /\ b.ids = ids /\ b.prev = t
  BY <1>3 DEF CallShape
<1> HIDE DEF b
<1>5. /\ k \in CallShape /\ k.op = "move" /\ k.state = "sent" /\ k.got = None /\ (k.late <=> late)
      /\ k.ids = ids /\ k.prev = t
  BY <1>1, <1>4 DEF CallShape
<1>6. CallTrue(k, version, test)
  BY <1>2, <1>5 DEF CallTrue
<1> QED BY <1>5, <1>6

\* What a form sends.
LEMMA RequestsAre ==
    ASSUME Typed, NEW f \in Forms, Mounted(f), Dirty(f)
    PROVE  /\ Requests(f) \in Seq(Patches) /\ Requests(f) # <<>>
           /\ Patch(ToSend(f)) \in Patches /\ ToSend(f) \subseteq FieldsOf[f]
           /\ Form[f].then # "keep" => Requests(f) = <<Patch(ToSend(f))>>
           /\ \A x \in FieldsOf[f] : draft[x] # page.is[x] => x \in ToSend(f)
<1>1. FieldsOf[f] \subseteq Fields /\ IsFiniteSet(FieldsOf[f])
  BY FormIs
<1>2. \A x \in FieldsOf[f] : draft[x] \in Values
  BY <1>1, TypedParts DEF Mounted, FormsOK
<1>3. \A xs \in SUBSET FieldsOf[f] : Patch(xs) \in Patches
  <2> TAKE xs \in SUBSET FieldsOf[f]
  <2>1. Patch(xs) \in [xs -> Values]
    BY <1>2 DEF Patch
  <2> QED BY <1>1, <2>1, PatchMade, CellsAre
<1>4. ToSend(f) \subseteq FieldsOf[f] /\ \A x \in FieldsOf[f] : draft[x] # page.is[x] => x \in ToSend(f)
  BY DEF ToSend, Changed
<1>5. Requests(f) \in Seq(Patches) /\ Requests(f) # <<>>
  <2>1. CASE Form[f].sends = "changes, one by one"
    <3>1. f # "question"
      BY <2>1, FormIs
    <3>2. ToSend(f) # {}
      <4>1. Form[f].against = "page"
        BY <3>1, FormIs
      <4>2. Changed(f) # {}
        BY <4>1 DEF Dirty
      <4>3. ToSend(f) = Changed(f)
        BY <2>1 DEF ToSend
      <4> QED BY <4>2, <4>3
    <3> DEFINE xs == SetToSeq(ToSend(f))
    <3>3. xs \in Seq(ToSend(f)) /\ xs # <<>>
      BY <1>1, <1>4, <3>2, FS_Subset, SetInOrder
    <3>4. Requests(f) = [i \in DOMAIN xs |-> Patch({xs[i]})]
      BY <2>1 DEF Requests
    <3> HIDE DEF xs
    <3>5. Len(xs) \in Nat /\ DOMAIN xs = 1 .. Len(xs) /\ Len(xs) # 0
      BY <3>3
    <3>6. \A i \in DOMAIN xs : Patch({xs[i]}) \in Patches
      BY <1>3, <1>4, <3>3
    <3>7. Requests(f) \in [1 .. Len(xs) -> Patches]
      BY <3>4, <3>5, <3>6
    <3> QED BY <3>5, <3>7
  <2>2. CASE Form[f].sends # "changes, one by one"
    <3>1. Requests(f) = <<Patch(ToSend(f))>>
      BY <2>2 DEF Requests
    <3> QED BY <1>3, <1>4, <3>1
  <2> QED BY <2>1, <2>2
<1>6. Form[f].then # "keep" => Requests(f) = <<Patch(ToSend(f))>>
  BY FormIs DEF Requests
<1> QED BY <1>3, <1>4, <1>5, <1>6

-----------------------------------------------------------------------------
(* What a step does to the calls, and to types: what a person does.         *)

LEMMA FormsTyped ==
    ASSUME Typed, UNCHANGED server, UNCHANGED calls, UNCHANGED cache, UNCHANGED dialog,
           UNCHANGED <<listStale, listMissed>>, screen' \in {"editor", "failed", "library", "login"},
           FormsOK'
    PROVE  Typed'
<1>1. ServerOK' /\ CallsOK' /\ PageOK' /\ DialogOK'
  BY Framed0
<1>2. ScreenOK'
  BY TypedParts DEF ScreenOK
<1> QED BY <1>1, <1>2, TypedPartsNext

LEMMA TypedType ==
    ASSUME Typed, NEW x \in Fields, NEW v \in Values, Type(x, v)
    PROVE  Typed'
<1>1. FormsOK
  BY TypedParts
<1>2. FormsOK'
  BY <1>1 DEF Type, FormsOK
<1> QED BY <1>2, FormsTyped, TypedParts DEF Type, lists, ScreenOK

LEMMA TypedDiscard ==
    ASSUME Typed, NEW f \in Forms, Discard(f)
    PROVE  Typed'
<1>1. Redisplay(open, filter, {f}) /\ GiveUp({f}) /\ UNCHANGED calls
  BY DEF Discard
<1>2. open \in SUBSET Forms /\ filter \in Filters
  BY TypedParts DEF FormsOK
<1>3. FormsOK' /\ UNCHANGED cache /\ UNCHANGED screen
  BY <1>1, <1>2, GivenUp, RedisplayTyped
<1> QED BY <1>3, FormsTyped, TypedParts DEF Discard, lists, ScreenOK

LEMMA TypedOpen ==
    ASSUME Typed, NEW f \in Forms, Open(f)
    PROVE  Typed'
<1>1. Redisplay(open \cup {f}, filter, {}) /\ wanted' = wanted /\ UNCHANGED calls
  BY DEF Open
<1>2. open \cup {f} \in SUBSET Forms /\ filter \in Filters /\ wanted \in [Fields -> Values \cup {None}]
  BY TypedParts DEF FormsOK
<1>3. FormsOK' /\ UNCHANGED cache /\ UNCHANGED screen
  BY <1>1, <1>2, RedisplayTyped
<1> QED BY <1>3, FormsTyped, TypedParts DEF Open, lists, ScreenOK

LEMMA TypedFilter ==
    ASSUME Typed, NEW flt \in Filters, Filter(flt)
    PROVE  Typed'
<1> DEFINE gone == {f \in Forms : ~Mounted(f)}
<1>1. Redisplay(open, flt, {}) /\ GiveUp(gone) /\ UNCHANGED calls
  BY DEF Filter
<1>2. open \in SUBSET Forms
  BY TypedParts DEF FormsOK
<1> HIDE DEF gone
<1>3. FormsOK' /\ UNCHANGED cache /\ UNCHANGED screen
  BY <1>1, <1>2, GivenUp, RedisplayTyped
<1> QED BY <1>3, FormsTyped, TypedParts DEF Filter, lists, ScreenOK

LEMMA TypedClose ==
    ASSUME Typed, NEW f \in Forms, Close(f)
    PROVE  Typed'
<1>1. Redisplay(open \ {f}, filter, {}) /\ GiveUp({f}) /\ UNCHANGED calls
  BY DEF Close
<1>2. open \ {f} \in SUBSET Forms /\ filter \in Filters
  BY TypedParts DEF FormsOK
<1>3. FormsOK' /\ UNCHANGED cache /\ UNCHANGED screen
  BY <1>1, <1>2, GivenUp, RedisplayTyped
<1> QED BY <1>3, FormsTyped, TypedParts DEF Close, lists, ScreenOK

LEMMA TypedToLibrary ==
    ASSUME Typed, ToLibrary
    PROVE  Typed'
<1>1. /\ Unmount /\ GiveUp(Forms) /\ UNCHANGED calls /\ UNCHANGED server /\ UNCHANGED cache
      /\ UNCHANGED lists
  BY DEF ToLibrary
<1>2. FormsOK'
  BY <1>1, GivenUp, UnmountTyped
<1>3. ServerOK' /\ CallsOK' /\ PageOK' /\ Len(calls) \in Nat
  BY <1>1, Framed0, TypedIs
<1>4. DialogOK'
  BY <1>1, <1>3 DEF ToLibrary, DialogOK, NoDialog, DialogShape
<1>5. ScreenOK'
  BY <1>1, TypedParts DEF ToLibrary, ScreenOK, lists
<1> QED BY <1>2, <1>3, <1>4, <1>5, TypedPartsNext

LEMMA TypedListRead ==
    ASSUME Typed, ListRead
    PROVE  Typed'
<1>1. ServerOK' /\ CallsOK' /\ PageOK' /\ DialogOK' /\ FormsOK'
  BY Framed0 DEF ListRead
<1>2. ScreenOK'
  BY TypedParts DEF ListRead, ScreenOK
<1> QED BY <1>1, <1>2, TypedPartsNext

LEMMA TypedToEditor ==
    ASSUME Typed, ToEditor
    PROVE  Typed'
<1>1. /\ Display(page, AlwaysThere, "all", {}, <<>>) /\ wanted' = wanted /\ UNCHANGED calls
      /\ page \in Tests /\ <<>> \in Patches /\ "all" \in Filters
  BY TypedIs, EmptyPatch DEF ToEditor, Filters
<1>2. wanted \in [Fields -> Values \cup {None}]
  BY TypedParts DEF FormsOK
<1>3. FormsOK'
  BY <1>1, <1>2, AlwaysThereIs, DisplayTyped
<1> QED BY <1>3, FormsTyped DEF ToEditor, lists

LEMMA TypedSignIn ==
    ASSUME Typed, SignIn
    PROVE  Typed'
<1>1. /\ Display(test, AlwaysThere, "all", {}, <<>>) /\ GiveUp(Forms) /\ UNCHANGED calls
      /\ test \in Tests /\ <<>> \in Patches /\ "all" \in Filters
  BY TypedIs, EmptyPatch DEF SignIn, Filters
<1>2. version \in Nat /\ Len(calls) \in Nat
  BY TypedIs
<1>4. FormsOK'
  BY <1>1, GivenUp, AlwaysThereIs, DisplayTyped
<1>5. ServerOK' /\ CallsOK' /\ DialogOK' /\ version' = version /\ Len(calls') = Len(calls)
  BY Framed0 DEF SignIn, server
<1>6. PageOK'
  BY <1>1, <1>2, <1>5 DEF SignIn, PageOK
<1>7. ScreenOK'
  BY DEF SignIn, ScreenOK
<1> QED BY <1>4, <1>5, <1>6, <1>7, TypedPartsNext

LEMMA DialogTyped ==
    ASSUME Typed, UNCHANGED server, UNCHANGED calls, UNCHANGED cache, UNCHANGED forms, UNCHANGED lists,
           UNCHANGED screen, dialog' \in DialogShape, dialog'.commit \in {0, dialog.commit}
    PROVE  Typed'
<1>1. ServerOK' /\ CallsOK' /\ PageOK' /\ FormsOK' /\ ScreenOK' /\ Len(calls) \in Nat
  BY Framed0, TypedIs DEF lists
<1>2. DialogOK'
  BY <1>1, TypedParts DEF DialogOK
<1> QED BY <1>1, <1>2, TypedPartsNext

LEMMA NoDialogIs ==
    /\ NoDialog \in DialogShape /\ NoDialog.commit = 0 /\ NoDialog.check = 0 /\ NoDialog.checked = "no"
    /\ NoDialog.open = FALSE
BY DEF NoDialog, DialogShape

LEMMA TypedDialog ==
    ASSUME Typed, OpenDialog \/ CloseDialog \/ ChooseNone
    PROVE  Typed'
<1>1. dialog \in DialogShape
  BY TypedParts DEF DialogOK
<1>2. CASE OpenDialog
  <2>1. dialog' = [NoDialog EXCEPT !.open = TRUE]
    BY <1>2 DEF OpenDialog
  <2>2. dialog' \in DialogShape /\ dialog'.commit = 0
    BY <2>1, NoDialogIs DEF DialogShape
  <2> QED BY <1>2, <2>2, DialogTyped DEF OpenDialog
<1>3. CASE CloseDialog
  BY <1>3, NoDialogIs, DialogTyped DEF CloseDialog
<1>4. CASE ChooseNone
  <2>1. dialog' \in DialogShape /\ dialog'.commit = 0
    BY <1>1, <1>4 DEF ChooseNone, DialogShape
  <2> QED BY <1>4, <2>1, DialogTyped DEF ChooseNone
<1> QED BY <1>2, <1>3, <1>4

\* A new call, beside a change of the forms or of the dialog.
LEMMA CallTyped ==
    ASSUME Typed, NEW k \in CallShape, CallTrue(k, version, test), Call(k), UNCHANGED server,
           UNCHANGED cache, UNCHANGED lists, UNCHANGED screen, FormsOK', DialogOK'
    PROVE  Typed'
<1>1. CallsOK /\ calls' = Append(calls, k) /\ Len(calls) \in Nat /\ version \in Nat
  BY TypedIs DEF Call
<1>2. CallsOK' /\ Len(calls') = Len(calls) + 1
  BY <1>1, CallsGrow
<1>3. ServerOK' /\ version' = version
  BY TypedParts DEF ServerOK, server
<1>4. PageOK' /\ ScreenOK'
  BY <1>1, <1>2, <1>3, Framed DEF lists
<1> QED BY <1>2, <1>3, <1>4, TypedPartsNext

LEMMA CallFramed ==
    ASSUME Typed, NEW k \in CallShape, CallTrue(k, version, test), Call(k), UNCHANGED server
    PROVE  /\ CallsOK' /\ Len(calls') = Len(calls) + 1 /\ Len(calls') \in DOMAIN calls'
           /\ DOMAIN calls' = DOMAIN calls \cup {Len(calls')} /\ Len(calls') \notin DOMAIN calls
           /\ \A n \in DOMAIN calls : calls'[n] = calls[n]
           /\ calls'[Len(calls')] = k
           /\ UNCHANGED forms => FormsOK'
           /\ UNCHANGED dialog => DialogOK'
<1>1. CallsOK /\ calls' = Append(calls, k) /\ Len(calls) \in Nat /\ version \in Nat
  BY TypedIs DEF Call
<1>2. /\ CallsOK' /\ Len(calls') = Len(calls) + 1 /\ Len(calls') \in DOMAIN calls'
      /\ DOMAIN calls' = DOMAIN calls \cup {Len(calls')} /\ Len(calls') \notin DOMAIN calls
      /\ \A n \in DOMAIN calls : calls'[n] = calls[n]
      /\ calls'[Len(calls')] = k
  BY <1>1, CallsGrow
<1>3. version' = version /\ Len(calls) <= Len(calls')
  BY <1>1, <1>2 DEF server
<1>4. (UNCHANGED forms => FormsOK') /\ (UNCHANGED dialog => DialogOK')
  BY <1>1, <1>2, <1>3, Framed
<1> QED BY <1>2, <1>4

LEMMA SaveDoes ==
    ASSUME Typed, NEW f \in Forms, Save(f)
    PROVE  \E k \in CallShape :
              /\ Call(k) /\ CallTrue(k, version, test)
              /\ k.op = "save" /\ k.state = "sent" /\ k.got = None
              /\ k.sent = Patch(ToSend(f)) /\ k.todo = Requests(f) /\ k.form = f
<1> DEFINE todo == Requests(f)
           p == Patch(ToSend(f))
           k == SaveCall(f, todo, p)
<1>1. Call(k)
  BY DEF Save, SaveCall
<1>2. todo \in Seq(Patches) /\ todo # <<>> /\ p \in Patches
  BY RequestsAre DEF Save
<1> HIDE DEF todo, p
<1>4. k = SaveCall(f, todo, p) /\ f \in Forms \cup {None}
  OBVIOUS
<1> HIDE DEF k
<1>3. /\ k \in CallShape /\ k.op = "save" /\ k.state = "sent" /\ k.got = None
      /\ k.todo = todo /\ k.sent = p /\ k.form = f /\ CallTrue(k, version, test)
  BY <1>2, <1>4, SaveIs
<1> QED BY <1>1, <1>3 DEF todo, p

LEMMA PatchDoes ==
    ASSUME NEW p \in Patches, SendPatch(p)
    PROVE  \E k \in CallShape : /\ Call(k) /\ CallTrue(k, version, test)
                                /\ k.op = "save" /\ k.state = "sent" /\ k.got = None
<1> DEFINE k == [NewCall("save") EXCEPT !.todo = <<p>>, !.sent = p]
<1>1. Call(k)
  BY DEF SendPatch
<1>2. /\ k \in CallShape /\ k.op = "save" /\ k.state = "sent" /\ k.got = None /\ CallTrue(k, version, test)
  BY PatchCallIs
<1> HIDE DEF k
<1> QED BY <1>1, <1>2

\* Calls that neither forms nor the dialog wait for.
Sends == \/ \E v \in Values : Pick(v)
         \/ \E x \in Fields, v \in Values : SetStatus(x, v)
         \/ DeleteSection
         \/ \E q \in Ids : Drop(q)
         \/ Read

LEMMA SendsDo ==
    ASSUME Typed, Sends
    PROVE  \E k \in CallShape : /\ Call(k) /\ CallTrue(k, version, test)
                                /\ k.op \in {"save", "drop", "read"} /\ k.state = "sent" /\ k.got = None
                                /\ UNCHANGED <<server, cache, forms, lists, screen, dialog>>
<1>1. ASSUME NEW v \in Values, Pick(v)
      PROVE  \E k \in CallShape : Call(k) /\ CallTrue(k, version, test) /\ k.op = "save" /\ k.state = "sent" /\ k.got = None
  <2> DEFINE p == [x \in FieldsOf["question"] |-> IF x = Fit THEN v ELSE page.is[x]]
  <2>1. FieldsOf["question"] \subseteq Fields
    BY FormIs, StaffPageAssumption
  <2>2. page.is \in [Cells -> Values] /\ Fields \subseteq Cells
    BY TypedIs, TestIs, CellsAre
  <2>3. p \in [FieldsOf["question"] -> Values]
    BY <2>1, <2>2
  <2>4. p \in Patches /\ SendPatch(p)
    BY <1>1, <2>1, <2>3, PatchMade, CellsAre DEF Pick
  <2> HIDE DEF p
  <2> QED BY <2>4, PatchDoes
<1>2. ASSUME NEW x \in Fields, NEW v \in Values, SetStatus(x, v)
      PROVE  \E k \in CallShape : Call(k) /\ CallTrue(k, version, test) /\ k.op = "save" /\ k.state = "sent" /\ k.got = None
  <2> DEFINE p == [y \in {x} |-> v]
  <2>1. p \in [{x} -> Values]
    OBVIOUS
  <2>2. p \in Patches /\ SendPatch(p)
    BY <1>2, <2>1, PatchMade, CellsAre DEF SetStatus
  <2> HIDE DEF p
  <2> QED BY <2>2, PatchDoes
<1>3. ASSUME NEW q \in Ids, Drop(q)
      PROVE  \E k \in CallShape : Call(k) /\ CallTrue(k, version, test) /\ k.op = "drop" /\ k.state = "sent" /\ k.got = None
  <2> DEFINE k == [NewCall("drop") EXCEPT !.ids = <<q>>]
  <2>1. Call(k)
    BY <1>3 DEF Drop
  <2>2. /\ k \in CallShape /\ k.op = "drop" /\ k.state = "sent" /\ k.got = None /\ CallTrue(k, version, test)
    BY DropIs
  <2> HIDE DEF k
  <2> QED BY <2>1, <2>2
<1>4. ASSUME Read
      PROVE  \E k \in CallShape : Call(k) /\ CallTrue(k, version, test) /\ k.op = "read" /\ k.state = "sent" /\ k.got = None
  <2> DEFINE k == NewCall("read")
  <2>1. Call(k)
    BY <1>4 DEF Read
  <2>2. k \in CallShape /\ k.op = "read" /\ k.state = "sent" /\ k.got = None
    BY NewCallIs
  <2> HIDE DEF k
  <2>3. CallTrue(k, version, test)
    BY <2>2, NewIsTrue
  <2> QED BY <2>1, <2>2, <2>3
<1>7. ASSUME DeleteSection
      PROVE  \E k \in CallShape : Call(k) /\ CallTrue(k, version, test) /\ k.op = "save" /\ k.state = "sent" /\ k.got = None
  <2> DEFINE p == [y \in {Sections} |-> NoSection]
  <2>1. p \in [{Sections} -> Values]
    BY StaffPageAssumption
  <2>2. p \in Patches /\ SendPatch(p)
    BY <1>7, <2>1, PatchMade, CellsAre DEF DeleteSection
  <2> HIDE DEF p
  <2> QED BY <2>2, PatchDoes
<1>5. UNCHANGED <<server, cache, forms, lists, screen, dialog>>
  BY DEF Sends, Pick, SetStatus, DeleteSection, Drop, Read
<1>6. \E k \in CallShape : /\ Call(k) /\ CallTrue(k, version, test)
                           /\ k.op \in {"save", "drop", "read"} /\ k.state = "sent" /\ k.got = None
  <2>1. CASE \E v \in Values : Pick(v)
    BY <1>1, <2>1
  <2>2. CASE \E x \in Fields, v \in Values : SetStatus(x, v)
    BY <1>2, <2>2
  <2>3. CASE \E q \in Ids : Drop(q)
    BY <1>3, <2>3
  <2>4. CASE Read
    BY <1>4, <2>4
  <2>5. CASE DeleteSection
    BY <1>7, <2>5
  <2> QED BY <2>1, <2>2, <2>3, <2>4, <2>5 DEF Sends
<1> QED BY <1>5, <1>6

LEMMA TypedSends ==
    ASSUME Typed, Sends
    PROVE  Typed'
<1>1. PICK k \in CallShape : Call(k) /\ CallTrue(k, version, test) /\ UNCHANGED <<server, cache, forms, lists, screen, dialog>>
  BY SendsDo
<1>2. UNCHANGED server /\ UNCHANGED cache /\ UNCHANGED forms /\ UNCHANGED lists /\ UNCHANGED screen /\ UNCHANGED dialog
  BY <1>1
<1>3. FormsOK' /\ DialogOK'
  BY <1>1, <1>2, CallFramed
<1> QED BY <1>1, <1>2, <1>3, CallTyped

LEMMA TypedSave ==
    ASSUME Typed, NEW f \in Forms, Save(f)
    PROVE  Typed'
<1>1. PICK k \in CallShape : Call(k) /\ CallTrue(k, version, test)
  BY SaveDoes
<1>2. /\ UNCHANGED server /\ UNCHANGED cache /\ UNCHANGED lists /\ UNCHANGED screen /\ UNCHANGED dialog
      /\ UNCHANGED <<open, filter, draft, filled, typed, wanted>> /\ owner' = [owner EXCEPT ![f] = Len(calls')]
  BY DEF Save
<1>3. Len(calls') = Len(calls) + 1 /\ Len(calls) \in Nat /\ DialogOK'
  BY <1>1, <1>2, CallFramed, TypedIs
<1>4. FormsOK
  BY TypedParts
<1>5. owner' \in [Forms -> 0 .. Len(calls')]
  BY <1>2, <1>3, <1>4 DEF FormsOK
<1>6. FormsOK'
  BY <1>2, <1>4, <1>5 DEF FormsOK
<1> QED BY <1>1, <1>2, <1>3, <1>6, CallTyped

LEMMA CheckDoes ==
    ASSUME Typed, NEW file \in Files, NEW mode \in {"append", "replace"}, Check(file, mode)
    PROVE  /\ \E k \in CallShape : /\ Call(k) /\ CallTrue(k, version, test)
                                   /\ k.op = "check" /\ k.state = "sent" /\ k.got = None
                                   /\ k.file = file /\ k.mode = mode
           /\ UNCHANGED <<server, cache, forms, lists, screen>>
           /\ dialog' \in DialogShape
           /\ dialog'.file = file /\ dialog'.mode = mode /\ dialog'.checked = "no"
           /\ dialog'.check = Len(calls') /\ dialog'.commit = 0 /\ dialog'.open = dialog.open
<1> DEFINE k == FileCall("check", file, mode)
<1>1. Call(k) /\ UNCHANGED server /\ UNCHANGED <<cache, forms, lists, screen>>
  BY DEF Check, FileCall
<1>10. /\ k = FileCall("check", file, mode) /\ "check" \in {"check", "import"}
       /\ file \in Files \cup {None} /\ mode \in {"append", "replace", None}
  OBVIOUS
<1> HIDE DEF k
<1>2. /\ k \in CallShape /\ k.op = "check" /\ k.state = "sent" /\ k.got = None
      /\ k.file = file /\ k.mode = mode /\ CallTrue(k, version, test)
  BY <1>10, FileCallIs
<1>3. Len(calls') \in Nat
  BY <1>1, <1>2, CallFramed, TypedIs
<1> DEFINE a == [dialog EXCEPT !.file = file]
           b == [a EXCEPT !.mode = mode]
           c == [b EXCEPT !.checked = "no"]
           d == [c EXCEPT !.check = Len(calls')]
<1>4. dialog' = [d EXCEPT !.commit = 0]
  BY DEF Check
<1>5. a \in DialogShape /\ a.file = file /\ a.open = dialog.open
  BY TypedParts DEF DialogOK, DialogShape
<1> HIDE DEF a
<1>6. b \in DialogShape /\ b.file = file /\ b.mode = mode /\ b.open = dialog.open
  BY <1>5 DEF DialogShape
<1> HIDE DEF b
<1>7. c \in DialogShape /\ c.file = file /\ c.mode = mode /\ c.checked = "no" /\ c.open = dialog.open
  BY <1>6 DEF DialogShape
<1> HIDE DEF c
<1>8. d \in DialogShape /\ d.file = file /\ d.mode = mode /\ d.checked = "no" /\ d.check = Len(calls') /\ d.open = dialog.open
  BY <1>3, <1>7 DEF DialogShape
<1> HIDE DEF d
<1>9. /\ dialog' \in DialogShape
      /\ dialog'.file = file /\ dialog'.mode = mode /\ dialog'.checked = "no"
      /\ dialog'.check = Len(calls') /\ dialog'.commit = 0 /\ dialog'.open = dialog.open
  BY <1>4, <1>8 DEF DialogShape
<1> QED BY <1>1, <1>2, <1>9

LEMMA TypedCheck ==
    ASSUME Typed, NEW file \in Files, NEW mode \in {"append", "replace"}, Check(file, mode)
    PROVE  Typed'
<1>1. PICK k \in CallShape : Call(k) /\ CallTrue(k, version, test)
  BY CheckDoes
<1>2. /\ UNCHANGED server /\ UNCHANGED cache /\ UNCHANGED forms /\ UNCHANGED lists /\ UNCHANGED screen
      /\ dialog' \in DialogShape /\ dialog'.commit = 0
  BY CheckDoes
<1>3. Len(calls') = Len(calls) + 1 /\ Len(calls) \in Nat /\ FormsOK'
  BY <1>1, <1>2, CallFramed, TypedIs
<1>4. DialogOK'
  BY <1>2, <1>3 DEF DialogOK
<1> QED BY <1>1, <1>2, <1>3, <1>4, CallTyped

LEMMA ImportDoes ==
    ASSUME Typed, Import
    PROVE  /\ \E k \in CallShape : /\ Call(k) /\ CallTrue(k, version, test)
                                   /\ k.op = "import" /\ k.state = "sent" /\ k.got = None
                                   /\ k.file = dialog.file /\ k.mode = dialog.mode
           /\ UNCHANGED <<server, cache, forms, lists, screen>>
           /\ dialog' \in DialogShape /\ dialog'.commit = Len(calls')
           /\ dialog'.file = dialog.file /\ dialog'.mode = dialog.mode /\ dialog'.checked = dialog.checked
           /\ dialog'.check = dialog.check
<1> DEFINE k == FileCall("import", dialog.file, dialog.mode)
<1>1. Call(k) /\ UNCHANGED server /\ UNCHANGED <<cache, forms, lists, screen>>
  BY DEF Import, FileCall
<1>2. dialog \in DialogShape /\ dialog.file \in Files \cup {None} /\ dialog.mode \in {"append", "replace", None}
  BY TypedParts DEF DialogOK, DialogShape
<1>7. k = FileCall("import", dialog.file, dialog.mode) /\ "import" \in {"check", "import"}
  OBVIOUS
<1> HIDE DEF k
<1>3. /\ k \in CallShape /\ k.op = "import" /\ k.state = "sent" /\ k.got = None
      /\ k.file = dialog.file /\ k.mode = dialog.mode /\ CallTrue(k, version, test)
  BY <1>2, <1>7, FileCallIs
<1>4. Len(calls') \in Nat
  BY <1>1, <1>3, CallFramed, TypedIs
<1>5. dialog' = [dialog EXCEPT !.commit = Len(calls')]
  BY DEF Import
<1>6. /\ dialog' \in DialogShape /\ dialog'.commit = Len(calls')
      /\ dialog'.file = dialog.file /\ dialog'.mode = dialog.mode /\ dialog'.checked = dialog.checked
      /\ dialog'.check = dialog.check
  BY <1>2, <1>4, <1>5 DEF DialogShape
<1> QED BY <1>1, <1>3, <1>6

LEMMA TypedImport ==
    ASSUME Typed, Import
    PROVE  Typed'
<1>1. PICK k \in CallShape : Call(k) /\ CallTrue(k, version, test)
  BY ImportDoes
<1>2. /\ UNCHANGED server /\ UNCHANGED cache /\ UNCHANGED forms /\ UNCHANGED lists /\ UNCHANGED screen
      /\ dialog' \in DialogShape /\ dialog'.commit = Len(calls')
  BY ImportDoes
<1>3. Len(calls') = Len(calls) + 1 /\ Len(calls) \in Nat /\ FormsOK'
  BY <1>1, <1>2, CallFramed, TypedIs
<1>4. DialogOK'
  BY <1>2, <1>3 DEF DialogOK
<1> QED BY <1>1, <1>2, <1>3, <1>4, CallTyped

LEMMA TypedChangeMode ==
    ASSUME Typed, NEW mode \in {"append", "replace"}, ChangeMode(mode)
    PROVE  Typed'
<1>1. dialog \in DialogShape /\ dialog.file \in Files \cup {None}
  BY TypedParts DEF DialogOK, DialogShape
<1>2. CASE dialog.file # None
  BY <1>1, <1>2, TypedCheck DEF ChangeMode
<1>3. CASE dialog.file = None
  <2> DEFINE a == [dialog EXCEPT !.mode = mode]
  <2>2. a \in DialogShape
    BY <1>1 DEF DialogShape
  <2>3. dialog' = [a EXCEPT !.commit = 0]
    BY <1>3 DEF ChangeMode
  <2> HIDE DEF a
  <2>1. dialog' \in DialogShape /\ dialog'.commit = 0
    BY <2>2, <2>3 DEF DialogShape
  <2> QED BY <1>3, <2>1, DialogTyped DEF ChangeMode
<1> QED BY <1>2, <1>3

Cancelled == [n \in DOMAIN calls |-> IF calls[n].op = "read" THEN Ended(calls[n]) ELSE calls[n]]

LEMMA CancelledIs ==
    ASSUME Typed
    PROVE  /\ Cancelled \in Seq(CallShape) /\ Len(Cancelled) = Len(calls) /\ DOMAIN Cancelled = DOMAIN calls
           /\ \A n \in DOMAIN calls : Cancelled[n] = IF calls[n].op = "read" THEN Ended(calls[n]) ELSE calls[n]
<1>1. Len(calls) \in Nat /\ DOMAIN calls = 1 .. Len(calls) /\ \A n \in DOMAIN calls : calls[n] \in CallShape
  BY TypedIs
<1>2. \A n \in DOMAIN calls : Cancelled[n] = IF calls[n].op = "read" THEN Ended(calls[n]) ELSE calls[n]
  BY DEF Cancelled
<1>3. \A n \in DOMAIN calls : Cancelled[n] \in CallShape
  BY <1>1, <1>2, EndedIs
<1>4. Cancelled \in [1 .. Len(calls) -> CallShape]
  BY <1>1, <1>3 DEF Cancelled
<1> QED BY <1>1, <1>2, <1>4

LEMMA MoveDoes ==
    ASSUME Typed, NEW i \in DOMAIN page.order, NEW j \in DOMAIN page.order, Move(i, j)
    PROVE  /\ page' \in Tests /\ page'.order = Swapped(page.order, i, j) /\ page'.is = page.is
           /\ page'.order \in Orders
           /\ UNCHANGED <<server, forms, lists, screen, seen, missed, dialog>>
           /\ CallsOK' /\ Len(calls') = Len(calls) + 1 /\ Len(calls') \in DOMAIN calls'
           /\ DOMAIN calls' = DOMAIN calls \cup {Len(calls')} /\ Len(calls') \notin DOMAIN calls
           /\ \A n \in DOMAIN calls :
                 calls'[n] = IF calls[n].op = "read" THEN Ended(calls[n]) ELSE calls[n]
           /\ onTop' = Len(calls')
           /\ calls'[onTop'].op = "move" /\ calls'[onTop'].state = "sent" /\ calls'[onTop'].got = None
           /\ calls'[onTop'].ids = page'.order /\ calls'[onTop'].prev = page
           /\ calls'[onTop'].late <=> (Moves # {} /\ onTop \notin Moves)
<1> DEFINE ids == Swapped(page.order, i, j)
           late == Moves # {} /\ onTop \notin Moves
           k == MoveCall(ids, page, late)
<1>1. /\ Len(calls) \in Nat /\ DOMAIN calls = 1 .. Len(calls) /\ page \in Tests /\ version \in Nat
      /\ calls \in Seq(CallShape) /\ \A n \in DOMAIN calls : calls[n] \in CallShape
  BY TypedIs
<1>2. ids \in Orders
  BY <1>1, TestIs, SwappedOrder
<1>3. /\ calls' = Append(Cancelled, k) /\ page' = [page EXCEPT !.order = ids] /\ onTop' = Len(calls')
      /\ UNCHANGED <<server, forms, lists, screen, seen, missed, dialog>>
  BY DEF Move, Cancelled, MoveCall
<1>4. late \in BOOLEAN /\ k = MoveCall(ids, page, late)
  OBVIOUS
<1> HIDE DEF ids, late, k
<1>5. /\ k \in CallShape /\ k.op = "move" /\ k.state = "sent" /\ k.got = None /\ (k.late <=> late)
      /\ k.ids = ids /\ k.prev = page /\ CallTrue(k, version, test)
  BY <1>1, <1>2, <1>4, MoveIs
<1>6. page' \in Tests /\ page'.order = ids /\ page'.is = page.is
  BY <1>1, <1>2, <1>3, TestIs
<1>7. /\ Cancelled \in Seq(CallShape) /\ Len(Cancelled) = Len(calls) /\ DOMAIN Cancelled = DOMAIN calls
      /\ \A n \in DOMAIN calls : Cancelled[n] = IF calls[n].op = "read" THEN Ended(calls[n]) ELSE calls[n]
  BY CancelledIs
<1>8. /\ calls' \in Seq(CallShape) /\ Len(calls') = Len(calls) + 1 /\ DOMAIN calls' = 1 .. Len(calls')
      /\ \A n \in DOMAIN calls : calls'[n] = Cancelled[n]
      /\ calls'[Len(calls')] = k
  BY <1>1, <1>3, <1>5, <1>7
<1>9. DOMAIN calls' = DOMAIN calls \cup {Len(calls')} /\ Len(calls') \notin DOMAIN calls /\ Len(calls') \in DOMAIN calls'
  BY <1>1, <1>8
<1>10. ASSUME NEW n \in DOMAIN calls', UnderWay(n)'
       PROVE  CallTrue(calls[n]', version', test')
  <2>1. CASE n = Len(calls')
    BY <1>3, <1>5, <1>8, <2>1 DEF server
  <2>2. CASE n # Len(calls')
    <3>1. n \in DOMAIN calls /\ calls'[n] = Cancelled[n]
      BY <1>8, <1>9, <2>2
    <3>2. calls'[n] = calls[n]
      BY <1>1, <1>7, <1>10, <3>1, EndedIs DEF UnderWay
    <3>3. CallTrue(calls[n], version, test)
      BY <1>10, <3>1, <3>2, TypedIs DEF UnderWay
    <3> QED BY <1>3, <3>2, <3>3 DEF server
  <2> QED BY <2>1, <2>2
<1>11. CallsOK'
  BY <1>8, <1>10 DEF CallsOK
<1> QED BY <1>2, <1>3, <1>5, <1>6, <1>7, <1>8, <1>9, <1>11 DEF ids, late

LEMMA TypedMove ==
    ASSUME Typed, NEW i \in DOMAIN page.order, NEW j \in DOMAIN page.order, Move(i, j)
    PROVE  Typed'
<1>1. /\ page' \in Tests /\ UNCHANGED server /\ UNCHANGED forms /\ UNCHANGED lists /\ UNCHANGED screen
      /\ UNCHANGED <<seen, missed>> /\ UNCHANGED dialog
      /\ CallsOK' /\ Len(calls') = Len(calls) + 1 /\ onTop' = Len(calls')
  BY MoveDoes
<1>2. version' = version /\ version \in Nat /\ Len(calls) \in Nat /\ ServerOK'
  BY <1>1, TypedIs, TypedParts DEF server, ServerOK
<1>3. FormsOK' /\ DialogOK' /\ ScreenOK'
  BY <1>1, <1>2, Framed DEF lists
<1>4. PageOK'
  BY <1>1, <1>2, TypedParts DEF PageOK
<1> QED BY <1>1, <1>2, <1>3, <1>4, TypedPartsNext

-----------------------------------------------------------------------------
(* What the server does.                                                    *)

\* Each change the server makes on behalf of a call.
Changes(n) == ServeSave(n) \/ ServeMove(n) \/ ServeDrop(n) \/ ServeImport(n)

LEMMA ChangesDo ==
    ASSUME Typed, NEW n \in DOMAIN calls, Changes(n)
    PROVE  \E t \in Tests :
              /\ calls[n].state = "sent" /\ calls[n].op \in {"save", "move", "drop", "import"}
              /\ Serve(n, t)
              /\ calls[n].op = "move" =>
                    t.order = calls[n].ids /\ t.is = test.is /\ Len(t.order) = Len(test.order)
              /\ calls[n].op = "save" =>
                    /\ t.order = test.order
                    /\ calls[n].todo # <<>> /\ Head(calls[n].todo) \in Patches
                    /\ \A x \in DOMAIN Head(calls[n].todo) : t.is[x] = Head(calls[n].todo)[x]
<1>1. test \in Tests /\ test.order \in Orders /\ calls[n] \in CallShape
  BY TypedIs, TestIs
<1>2. CASE ServeSave(n)
  <2> DEFINE p == Head(calls[n].todo)
             t == Written(test, p)
  <2>1. calls[n].state = "sent" /\ calls[n].op = "save" /\ Serve(n, t)
    BY <1>2 DEF ServeSave, Sent
  <2>2. calls[n].todo # <<>>
    BY <2>1, TypedIs DEF CallTrue, UnderWay
  <2>3. p \in Patches
    BY <1>1, <2>2, CallIs
  <2>4. t \in Tests /\ t.order = test.order /\ \A x \in DOMAIN p : t.is[x] = p[x]
    BY <1>1, <2>3, PatchIs, WrittenIs
  <2> HIDE DEF t
  <2> QED BY <2>1, <2>2, <2>3, <2>4
<1>3. CASE ServeMove(n)
  <2> DEFINE t == [test EXCEPT !.order = calls[n].ids]
  <2>1. /\ calls[n].state = "sent" /\ calls[n].op = "move" /\ Serve(n, t)
        /\ Range(calls[n].ids) = Range(test.order)
    BY <1>3 DEF ServeMove, Sent
  <2>2. calls[n].ids \in Orders
    BY <2>1, TypedIs DEF CallTrue, UnderWay
  <2>3. t \in Tests /\ t.order = calls[n].ids /\ t.is = test.is
    BY <1>1, <2>2, TestIs
  <2>4. Len(calls[n].ids) = Len(test.order)
    BY <1>1, <2>1, <2>2, SameLength
  <2> HIDE DEF t
  <2> QED BY <2>1, <2>3, <2>4
<1>4. CASE ServeDrop(n)
  <2>1. calls[n].state = "sent" /\ calls[n].op = "drop"
    BY <1>4 DEF ServeDrop, Sent
  <2>2. PICK i \in DOMAIN test.order : Serve(n, [test EXCEPT !.order = RemoveAt(@, i)])
    BY <1>4 DEF ServeDrop
  <2> DEFINE o == RemoveAt(test.order, i)
             t == [test EXCEPT !.order = o]
  <2>3. o \in Orders
    BY <1>1, RemovedOrder
  <2>4. Serve(n, t)
    BY <2>2
  <2> HIDE DEF o
  <2>5. t \in Tests
    BY <1>1, <2>3, TestIs
  <2> HIDE DEF t
  <2> QED BY <2>1, <2>4, <2>5
<1>5. CASE ServeImport(n)
  <2>1. calls[n].state = "sent" /\ calls[n].op = "import"
    BY <1>5 DEF ServeImport, Sent
  <2>2. PICK q \in Ids \ Range(test.order) :
           Serve(n, [test EXCEPT !.order = IF calls[n].mode = "append" THEN Append(@, q) ELSE <<q>>])
    BY <1>5 DEF ServeImport
  <2> DEFINE o == IF calls[n].mode = "append" THEN Append(test.order, q) ELSE <<q>>
             t == [test EXCEPT !.order = o]
  <2>3. o \in Orders
    BY <1>1, AppendedOrder, SingleOrder
  <2>4. Serve(n, t)
    BY <2>2
  <2> HIDE DEF o
  <2>5. t \in Tests
    BY <1>1, <2>3, TestIs
  <2> HIDE DEF t
  <2> QED BY <2>1, <2>4, <2>5
<1> QED BY <1>2, <1>3, <1>4, <1>5 DEF Changes

LEMMA TypedChanges ==
    ASSUME Typed, NEW n \in DOMAIN calls, Changes(n)
    PROVE  Typed'
<1>1. PICK t \in Tests : /\ calls[n].state = "sent" /\ calls[n].op \notin {"read", "check"} /\ Serve(n, t)
                         /\ (calls[n].op = "move" => t.order = calls[n].ids)
  BY ChangesDo
<1>2. /\ test' = t /\ version' = version + 1 /\ version' \in Nat /\ CallsOK' /\ Len(calls') = Len(calls)
  BY <1>1, Served
<1>3. /\ UNCHANGED cache /\ UNCHANGED forms /\ UNCHANGED lists /\ UNCHANGED screen /\ UNCHANGED dialog
  BY <1>1 DEF Serve
<1>4. version <= version' /\ Len(calls) <= Len(calls')
  BY <1>2, TypedIs
<1>5. PageOK' /\ FormsOK' /\ DialogOK' /\ ScreenOK'
  BY <1>2, <1>3, <1>4, Framed DEF lists
<1> QED BY <1>1, <1>2, <1>5, TypedPartsNext DEF ServerOK

ReadReply(c) == [c EXCEPT !.state = "back", !.got = test, !.at = version]

LEMMA ReadServed ==
    ASSUME Typed, NEW n \in DOMAIN calls, ServeRead(n)
    PROVE  /\ calls[n].state = "sent" /\ calls[n].op = "read"
           /\ CallsOK' /\ DOMAIN calls' = DOMAIN calls /\ Len(calls') = Len(calls)
           /\ \A m \in DOMAIN calls : m # n => calls'[m] = calls[m]
           /\ calls'[n].state = "back" /\ calls'[n].op = "read" /\ calls'[n].got = test /\ calls'[n].at = version
           /\ UNCHANGED <<server, cache, forms, lists, screen, dialog>>
<1> DEFINE c == calls[n]
           k == ReadReply(c)
           a == [c EXCEPT !.state = "back"]
           b == [a EXCEPT !.got = test]
<1>1. c.state = "sent" /\ c.op = "read" /\ calls' = [calls EXCEPT ![n] = k]
  BY DEF ServeRead, Sent, ReadReply
<1>2. c \in CallShape /\ test \in Tests /\ version \in Nat /\ CallsOK
  BY TypedIs
<1>3. k = [b EXCEPT !.at = version]
  BY DEF ReadReply
<1> HIDE DEF k, c
<1>4. a \in CallShape /\ a.state = "back" /\ a.op = "read"
  BY <1>1, <1>2 DEF CallShape
<1> HIDE DEF a
<1>5. b \in CallShape /\ b.state = "back" /\ b.op = "read" /\ b.got = test
  BY <1>2, <1>4 DEF CallShape
<1> HIDE DEF b
<1>6. k \in CallShape /\ k.state = "back" /\ k.op = "read" /\ k.got = test /\ k.at = version
  BY <1>2, <1>3, <1>5 DEF CallShape
<1>7. test # None
  BY <1>2, NoneAssumption
<1>8. CallTrue(k, version, test)
  BY <1>2, <1>6, <1>7 DEF CallTrue
<1>9. UNCHANGED <<server, cache, forms, lists, screen, dialog>>
  BY DEF ServeRead
<1>10. /\ CallsOK' /\ DOMAIN calls' = DOMAIN calls /\ Len(calls') = Len(calls)
       /\ \A m \in DOMAIN calls : calls'[m] = IF m = n THEN k ELSE calls[m]
  <2>1. version' = version /\ test' = test /\ version' \in Nat /\ version <= version'
    BY <1>2, <1>9 DEF server
  <2>2. k.state # "over" => CallTrue(k, version', test')
    BY <1>8, <2>1
  <2> QED BY <1>1, <1>2, <1>6, <2>1, <2>2, CallsChange
<1> QED BY <1>1, <1>6, <1>9, <1>10 DEF c

LEMMA CheckServed ==
    ASSUME Typed, NEW n \in DOMAIN calls, ServeCheck(n)
    PROVE  /\ calls[n].state = "sent" /\ calls[n].op = "check"
           /\ CallsOK' /\ DOMAIN calls' = DOMAIN calls /\ Len(calls') = Len(calls)
           /\ \A m \in DOMAIN calls : m # n => calls'[m] = calls[m]
           /\ calls'[n].state = "back" /\ calls'[n].op = "check" /\ calls'[n].got = None
           /\ calls'[n].file = calls[n].file /\ calls'[n].mode = calls[n].mode
           /\ UNCHANGED <<server, cache, forms, lists, screen, dialog>>
<1> DEFINE c == calls[n]
<1>1. c.state = "sent" /\ c.op = "check" /\ c \in CallShape /\ CallTrue(c, version, test) /\ CallsOK /\ version \in Nat
  BY TypedIs DEF ServeCheck, Sent, UnderWay
<1>2. PICK ok \in BOOLEAN : calls' = [calls EXCEPT ![n] = [c EXCEPT !.state = "back", !.ready = ok]]
  BY DEF ServeCheck
<1> DEFINE a == [c EXCEPT !.state = "back"]
           k == [a EXCEPT !.ready = ok]
<1>3. calls' = [calls EXCEPT ![n] = k]
  BY <1>2
<1>4. c.got = None
  BY <1>1 DEF CallTrue
<1> HIDE DEF c
<1>5. /\ a \in CallShape /\ a.state = "back" /\ a.op = "check" /\ a.got = None
      /\ a.file = c.file /\ a.mode = c.mode
  BY <1>1, <1>4 DEF CallShape
<1> HIDE DEF a
<1>6. /\ k \in CallShape /\ k.state = "back" /\ k.op = "check" /\ k.got = None
      /\ k.file = c.file /\ k.mode = c.mode
  BY <1>5 DEF CallShape
<1> HIDE DEF k
<1>7. CallTrue(k, version, test)
  BY <1>6 DEF CallTrue
<1>8. UNCHANGED <<server, cache, forms, lists, screen, dialog>>
  BY DEF ServeCheck
<1>9. /\ CallsOK' /\ DOMAIN calls' = DOMAIN calls /\ Len(calls') = Len(calls)
      /\ \A m \in DOMAIN calls : calls'[m] = IF m = n THEN k ELSE calls[m]
  <2>1. version' = version /\ test' = test /\ version' \in Nat /\ version <= version'
    BY <1>1, <1>8 DEF server
  <2>2. k.state # "over" => CallTrue(k, version', test')
    BY <1>7, <2>1
  <2> QED BY <1>1, <1>3, <1>6, <2>1, <2>2, CallsChange
<1> QED BY <1>1, <1>6, <1>8, <1>9 DEF c

LEMMA TypedReplies ==
    ASSUME Typed, NEW n \in DOMAIN calls, ServeRead(n) \/ ServeCheck(n)
    PROVE  Typed'
<1>1. CallsOK' /\ Len(calls') = Len(calls) /\ UNCHANGED <<server, cache, forms, lists, screen, dialog>>
  BY ReadServed, CheckServed
<1>2. /\ UNCHANGED server /\ UNCHANGED cache /\ UNCHANGED forms /\ UNCHANGED lists /\ UNCHANGED screen
      /\ UNCHANGED dialog
  BY <1>1
<1>3. ServerOK' /\ version' = version /\ version \in Nat /\ Len(calls) \in Nat
  BY <1>2, TypedParts, TypedIs DEF server, ServerOK
<1>4. PageOK' /\ FormsOK' /\ DialogOK' /\ ScreenOK'
  BY <1>1, <1>2, <1>3, Framed DEF lists
<1> QED BY <1>1, <1>3, <1>4, TypedPartsNext

LEMMA OtherDoes ==
    ASSUME Typed, OtherAdmin
    PROVE  /\ test' \in Tests /\ version' = version + 1 /\ missed' = missed \cup {"other"} /\ listMissed' = TRUE
           /\ CallsOK'
           /\ UNCHANGED <<page, onTop, seen, forms, list, listStale, screen, dialog, calls>>
<1>1. test \in Tests /\ version \in Nat /\ CallsOK /\ test.order \in Orders /\ test.is \in [Cells -> Values]
  BY TypedIs, TestIs
<1>2. /\ version' = version + 1 /\ missed' = missed \cup {"other"} /\ listMissed' = TRUE
      /\ UNCHANGED <<page, onTop, seen, forms, list, listStale, screen, dialog, calls>>
  BY DEF OtherAdmin
<1>3. test' \in Tests
  <2>1. ASSUME NEW x \in errand.fields, NEW v \in Values, Accepts(test, [y \in {x} |-> v]),
               test' = Written(test, [y \in {x} |-> v])
        PROVE  test' \in Tests
    <3> DEFINE w == [y \in {x} |-> v]
    <3>1. \A y \in DOMAIN w : w[y] \in Values
      OBVIOUS
    <3>2. test' = Written(test, w)
      BY <2>1
    <3> HIDE DEF w
    <3> QED BY <1>1, <3>1, <3>2, WrittenIs
  <2>2. ASSUME NEW i \in DOMAIN test.order, NEW j \in DOMAIN test.order,
               test' = [test EXCEPT !.order = Swapped(@, i, j)]
        PROVE  test' \in Tests
    <3> DEFINE o == Swapped(test.order, i, j)
    <3>1. o \in Orders
      BY <1>1, SwappedOrder
    <3>2. test' = [test EXCEPT !.order = o]
      BY <2>2
    <3> HIDE DEF o
    <3> QED BY <1>1, <3>1, <3>2, TestIs
  <2>3. CASE \E x \in errand.fields : \E v \in Values \ {test.is[x]} :
                Accepts(test, [y \in {x} |-> v]) /\ test' = Written(test, [y \in {x} |-> v])
    BY <2>1, <2>3
  <2>4. CASE \E i, j \in DOMAIN test.order : i < j /\ test' = [test EXCEPT !.order = Swapped(@, i, j)]
    BY <2>2, <2>4
  <2> QED BY <2>3, <2>4 DEF OtherAdmin
<1>4. CallsOK'
  <2> SUFFICES ASSUME NEW n \in DOMAIN calls, UnderWay(n)
               PROVE  CallTrue(calls[n], version', test')
    BY <1>1, <1>2 DEF CallsOK, UnderWay
  <2>1. calls[n] \in CallShape /\ CallTrue(calls[n], version, test) /\ version' \in Nat /\ version <= version'
        /\ version # version'
    BY <1>1, <1>2, TypedIs
  <2> QED BY <1>1, <2>1, TrueStays
<1> QED BY <1>2, <1>3, <1>4

LEMMA TypedOther ==
    ASSUME Typed, OtherAdmin
    PROVE  Typed'
<1>1. /\ test' \in Tests /\ version' = version + 1 /\ missed' = missed \cup {"other"} /\ listMissed' = TRUE
      /\ CallsOK' /\ version \in Nat /\ Len(calls) \in Nat
      /\ UNCHANGED page /\ UNCHANGED onTop /\ UNCHANGED seen /\ UNCHANGED forms /\ UNCHANGED listStale
      /\ UNCHANGED screen /\ UNCHANGED dialog /\ UNCHANGED calls
  BY OtherDoes, TypedIs
<1>2. version' \in Nat /\ version <= version' /\ Len(calls') = Len(calls)
  BY <1>1
<1>3. FormsOK' /\ DialogOK'
  BY <1>1, <1>2, Framed
<1>4. seen' \in 0 .. version' /\ missed' \in SUBSET {"other", "lost", "crossed", "rollback"}
  BY <1>1, <1>2, TypedParts DEF PageOK
<1>5. PageOK' /\ ScreenOK'
  BY <1>1, <1>4, TypedParts DEF PageOK, ScreenOK
<1> QED BY <1>1, <1>2, <1>3, <1>5, TypedPartsNext DEF ServerOK

-----------------------------------------------------------------------------
(* Answers.                                                                 *)

LEMMA EndDoes ==
    ASSUME Typed, NEW n \in DOMAIN calls, End(n), UNCHANGED server
    PROVE  /\ CallsOK' /\ DOMAIN calls' = DOMAIN calls /\ Len(calls') = Len(calls)
           /\ \A m \in DOMAIN calls : m # n => calls'[m] = calls[m]
           /\ calls'[n] = Ended(calls[n]) /\ calls'[n].state = "over" /\ calls'[n].op = calls[n].op
<1>1. calls[n] \in CallShape /\ CallsOK /\ version \in Nat /\ version' = version /\ test' = test /\ version' \in Nat
      /\ version <= version'
  BY TypedIs DEF server
<1> DEFINE k == Ended(calls[n])
<1>2. calls' = [calls EXCEPT ![n] = k]
  BY DEF End
<1>3. k \in CallShape /\ k.state = "over" /\ k.op = calls[n].op
  BY <1>1, EndedIs
<1> HIDE DEF k
<1>4. k.state # "over" => CallTrue(k, version', test')
  BY <1>3
<1>5. /\ CallsOK' /\ DOMAIN calls' = DOMAIN calls /\ Len(calls') = Len(calls)
      /\ \A m \in DOMAIN calls : calls'[m] = IF m = n THEN k ELSE calls[m]
  BY <1>1, <1>2, <1>3, <1>4, CallsChange
<1> QED BY <1>3, <1>5 DEF k

\* Once the calls are all over.
LEMMA SessionDoes ==
    ASSUME Typed, NEW n \in DOMAIN calls, SessionEnded(n)
    PROVE  /\ CallsOK' /\ DOMAIN calls' = DOMAIN calls /\ Len(calls') = Len(calls)
           /\ \A m \in DOMAIN calls : calls'[m] = Ended(calls[m]) /\ calls'[m].state = "over"
<1>1. Len(calls) \in Nat /\ DOMAIN calls = 1 .. Len(calls) /\ \A m \in DOMAIN calls : calls[m] \in CallShape
  BY TypedIs
<1>2. calls' = [m \in DOMAIN calls |-> Ended(calls[m])]
  BY DEF SessionEnded
<1>3. \A m \in DOMAIN calls : calls'[m] \in CallShape /\ calls'[m].state = "over" /\ calls'[m] = Ended(calls[m])
  BY <1>1, <1>2, EndedIs
<1>4. calls' \in [1 .. Len(calls) -> CallShape]
  BY <1>1, <1>2, <1>3
<1>5. calls' \in Seq(CallShape) /\ Len(calls') = Len(calls) /\ DOMAIN calls' = DOMAIN calls
  BY <1>1, <1>4
<1>6. CallsOK'
  BY <1>3, <1>5 DEF CallsOK, UnderWay
<1> QED BY <1>3, <1>5, <1>6

LEMMA NextSent ==
    ASSUME Typed, NEW n \in DOMAIN calls, SendNext(n)
    PROVE  /\ calls[n].state = "back" /\ calls[n].op = "save" /\ calls[n].todo # <<>>
           /\ CallsOK' /\ DOMAIN calls' = DOMAIN calls /\ Len(calls') = Len(calls)
           /\ \A m \in DOMAIN calls : m # n => calls'[m] = calls[m]
           /\ calls'[n] = [calls[n] EXCEPT !.state = "sent"]
           /\ calls'[n].state = "sent" /\ calls'[n].op = "save" /\ calls'[n].todo = calls[n].todo
           /\ calls'[n].sent = calls[n].sent /\ calls'[n].got = calls[n].got /\ calls'[n].at = calls[n].at
           /\ (calls'[n].late <=> calls[n].late)
           /\ UNCHANGED <<server, cache, forms, lists, screen, dialog>>
<1> DEFINE c == calls[n]
           k == [c EXCEPT !.state = "sent"]
<1>1. c.state = "back" /\ c.op = "save" /\ c.todo # <<>> /\ calls' = [calls EXCEPT ![n] = k]
  BY DEF SendNext, Back
<1>2. c \in CallShape /\ CallTrue(c, version, test) /\ CallsOK /\ version \in Nat
  BY <1>1, TypedIs DEF UnderWay
<1> HIDE DEF c
<1>3. /\ k \in CallShape /\ k.state = "sent" /\ k.op = "save" /\ k.todo = c.todo
      /\ k.sent = c.sent /\ k.got = c.got /\ k.at = c.at /\ (k.late <=> c.late)
  BY <1>1, <1>2 DEF CallShape
<1>7. k = [c EXCEPT !.state = "sent"]
  OBVIOUS
<1> HIDE DEF k
<1>4. CallTrue(k, version, test)
  BY <1>1, <1>2, <1>3 DEF CallTrue
<1>5. UNCHANGED <<server, cache, forms, lists, screen, dialog>>
  BY DEF SendNext
<1>6. /\ CallsOK' /\ DOMAIN calls' = DOMAIN calls /\ Len(calls') = Len(calls)
      /\ \A m \in DOMAIN calls : calls'[m] = IF m = n THEN k ELSE calls[m]
  <2>1. version' = version /\ test' = test /\ version' \in Nat /\ version <= version'
    BY <1>2, <1>5 DEF server
  <2>2. k.state # "over" => CallTrue(k, version', test')
    BY <1>4, <2>1
  <2> QED BY <1>1, <1>2, <1>3, <2>1, <2>2, CallsChange
<1> QED BY <1>1, <1>3, <1>5, <1>6, <1>7 DEF c

LEMMA LearnTyped ==
    ASSUME Typed, NEW n \in DOMAIN calls, UnderWay(n), calls[n].got # None,
           NEW shown \in BOOLEAN, Learn(n, shown)
    PROVE  /\ seen' \in 0 .. version /\ missed' \in SUBSET {"other", "lost", "crossed", "rollback"}
           /\ calls[n].at <= version /\ calls[n].at \in Nat
<1>1. /\ calls[n] \in CallShape /\ CallTrue(calls[n], version, test) /\ seen \in 0 .. version /\ version \in Nat
      /\ missed \in SUBSET {"other", "lost", "crossed", "rollback"}
  BY TypedIs, TypedParts DEF PageOK
<1>2. calls[n].at <= version /\ calls[n].at \in Nat
  BY <1>1, CallIs DEF CallTrue
<1> QED BY <1>1, <1>2 DEF Learn

LEMMA TypedAnswer ==
    ASSUME Typed, NEW n \in DOMAIN calls, End(n), UNCHANGED server, FormsOK', page' \in Tests,
           onTop' \in {0, onTop}, seen' \in 0 .. version,
           missed' \in SUBSET {"other", "lost", "crossed", "rollback"},
           listStale' \in BOOLEAN, listMissed' \in BOOLEAN, screen' \in {"editor", "failed", "library", "login"},
           dialog' \in DialogShape, dialog'.commit \in {0, dialog.commit}
    PROVE  Typed'
<1>1. CallsOK' /\ Len(calls') = Len(calls) /\ Len(calls) \in Nat /\ version' = version
  BY EndDoes, TypedIs DEF server
<1>2. ServerOK' /\ ScreenOK'
  BY TypedParts DEF ServerOK, ScreenOK, server
<1>3. PageOK'
  BY <1>1, TypedParts DEF PageOK
<1>4. DialogOK'
  BY <1>1, TypedParts DEF DialogOK
<1> QED BY <1>1, <1>2, <1>3, <1>4, TypedPartsNext

LEMMA GotIs ==
    ASSUME Typed, NEW n \in DOMAIN calls, calls[n].state = "back", calls[n].op # "check"
    PROVE  /\ UnderWay(n) /\ calls[n].got # None /\ calls[n].got \in Tests /\ calls[n].sent \in Patches
           /\ calls[n].at \in Nat /\ calls[n].at <= version
           /\ calls[n].at = version => calls[n].got = test
<1>1. calls[n] \in CallShape /\ CallTrue(calls[n], version, test) /\ UnderWay(n)
  BY TypedIs DEF UnderWay
<1>2. calls[n].got # None /\ calls[n].at <= version /\ (calls[n].at = version => calls[n].got = test)
  BY <1>1 DEF CallTrue
<1> QED BY <1>1, <1>2, CallIs

LEMMA DoesIs == \A n, what : AnswerDoes(n, what) \in SUBSET Forms
  BY DEF AnswerDoes

LEMMA TypedTakeSave ==
    ASSUME Typed, NEW n \in DOMAIN calls, TakeSave(n)
    PROVE  Typed'
<1> DEFINE saved == IF AnswerDoes(n, "keep") = {} THEN <<>> ELSE calls[n].sent
           t == calls[n].got
<1>1. calls[n].state = "back" /\ calls[n].op \in {"save", "drop"}
  BY DEF TakeSave, Back
<1>2. UnderWay(n) /\ t # None /\ t \in Tests /\ saved \in Patches
  BY <1>1, GotIs, EmptyPatch
<1>3. /\ Show(t, Refills(n), AnswerDoes(n, "close"), saved) /\ onTop' = 0 /\ Learn(n, TRUE) /\ listStale' = TRUE
      /\ End(n) /\ UNCHANGED server /\ UNCHANGED listMissed /\ UNCHANGED dialog
  BY DEF TakeSave
<1> HIDE DEF saved, t
<1>5. Len(calls') = Len(calls)
  BY <1>3, EndDoes
<1>6. FormsOK' /\ page' = t /\ screen' \in {"editor", "failed", "library", "login"}
  BY <1>2, <1>3, <1>5, ShowTyped
<1>7. seen' \in 0 .. version /\ missed' \in SUBSET {"other", "lost", "crossed", "rollback"}
  BY <1>2, <1>3, LearnTyped DEF t
<1> QED BY <1>2, <1>3, <1>6, <1>7, TypedAnswer, TypedParts DEF DialogOK, ScreenOK

LEMMA TypedTakeMove ==
    ASSUME Typed, NEW n \in DOMAIN calls, TakeMove(n)
    PROVE  Typed'
<1>1. calls[n].state = "back" /\ calls[n].op = "move"
  BY DEF TakeMove, Back
<1>2. UnderWay(n) /\ calls[n].got # None /\ calls[n].got \in Tests /\ <<>> \in Patches /\ LastMove(n) \in BOOLEAN
  BY <1>1, GotIs, EmptyPatch DEF LastMove
<1>3. /\ IF LastMove(n) THEN ShowOnly(calls[n].got) ELSE UNCHANGED <<page, forms, screen>>
      /\ Learn(n, LastMove(n)) /\ End(n)
      /\ UNCHANGED server /\ UNCHANGED onTop /\ UNCHANGED lists /\ UNCHANGED dialog
  BY DEF TakeMove
<1>5. Len(calls') = Len(calls)
  BY <1>3, EndDoes
<1>6. FormsOK' /\ page' \in Tests /\ screen' \in {"editor", "failed", "library", "login"}
  <2>1. CASE LastMove(n)
    BY <1>2, <1>3, <1>5, <2>1, ShowTyped DEF ShowOnly
  <2>2. CASE ~LastMove(n)
    BY <1>3, <1>5, <2>2, TypedParts DEF FormsOK, PageOK, ScreenOK, forms
  <2> QED BY <2>1, <2>2
<1>7. seen' \in 0 .. version /\ missed' \in SUBSET {"other", "lost", "crossed", "rollback"}
  BY <1>2, <1>3, LearnTyped
<1> QED BY <1>2, <1>3, <1>6, <1>7, TypedAnswer, TypedParts DEF DialogOK, ScreenOK, lists

LEMMA TypedTakeRead ==
    ASSUME Typed, NEW n \in DOMAIN calls, TakeRead(n)
    PROVE  Typed'
<1>1. calls[n].state = "back" /\ calls[n].op = "read"
  BY DEF TakeRead, Back
<1>2. UnderWay(n) /\ calls[n].got # None /\ calls[n].got \in Tests /\ <<>> \in Patches
  BY <1>1, GotIs, EmptyPatch
<1>3. /\ ShowOnly(calls[n].got) /\ onTop' = 0 /\ Learn(n, TRUE)
      /\ End(n) /\ UNCHANGED server /\ UNCHANGED lists /\ UNCHANGED dialog
  BY DEF TakeRead
<1>5. Len(calls') = Len(calls)
  BY <1>3, EndDoes
<1>6. FormsOK' /\ page' = calls[n].got /\ screen' \in {"editor", "failed", "library", "login"}
  BY <1>2, <1>3, <1>5, ShowTyped DEF ShowOnly
<1>7. seen' \in 0 .. version /\ missed' \in SUBSET {"other", "lost", "crossed", "rollback"}
  BY <1>2, <1>3, LearnTyped
<1> QED BY <1>2, <1>3, <1>6, <1>7, TypedAnswer, TypedParts DEF DialogOK, ScreenOK, lists

LEMMA TypedTakeImport ==
    ASSUME Typed, NEW n \in DOMAIN calls, TakeImport(n)
    PROVE  Typed'
<1>1. calls[n].state = "back" /\ calls[n].op = "import"
  BY DEF TakeImport, Back
<1>2. UnderWay(n) /\ calls[n].got # None /\ calls[n].got \in Tests /\ <<>> \in Patches
  BY <1>1, GotIs, EmptyPatch
<1>3. /\ ShowOnly(calls[n].got) /\ onTop' = 0 /\ Learn(n, TRUE) /\ listStale' = TRUE
      /\ End(n) /\ UNCHANGED server /\ UNCHANGED listMissed /\ dialog' = NoDialog
  BY DEF TakeImport
<1>5. Len(calls') = Len(calls)
  BY <1>3, EndDoes
<1>6. FormsOK' /\ page' = calls[n].got /\ screen' \in {"editor", "failed", "library", "login"}
  BY <1>2, <1>3, <1>5, ShowTyped DEF ShowOnly
<1>7. seen' \in 0 .. version /\ missed' \in SUBSET {"other", "lost", "crossed", "rollback"}
  BY <1>2, <1>3, LearnTyped
<1> QED BY <1>2, <1>3, <1>6, <1>7, NoDialogIs, TypedAnswer, TypedParts DEF ScreenOK

LEMMA TypedTakeCheck ==
    ASSUME Typed, NEW n \in DOMAIN calls, TakeCheck(n)
    PROVE  Typed'
<1>1. /\ End(n) /\ UNCHANGED server /\ UNCHANGED cache /\ UNCHANGED forms /\ UNCHANGED lists /\ UNCHANGED screen
      /\ dialog' = IF LatestAnswer(n)
                   THEN [dialog EXCEPT !.checked = IF calls[n].ready THEN "ready" ELSE "problems"]
                   ELSE dialog
  BY DEF TakeCheck
<1>2. dialog \in DialogShape /\ Len(calls') = Len(calls)
  BY <1>1, EndDoes, TypedParts DEF DialogOK
<1>3. dialog' \in DialogShape /\ dialog'.commit = dialog.commit
  BY <1>1, <1>2 DEF DialogShape
<1>4. FormsOK'
  BY <1>1, <1>2, TypedParts DEF FormsOK, forms
<1> QED BY <1>1, <1>3, <1>4, TypedAnswer, TypedParts DEF ScreenOK, PageOK, lists, cache

\* What the page shows after a call failed.
LEMMA FailDoes ==
    ASSUME Typed, NEW n \in DOMAIN calls, Fail(n)
    PROVE  /\ UnderWay(n) /\ End(n)
           /\ UNCHANGED server /\ UNCHANGED seen /\ UNCHANGED list /\ UNCHANGED listStale /\ UNCHANGED count
           /\ calls[n].op = "move" =>
                /\ ShowOnly(calls[n].prev) /\ onTop' = 0 /\ calls[n].prev \in Tests
                /\ UNCHANGED dialog
                /\ (onTop # n \/ calls[n].late => missed' # {})
           /\ calls[n].op = "read" =>
                /\ Unmount /\ UNCHANGED <<page, onTop, wanted>>
                /\ screen' = IF screen = "editor" THEN "failed" ELSE screen
                /\ dialog' = NoDialog /\ UNCHANGED missed
           /\ calls[n].op \notin {"move", "read"} =>
                UNCHANGED <<page, onTop, forms>> /\ UNCHANGED screen /\ UNCHANGED dialog
           /\ missed \subseteq missed' /\ missed' \subseteq missed \cup {"lost", "rollback"}
           /\ calls[n].got # None /\ calls[n].op \notin {"read", "check"} => missed' # {}
           /\ listMissed' = (listMissed \/ (calls[n].got # None /\ calls[n].op \notin {"read", "check"}))
<1> DEFINE op == calls[n].op
           unknown == calls[n].got # None /\ op \notin {"read", "check"}
<1>1. /\ UnderWay(n) /\ End(n)
      /\ UNCHANGED server /\ UNCHANGED seen /\ UNCHANGED list /\ UNCHANGED listStale /\ UNCHANGED count
  BY DEF Fail
<1>2. /\ IF op = "move" THEN ShowOnly(calls[n].prev) /\ onTop' = 0
         ELSE IF op = "read"
         THEN /\ Unmount
              /\ screen' = IF screen = "editor" THEN "failed" ELSE screen
              /\ UNCHANGED <<page, onTop, wanted>>
         ELSE UNCHANGED <<page, onTop, forms, screen>>
      /\ dialog' = IF op = "read" THEN NoDialog ELSE dialog
  BY DEF Fail, Rollback
<1>3. /\ missed' = missed \cup (IF unknown THEN {"lost"} ELSE {})
                          \cup (IF op = "move" /\ (onTop # n \/ calls[n].late) THEN {"rollback"} ELSE {})
      /\ listMissed' = (listMissed \/ unknown)
  BY DEF Fail
<1>4. op = "move" => calls[n].prev \in Tests
  BY <1>1, TypedIs, CallIs DEF CallTrue
<1>5. op = "move" /\ (onTop # n \/ calls[n].late) => "rollback" \in missed'
  BY <1>3
<1>6. unknown => "lost" \in missed'
  BY <1>3
<1>7. missed \subseteq missed' /\ missed' \subseteq missed \cup {"lost", "rollback"}
  BY <1>3
<1>8. op = "read" => missed' = missed
  BY <1>3
<1> HIDE DEF unknown
<1>9. op = "move" => /\ ShowOnly(calls[n].prev) /\ onTop' = 0 /\ calls[n].prev \in Tests
                     /\ UNCHANGED dialog
                     /\ (onTop # n \/ calls[n].late => missed' # {})
  BY <1>2, <1>4, <1>5
<1>10. op = "read" => /\ Unmount /\ UNCHANGED <<page, onTop, wanted>>
                      /\ screen' = IF screen = "editor" THEN "failed" ELSE screen
                      /\ dialog' = NoDialog /\ UNCHANGED missed
  BY <1>2, <1>8
<1>11. op \notin {"move", "read"} => UNCHANGED <<page, onTop, forms>> /\ UNCHANGED screen /\ UNCHANGED dialog
  BY <1>2
<1> QED BY <1>1, <1>3, <1>6, <1>7, <1>9, <1>10, <1>11 DEF unknown

LEMMA TypedFail ==
    ASSUME Typed, NEW n \in DOMAIN calls, Fail(n)
    PROVE  Typed'
<1>1. /\ End(n) /\ UNCHANGED server /\ UNCHANGED seen /\ UNCHANGED listStale
      /\ missed' \subseteq missed \cup {"lost", "rollback"}
      /\ listMissed' = (listMissed \/ (calls[n].got # None /\ calls[n].op \notin {"read", "check"}))
  BY FailDoes
<1>2. Len(calls') = Len(calls) /\ <<>> \in Patches
  BY <1>1, EndDoes, EmptyPatch
<1>3. PageOK /\ FormsOK /\ DialogOK /\ ScreenOK
  BY TypedParts
<1>4. /\ seen' \in 0 .. version /\ missed' \in SUBSET {"other", "lost", "crossed", "rollback"}
      /\ listStale' \in BOOLEAN /\ listMissed' \in BOOLEAN
  BY <1>1, <1>3 DEF PageOK, ScreenOK
<1>5. CASE calls[n].op = "move"
  <2>1. /\ ShowOnly(calls[n].prev) /\ onTop' = 0 /\ calls[n].prev \in Tests
        /\ UNCHANGED dialog
    BY <1>5, FailDoes
  <2>2. FormsOK' /\ page' = calls[n].prev /\ screen' \in {"editor", "failed", "library", "login"}
    BY <1>2, <2>1, ShowTyped DEF ShowOnly
  <2> QED BY <1>1, <1>3, <1>4, <2>1, <2>2, TypedAnswer DEF DialogOK, ScreenOK
<1>6. CASE calls[n].op = "read"
  <2>1. /\ Unmount /\ wanted' = wanted /\ page' = page /\ onTop' = onTop /\ dialog' = NoDialog
        /\ screen' = IF screen = "editor" THEN "failed" ELSE screen
    BY <1>6, FailDoes
  <2>2. FormsOK'
    BY <1>2, <1>3, <2>1, UnmountTyped DEF FormsOK
  <2> QED BY <1>1, <1>3, <1>4, <2>1, <2>2, NoDialogIs, TypedAnswer DEF PageOK, ScreenOK
<1>7. CASE calls[n].op \notin {"move", "read"}
  <2>1. UNCHANGED page /\ UNCHANGED onTop /\ UNCHANGED forms /\ UNCHANGED screen /\ UNCHANGED dialog
    BY <1>7, FailDoes
  <2>2. FormsOK'
    BY <1>2, <1>3, <2>1 DEF FormsOK, forms
  <2> QED BY <1>1, <1>3, <1>4, <2>1, <2>2, TypedAnswer DEF PageOK, ScreenOK, DialogOK
<1> QED BY <1>5, <1>6, <1>7

LEMMA TypedSession ==
    ASSUME Typed, NEW n \in DOMAIN calls, SessionEnded(n)
    PROVE  Typed'
<1>1. CallsOK' /\ Len(calls') = Len(calls) /\ Len(calls) \in Nat
  BY SessionDoes, TypedIs
<1>2. /\ Unmount /\ wanted' = wanted /\ UNCHANGED server /\ page' = page /\ seen' = seen /\ missed' = missed /\ onTop' = 0
      /\ UNCHANGED lists /\ screen' = "login" /\ dialog' = NoDialog
  BY DEF SessionEnded
<1>3. FormsOK'
  BY <1>1, <1>2, UnmountTyped, TypedParts DEF FormsOK
<1>4. version' = version /\ ServerOK'
  BY <1>2, TypedParts DEF ServerOK, server
<1>5. PageOK'
  BY <1>1, <1>2, <1>4, TypedParts DEF PageOK
<1>6. DialogOK' /\ ScreenOK'
  BY <1>1, <1>2, NoDialogIs, TypedParts DEF DialogOK, ScreenOK, lists
<1> QED BY <1>1, <1>3, <1>4, <1>5, <1>6, TypedPartsNext

LEMMA TypedSendNext ==
    ASSUME Typed, NEW n \in DOMAIN calls, SendNext(n)
    PROVE  Typed'
<1>1. CallsOK' /\ Len(calls') = Len(calls) /\ UNCHANGED <<server, cache, forms, lists, screen, dialog>>
  BY NextSent
<1>2. /\ UNCHANGED server /\ UNCHANGED cache /\ UNCHANGED forms /\ UNCHANGED lists /\ UNCHANGED screen
      /\ UNCHANGED dialog
  BY <1>1
<1>3. ServerOK' /\ version' = version /\ version \in Nat /\ Len(calls) \in Nat
  BY <1>2, TypedParts, TypedIs DEF server, ServerOK
<1>4. PageOK' /\ FormsOK' /\ DialogOK' /\ ScreenOK'
  BY <1>1, <1>2, <1>3, Framed DEF lists
<1> QED BY <1>1, <1>3, <1>4, TypedPartsNext

\* Every step, in the groups the proofs below take them in.
LEMMA Steps ==
    ASSUME Next
    PROVE  \/ \E x \in Fields, v \in Values : Type(x, v)
           \/ \E f \in Forms : Discard(f)
           \/ \E f \in Forms : Open(f)
           \/ \E flt \in Filters : Filter(flt)
           \/ \E f \in Forms : Close(f)
           \/ \E f \in Forms : Save(f)
           \/ Sends
           \/ \E i, j \in DOMAIN page.order : Move(i, j)
           \/ ToLibrary \/ ToEditor \/ SignIn \/ ListRead
           \/ OpenDialog \/ CloseDialog \/ ChooseNone
           \/ Import
           \/ \E file \in Files : Choose(file)
           \/ \E mode \in {"append", "replace"} : ChangeMode(mode)
           \/ OtherAdmin
           \/ \E n \in DOMAIN calls :
                 \/ Changes(n) \/ ServeRead(n) \/ ServeCheck(n)
                 \/ SendNext(n) \/ TakeSave(n) \/ TakeMove(n) \/ TakeRead(n) \/ TakeCheck(n) \/ TakeImport(n)
                 \/ Fail(n) \/ SessionEnded(n)
BY DEF Next, Person, Sends, Server, Answer, Changes

LEMMA TypedStep == Typed /\ [Next]_vars => Typed'
<1> SUFFICES ASSUME Typed, [Next]_vars PROVE Typed'
  OBVIOUS
<1>1. CASE UNCHANGED vars
  <2>1. /\ UNCHANGED server /\ UNCHANGED calls /\ UNCHANGED cache /\ UNCHANGED forms /\ UNCHANGED lists
        /\ UNCHANGED screen /\ UNCHANGED dialog
    BY <1>1 DEF vars
  <2> QED BY <2>1, Framed0, TypedPartsNext DEF lists
<1>2. CASE Next
  <2>1. ASSUME NEW file \in Files, Choose(file)
        PROVE  Typed'
    <3>1. Check(file, dialog.mode) /\ dialog.mode \in {"append", "replace"}
      BY <2>1, TypedParts DEF Choose, DialogOK, DialogShape
    <3> QED BY <3>1, TypedCheck
  <2> QED BY <1>2, <2>1, Steps, TypedType, TypedDiscard, TypedOpen, TypedFilter, TypedClose, TypedSave, TypedSends, TypedMove,
             TypedToLibrary, TypedToEditor, TypedSignIn, TypedListRead, TypedDialog, TypedImport,
             TypedChangeMode, TypedOther, TypedChanges, TypedReplies, TypedSendNext, TypedTakeSave,
             TypedTakeMove, TypedTakeRead, TypedTakeCheck, TypedTakeImport, TypedFail, TypedSession
<1> QED BY <1>1, <1>2

LEMMA AlwaysTyped == Spec => []Typed
<1>1. Init => Typed
  BY InitTyped
<1>2. Typed /\ [Next]_vars => Typed'
  BY TypedStep
<1> QED BY <1>1, <1>2, PTL DEF Spec

\* The tab, its cache and its forms are well formed.
THEOREM TypeCorrect == Spec => []TypeOK
<1>1. Typed => TypeOK
  BY DEF Typed
<1> QED BY <1>1, AlwaysTyped, PTL

-----------------------------------------------------------------------------
(* The import dialog.                                                       *)

\* What stays of a call, whatever happens to it.
CallsKept ==
    /\ DOMAIN calls \subseteq DOMAIN calls'
    /\ \A n \in DOMAIN calls :
          /\ calls'[n].op = calls[n].op
          /\ calls[n].op \in {"check", "import"} => calls'[n].file = calls[n].file /\ calls'[n].mode = calls[n].mode
          /\ calls[n].state = "over" =>
                /\ calls'[n].state = "over"
                /\ calls[n].op \in {"check", "import"} => calls'[n].ready = calls[n].ready

NoNewImports == \A n \in DOMAIN calls' \ DOMAIN calls : calls'[n].op # "import"

LEMMA CallKept ==
    ASSUME Typed, NEW k \in CallShape, CallTrue(k, version, test), Call(k), UNCHANGED server
    PROVE  /\ CallsKept /\ \A n \in DOMAIN calls : calls'[n] = calls[n]
           /\ Len(calls') \in DOMAIN calls' /\ calls'[Len(calls')] = k /\ Len(calls') \notin DOMAIN calls
           /\ k.op # "import" => NoNewImports
<1>1. /\ DOMAIN calls' = DOMAIN calls \cup {Len(calls')} /\ \A n \in DOMAIN calls : calls'[n] = calls[n]
      /\ Len(calls') \in DOMAIN calls' /\ calls'[Len(calls')] = k /\ Len(calls') \notin DOMAIN calls
  BY CallFramed
<1>2. CallsKept
  BY <1>1 DEF CallsKept
<1> QED BY <1>1, <1>2 DEF NoNewImports

LEMMA EndKept ==
    ASSUME Typed, NEW n \in DOMAIN calls, End(n), UNCHANGED server, UnderWay(n)
    PROVE  CallsKept /\ NoNewImports
<1>1. /\ DOMAIN calls' = DOMAIN calls /\ \A m \in DOMAIN calls : m # n => calls'[m] = calls[m]
      /\ calls'[n] = Ended(calls[n]) /\ calls'[n].op = calls[n].op
  BY EndDoes
<1>2. /\ calls[n].op \in {"check", "import"} => calls'[n].file = calls[n].file /\ calls'[n].mode = calls[n].mode
      /\ calls[n].state # "over"
  BY <1>1, EndedIs, TypedIs DEF UnderWay
<1> QED BY <1>1, <1>2 DEF CallsKept, NoNewImports

LEMMA StaysPassed ==
    ASSUME Typed, CallsKept, NEW m \in DOMAIN calls, NEW file, NEW mode
    PROVE  /\ IsCheck(calls[m], file, mode) => IsCheck(calls'[m], file, mode)
           /\ Passed(calls[m], file, mode) => Passed(calls'[m], file, mode)
BY DEF IsCheck, Passed, CallsKept

LEMMA ImportsStay ==
    ASSUME Typed, DialogInv, CallsKept, NEW n \in DOMAIN calls, calls'[n].op = "import"
    PROVE  \E m \in 1 .. n - 1 : Passed(calls'[m], calls'[n].file, calls'[n].mode)
<1>1. calls[n].op = "import" /\ calls'[n].file = calls[n].file /\ calls'[n].mode = calls[n].mode
  BY DEF CallsKept
<1>2. PICK m \in 1 .. n - 1 : Passed(calls[m], calls[n].file, calls[n].mode)
  BY <1>1 DEF DialogInv
<1>3. m \in DOMAIN calls
  BY TypedIs
<1> QED BY <1>1, <1>2, <1>3, StaysPassed

LEMMA DialogStays ==
    ASSUME Typed, DialogInv, CallsKept, NoNewImports,
           \/ dialog'.check = 0 /\ dialog'.checked # "ready"
           \/ /\ dialog'.check = dialog.check /\ dialog'.checked = dialog.checked
              /\ dialog'.file = dialog.file /\ dialog'.mode = dialog.mode
    PROVE  DialogInv'
<1>1. dialog'.check # 0 =>
          /\ dialog'.file \in Files /\ dialog'.check \in DOMAIN calls'
          /\ IsCheck(calls'[dialog'.check], dialog'.file, dialog'.mode)
  BY StaysPassed DEF DialogInv, CallsKept
<1>2. dialog'.checked = "ready" =>
          dialog'.check # 0 /\ Passed(calls'[dialog'.check], dialog'.file, dialog'.mode)
  BY StaysPassed DEF DialogInv
<1>3. \A n \in DOMAIN calls' : calls'[n].op = "import" =>
          \E m \in 1 .. n - 1 : Passed(calls'[m], calls'[n].file, calls'[n].mode)
  BY ImportsStay DEF NoNewImports
<1> QED BY <1>1, <1>2, <1>3 DEF DialogInv

LEMMA DialogUnchanged ==
    ASSUME Typed, DialogInv, CallsKept, NoNewImports, UNCHANGED dialog \/ dialog' = NoDialog
    PROVE  DialogInv'
BY DialogStays, NoDialogIs

LEMMA DialogCheck ==
    ASSUME Typed, DialogInv, NEW file \in Files, NEW mode \in {"append", "replace"}, Check(file, mode)
    PROVE  DialogInv'
<1>1. PICK k \in CallShape : /\ Call(k) /\ CallTrue(k, version, test) /\ k.op = "check" /\ k.file = file /\ k.mode = mode
  BY CheckDoes
<1>2. /\ UNCHANGED server /\ dialog'.file = file /\ dialog'.mode = mode /\ dialog'.checked = "no"
      /\ dialog'.check = Len(calls')
  BY CheckDoes
<1>3. Len(calls') \in DOMAIN calls' /\ calls'[Len(calls')] = k /\ NoNewImports /\ CallsKept
  BY <1>1, <1>2, CallKept
<1>4. IsCheck(calls'[Len(calls')], file, mode)
  BY <1>1, <1>3 DEF IsCheck
<1>5. \A n \in DOMAIN calls' : calls'[n].op = "import" =>
          \E m \in 1 .. n - 1 : Passed(calls'[m], calls'[n].file, calls'[n].mode)
  BY <1>3, ImportsStay DEF NoNewImports
<1> QED BY <1>2, <1>3, <1>4, <1>5 DEF DialogInv

LEMMA DialogImport ==
    ASSUME Typed, DialogInv, Import
    PROVE  DialogInv'
<1> DEFINE m == dialog.check
<1>1. PICK k \in CallShape : /\ Call(k) /\ CallTrue(k, version, test) /\ k.op = "import"
                             /\ k.file = dialog.file /\ k.mode = dialog.mode
  BY ImportDoes
<1>2. /\ UNCHANGED server /\ dialog'.file = dialog.file /\ dialog'.mode = dialog.mode
      /\ dialog'.checked = dialog.checked /\ dialog'.check = dialog.check
  BY ImportDoes
<1>3. /\ DOMAIN calls' = DOMAIN calls \cup {Len(calls')} /\ calls'[Len(calls')] = k
      /\ DOMAIN calls = 1 .. Len(calls) /\ Len(calls') = Len(calls) + 1 /\ Len(calls) \in Nat
  BY <1>1, <1>2, CallFramed, TypedIs
<1>4. CallsKept
  BY <1>1, <1>2, CallKept
<1>5. /\ m # 0 /\ m \in DOMAIN calls /\ dialog.file \in Files
      /\ IsCheck(calls[m], dialog.file, dialog.mode) /\ Passed(calls[m], dialog.file, dialog.mode)
  BY DEF DialogInv, Import
<1> HIDE DEF m
<1>6. IsCheck(calls'[m], dialog.file, dialog.mode) /\ Passed(calls'[m], dialog.file, dialog.mode)
  BY <1>4, <1>5, StaysPassed
<1>7. ASSUME NEW n \in DOMAIN calls', calls'[n].op = "import"
      PROVE  \E l \in 1 .. n - 1 : Passed(calls'[l], calls'[n].file, calls'[n].mode)
  <2>1. CASE n \in DOMAIN calls
    BY <1>4, <1>7, <2>1, ImportsStay
  <2>2. CASE n \notin DOMAIN calls
    <3>1. n = Len(calls') /\ calls'[n].file = dialog.file /\ calls'[n].mode = dialog.mode
      BY <1>1, <1>3, <2>2
    <3>2. m \in 1 .. n - 1
      BY <1>3, <1>5, <3>1
    <3> QED BY <1>6, <3>1, <3>2
  <2> QED BY <2>1, <2>2
<1>8. dialog'.check = m /\ m \in DOMAIN calls'
  BY <1>2, <1>3, <1>5 DEF m
<1> QED BY <1>2, <1>5, <1>6, <1>7, <1>8 DEF DialogInv

LEMMA DialogTakeCheck ==
    ASSUME Typed, DialogInv, NEW n \in DOMAIN calls, TakeCheck(n)
    PROVE  DialogInv'
<1>1. /\ End(n) /\ UNCHANGED server /\ UnderWay(n) /\ calls[n].op = "check"
      /\ dialog' = IF LatestAnswer(n)
                   THEN [dialog EXCEPT !.checked = IF calls[n].ready THEN "ready" ELSE "problems"]
                   ELSE dialog
  BY DEF TakeCheck, Back, UnderWay
<1>2. CallsKept /\ NoNewImports
  BY <1>1, EndKept
<1>3. CASE ~LatestAnswer(n)
  BY <1>1, <1>2, <1>3, DialogUnchanged
<1>4. CASE LatestAnswer(n)
  <2> DEFINE found == IF calls[n].ready THEN "ready" ELSE "problems"
  <2>1. dialog.check = n /\ n # 0 /\ dialog \in DialogShape
    BY <1>4, TypedIs, TypedParts DEF LatestAnswer, DialogOK
  <2>2. dialog' = [dialog EXCEPT !.checked = found]
    BY <1>1, <1>4
  <2>3. found = "ready" => calls[n].ready
    OBVIOUS
  <2> HIDE DEF found
  <2>4. /\ dialog'.check = n /\ dialog'.file = dialog.file /\ dialog'.mode = dialog.mode
        /\ dialog'.checked = found
    BY <2>1, <2>2 DEF DialogShape
  <2>5. dialog.file \in Files /\ IsCheck(calls[n], dialog.file, dialog.mode)
    BY <2>1 DEF DialogInv
  <2>6. calls'[n].state = "over" /\ (calls'[n].ready <=> calls[n].ready) /\ n \in DOMAIN calls'
    <3>1. calls'[n] = Ended(calls[n]) /\ calls'[n].state = "over" /\ DOMAIN calls' = DOMAIN calls
      BY <1>1, EndDoes
    <3> QED BY <1>1, <3>1, EndedIs, TypedIs
  <2>7. IsCheck(calls'[n], dialog.file, dialog.mode)
    BY <1>2, <2>5, StaysPassed
  <2>8. dialog'.checked = "ready" => Passed(calls'[n], dialog.file, dialog.mode)
    BY <2>3, <2>4, <2>6, <2>7 DEF Passed
  <2>9. \A l \in DOMAIN calls' : calls'[l].op = "import" =>
            \E m \in 1 .. l - 1 : Passed(calls'[m], calls'[l].file, calls'[l].mode)
    BY <1>2, ImportsStay DEF NoNewImports
  <2> QED BY <2>1, <2>4, <2>5, <2>6, <2>7, <2>8, <2>9 DEF DialogInv
<1> QED BY <1>3, <1>4

LEMMA KeptSame ==
    ASSUME Typed, UNCHANGED calls
    PROVE  CallsKept /\ NoNewImports
BY DEF CallsKept, NoNewImports

LEMMA KeptMove ==
    ASSUME Typed, NEW i \in DOMAIN page.order, NEW j \in DOMAIN page.order, Move(i, j)
    PROVE  CallsKept /\ NoNewImports
<1>1. /\ DOMAIN calls' = DOMAIN calls \cup {Len(calls')} /\ onTop' = Len(calls')
      /\ \A n \in DOMAIN calls : calls'[n] = IF calls[n].op = "read" THEN Ended(calls[n]) ELSE calls[n]
      /\ calls'[onTop'].op = "move"
  BY MoveDoes
<1>2. \A n \in DOMAIN calls : calls[n].op = "read" => Ended(calls[n]).state = "over" /\ Ended(calls[n]).op = "read"
  BY EndedIs, TypedIs
<1> QED BY <1>1, <1>2 DEF CallsKept, NoNewImports

LEMMA KeptServer ==
    ASSUME Typed, NEW n \in DOMAIN calls, Changes(n) \/ ServeRead(n) \/ ServeCheck(n) \/ SendNext(n)
    PROVE  CallsKept /\ NoNewImports /\ UNCHANGED dialog
<1>1. CASE Changes(n)
  <2>1. PICK t \in Tests : /\ calls[n].state = "sent" /\ calls[n].op \notin {"read", "check"} /\ Serve(n, t)
                           /\ (calls[n].op = "move" => t.order = calls[n].ids)
    BY <1>1, ChangesDo
  <2>2. /\ DOMAIN calls' = DOMAIN calls /\ \A m \in DOMAIN calls : m # n => calls'[m] = calls[m]
        /\ calls'[n].op = calls[n].op /\ calls'[n].file = calls[n].file /\ calls'[n].mode = calls[n].mode
    BY <2>1, Served
  <2> QED BY <2>1, <2>2 DEF CallsKept, NoNewImports, Serve
<1>2. CASE ServeRead(n)
  BY <1>2, ReadServed DEF CallsKept, NoNewImports
<1>3. CASE ServeCheck(n)
  BY <1>3, CheckServed DEF CallsKept, NoNewImports
<1>4. CASE SendNext(n)
  <2>1. /\ calls[n].op = "save" /\ calls[n].state = "back" /\ calls'[n].op = "save"
        /\ DOMAIN calls' = DOMAIN calls /\ \A m \in DOMAIN calls : m # n => calls'[m] = calls[m]
        /\ UNCHANGED dialog
    BY <1>4, NextSent
  <2> QED BY <2>1 DEF CallsKept, NoNewImports
<1> QED BY <1>1, <1>2, <1>3, <1>4

LEMMA KeptAnswer ==
    ASSUME Typed, NEW n \in DOMAIN calls,
           TakeSave(n) \/ TakeMove(n) \/ TakeRead(n) \/ TakeImport(n) \/ Fail(n) \/ SessionEnded(n)
    PROVE  CallsKept /\ NoNewImports /\ (UNCHANGED dialog \/ dialog' = NoDialog)
<1>1. CASE SessionEnded(n)
  <2>1. /\ DOMAIN calls' = DOMAIN calls
        /\ \A m \in DOMAIN calls : calls'[m] = Ended(calls[m]) /\ calls'[m].state = "over"
    BY <1>1, SessionDoes
  <2>2. \A m \in DOMAIN calls : calls[m] \in CallShape
    BY TypedIs
  <2>3. \A m \in DOMAIN calls :
           /\ calls'[m].op = calls[m].op
           /\ calls[m].op \in {"check", "import"} =>
                /\ calls'[m].file = calls[m].file /\ calls'[m].mode = calls[m].mode
                /\ calls'[m].ready = calls[m].ready
    BY <2>1, <2>2, EndedIs
  <2> QED BY <1>1, <2>1, <2>3 DEF CallsKept, NoNewImports, SessionEnded
<1>2. CASE Fail(n)
  <2>1. UnderWay(n) /\ End(n) /\ UNCHANGED server
    BY <1>2, FailDoes
  <2>2. UNCHANGED dialog \/ dialog' = NoDialog
    BY <1>2, FailDoes
  <2> QED BY <2>1, <2>2, EndKept
<1>3. CASE TakeSave(n) \/ TakeMove(n) \/ TakeRead(n) \/ TakeImport(n)
  <2>1. UnderWay(n) /\ End(n) /\ UNCHANGED server /\ (UNCHANGED dialog \/ dialog' = NoDialog)
    BY <1>3 DEF TakeSave, TakeMove, TakeRead, TakeImport, Back, UnderWay
  <2> QED BY <2>1, EndKept
<1> QED BY <1>1, <1>2, <1>3

LEMMA DialogStep == Typed /\ DialogInv /\ [Next]_vars => DialogInv'
<1> SUFFICES ASSUME Typed, DialogInv, [Next]_vars PROVE DialogInv'
  OBVIOUS
<1>1. ASSUME UNCHANGED calls, UNCHANGED dialog \/ dialog' = NoDialog
      PROVE  DialogInv'
  BY <1>1, KeptSame, DialogUnchanged
<1>2. CASE UNCHANGED vars
  BY <1>1, <1>2 DEF vars
<1>3. ASSUME NEW f \in Forms, Save(f)
      PROVE  DialogInv'
  <2>1. PICK k \in CallShape : Call(k) /\ CallTrue(k, version, test) /\ k.op = "save"
    BY <1>3, SaveDoes
  <2>2. UNCHANGED server /\ UNCHANGED dialog
    BY <1>3 DEF Save
  <2>3. CallsKept /\ NoNewImports
    BY <2>1, <2>2, CallKept
  <2> QED BY <2>2, <2>3, DialogUnchanged
<1>4. ASSUME Sends
      PROVE  DialogInv'
  <2>1. PICK k \in CallShape : Call(k) /\ CallTrue(k, version, test) /\ k.op \in {"save", "drop", "read"}
                               /\ UNCHANGED <<server, cache, forms, lists, screen, dialog>>
    BY <1>4, SendsDo
  <2>2. CallsKept /\ NoNewImports
    BY <2>1, CallKept
  <2> QED BY <2>1, <2>2, DialogUnchanged
<1>5. ASSUME NEW i \in DOMAIN page.order, NEW j \in DOMAIN page.order, Move(i, j)
      PROVE  DialogInv'
  BY <1>5, KeptMove, DialogUnchanged DEF Move
<1>6. ASSUME OpenDialog \/ ChooseNone
      PROVE  DialogInv'
  <2>1. dialog'.check = 0 /\ dialog'.checked = "no" /\ UNCHANGED calls
    <3>1. dialog \in DialogShape
      BY TypedParts DEF DialogOK
    <3>2. CASE OpenDialog
      <4>1. dialog' = [NoDialog EXCEPT !.open = TRUE]
        BY <3>2 DEF OpenDialog
      <4> QED BY <3>2, <4>1, NoDialogIs DEF OpenDialog, DialogShape
    <3>3. CASE ChooseNone
      BY <3>1, <3>3 DEF ChooseNone, DialogShape
    <3> QED BY <1>6, <3>2, <3>3
  <2> QED BY <2>1, KeptSame, DialogStays
<1>7. ASSUME NEW mode \in {"append", "replace"}, ChangeMode(mode)
      PROVE  DialogInv'
  <2>1. dialog \in DialogShape /\ dialog.file \in Files \cup {None}
    BY TypedParts DEF DialogOK, DialogShape
  <2>2. CASE dialog.file # None
    BY <1>7, <2>1, <2>2, DialogCheck DEF ChangeMode
  <2>3. CASE dialog.file = None
    <3>1. dialog.check = 0 /\ dialog.checked # "ready"
      BY <2>3, NoneAssumption DEF DialogInv
    <3> DEFINE a == [dialog EXCEPT !.mode = mode]
    <3>2. a \in DialogShape /\ a.check = dialog.check /\ a.checked = dialog.checked
      BY <2>1 DEF DialogShape
    <3>3. dialog' = [a EXCEPT !.commit = 0] /\ UNCHANGED calls
      BY <1>7, <2>3 DEF ChangeMode
    <3> HIDE DEF a
    <3>4. dialog'.check = 0 /\ dialog'.checked # "ready"
      BY <3>1, <3>2, <3>3 DEF DialogShape
    <3> QED BY <3>3, <3>4, KeptSame, DialogStays
  <2> QED BY <2>2, <2>3
<1>8. ASSUME NEW file \in Files, Choose(file)
      PROVE  DialogInv'
  <2>1. Check(file, dialog.mode) /\ dialog.mode \in {"append", "replace"}
    BY <1>8, TypedParts DEF Choose, DialogOK, DialogShape
  <2> QED BY <2>1, DialogCheck
<1>9. ASSUME NEW n \in DOMAIN calls,
             \/ Changes(n) \/ ServeRead(n) \/ ServeCheck(n)
             \/ SendNext(n) \/ TakeSave(n) \/ TakeMove(n) \/ TakeRead(n) \/ TakeCheck(n) \/ TakeImport(n)
             \/ Fail(n) \/ SessionEnded(n)
      PROVE  DialogInv'
  <2>1. CASE TakeCheck(n)
    BY <2>1, DialogTakeCheck
  <2>2. CASE Changes(n) \/ ServeRead(n) \/ ServeCheck(n) \/ SendNext(n)
    BY <2>2, KeptServer, DialogUnchanged
  <2>3. CASE TakeSave(n) \/ TakeMove(n) \/ TakeRead(n) \/ TakeImport(n) \/ Fail(n) \/ SessionEnded(n)
    BY <2>3, KeptAnswer, DialogUnchanged
  <2> QED BY <1>9, <2>1, <2>2, <2>3
<1>10. ASSUME \/ \E x \in Fields, v \in Values : Type(x, v)
              \/ \E f \in Forms : Discard(f)
              \/ \E f \in Forms : Open(f)
              \/ \E flt \in Filters : Filter(flt)
              \/ \E f \in Forms : Close(f)
              \/ ToLibrary \/ ToEditor \/ SignIn \/ ListRead
              \/ CloseDialog \/ OtherAdmin
       PROVE  DialogInv'
  <2>1. UNCHANGED calls /\ (UNCHANGED dialog \/ dialog' = NoDialog)
    BY <1>10 DEF Type, Discard, Open, Filter, Close, ToLibrary, ToEditor, SignIn, ListRead, CloseDialog, OtherAdmin
  <2> QED BY <1>1, <2>1
<1> QED BY <1>2, <1>3, <1>4, <1>5, <1>6, <1>7, <1>8, <1>9, <1>10, DialogImport, Steps

LEMMA InitDialog == Init => DialogInv
BY NoDialogIs DEF Init, DialogInv

LEMMA AlwaysDialog == Spec => [](Typed /\ DialogInv)
<1>1. Init => DialogInv
  BY InitDialog
<1>2. Typed /\ DialogInv /\ [Next]_vars => DialogInv'
  BY DialogStep
<1> QED BY <1>1, <1>2, AlwaysTyped, PTL DEF Spec

\* A file is imported only after the server found it ready, to be imported the same way.
THEOREM OnlyCheckedImported == Spec => []ImportsWhatWasChecked
<1>1. Typed /\ DialogInv => ImportsWhatWasChecked
  <2> SUFFICES ASSUME Typed, DialogInv, NEW n \in DOMAIN calls, calls[n].op = "import"
               PROVE  \E m \in 1 .. n - 1 : /\ calls[m].op = "check" /\ calls[m].ready
                                            /\ calls[m].file = calls[n].file /\ calls[m].mode = calls[n].mode
    BY DEF ImportsWhatWasChecked
  <2>1. PICK m \in 1 .. n - 1 : Passed(calls[m], calls[n].file, calls[n].mode)
    BY DEF DialogInv
  <2> QED BY <2>1 DEF Passed, IsCheck
<1> QED BY <1>1, AlwaysDialog, PTL

-----------------------------------------------------------------------------
(* Forms.                                                                   *)

\* What form f waits for of call c comes with d too.
ComesToo(c, d) ==
    \A f \in Forms : \A x \in FieldsOf[f] : \A want \in Values : Comes(f, x, want, c) => Comes(f, x, want, d)

\* Calls that a form may wait for bring what they would have, or end.
CallsFollow ==
    \A n \in DOMAIN calls : \/ calls'[n] = calls[n] \/ calls'[n].state = "over"
                            \/ calls[n].state # "over" /\ ComesToo(calls[n], calls'[n])

LEMMA FormsFacts ==
    ASSUME Typed, NEW f \in Forms, NEW x \in FieldsOf[f]
    PROVE  /\ x \in Fields /\ FormOf(x) = f
           /\ page.is[x] \in Values /\ page.is[x] # None
           /\ owner[f] \in DOMAIN calls \cup {0}
           /\ draft[x] \in Values \cup {None} /\ wanted[x] \in Values \cup {None}
<1>1. x \in Fields
  BY FormIs
<1>2. page.is \in [Cells -> Values] /\ Fields \subseteq Cells /\ FormsOK /\ DOMAIN calls = 1 .. Len(calls) /\ Len(calls) \in Nat
  BY TypedIs, TypedParts, TestIs, CellsAre
<1>3. owner[f] \in DOMAIN calls \cup {0}
  BY <1>2 DEF FormsOK
<1> QED BY <1>1, <1>2, <1>3, FieldIs, NoneAssumption DEF FormsOK

LEMMA HeldStays ==
    ASSUME Typed, FieldsHeld, CallsFollow, NEW f \in Forms, NEW x \in FieldsOf[f], NEW shown,
           shown = page.is[x] \/ shown # wanted[x]
    PROVE  Held(f, x, wanted[x], draft[x], shown, owner[f], calls')
<1>1. Held(f, x, wanted[x], draft[x], page.is[x], owner[f], calls)
  BY DEF FieldsHeld
<1>2. owner[f] \in DOMAIN calls \cup {0} /\ wanted[x] \in Values \cup {None}
  BY FormsFacts
<1>3. ASSUME owner[f] # 0, calls'[owner[f]].state # "over", wanted[x] # None, draft[x] # None
      PROVE  Comes(f, x, wanted[x], calls'[owner[f]])
  <2>1. \/ calls'[owner[f]] = calls[owner[f]]
        \/ calls[owner[f]].state # "over" /\ ComesToo(calls[owner[f]], calls'[owner[f]])
    BY <1>2, <1>3 DEF CallsFollow
  <2>2. Comes(f, x, wanted[x], calls[owner[f]])
    BY <1>1, <1>3, <2>1 DEF Held
  <2> QED BY <1>2, <1>3, <2>1, <2>2 DEF ComesToo
<1> QED BY <1>1, <1>3 DEF Held

\* The forms stay as they are.
LEMMA FormsStay ==
    ASSUME Typed, FormsInv, CallsFollow, UNCHANGED <<open, filter, draft, wanted, owner>>,
           page'.is = page.is, Range(page'.order) = Range(page.order), screen' = screen
    PROVE  FormsInv'
<1>1. \A f \in Forms : Has(f, page', filter') <=> Has(f, page, filter)
  BY HasSame
<1>2. FormsWhole' /\ ScreenInv'
  BY <1>1 DEF FormsInv, FormsWhole, ScreenInv, Mounted
<1>3. ASSUME NEW f \in Forms, NEW x \in FieldsOf[f]
      PROVE  /\ Held(f, x, wanted'[x], draft'[x], page'.is[x], owner'[f], calls')
             /\ wanted'[x] # None => screen' # "library" /\ (screen' = "editor" => f \in open')
  BY HeldStays DEF FormsInv, FieldsHeld
<1> QED BY <1>2, <1>3 DEF FormsInv, FieldsHeld

LEMMA FormsType ==
    ASSUME Typed, FormsInv, NEW x \in Fields, NEW v \in Values, Type(x, v)
    PROVE  FormsInv'
<1>1. /\ screen = "editor" /\ screen' = screen /\ draft[x] # None /\ draft' = [draft EXCEPT ![x] = v]
      /\ wanted' = [wanted EXCEPT ![x] = IF v = page.is[x] \/ Pending(owner[FormOf(x)]) THEN None ELSE v]
      /\ owner' = owner /\ page' = page /\ calls' = calls /\ open' = open /\ filter' = filter
  BY DEF Type, cache
<1>2. /\ draft \in [Fields -> Values \cup {None}] /\ wanted \in [Fields -> Values \cup {None}] /\ v # None
  BY TypedParts, NoneAssumption DEF FormsOK
<1>3. \A f \in Forms : FieldsOf[f] \subseteq Fields
  BY FormIs
<1>4. FormsWhole' /\ ScreenInv'
  <2>1. \A f \in Forms : Mounted(f)' <=> Mounted(f)
    BY <1>1, <1>2, <1>3 DEF Mounted
  <2>2. \A f \in Forms : Mounted(f) \/ \A y \in FieldsOf[f] : draft'[y] = None
    BY <1>1, <1>2, <1>3 DEF FormsInv, FormsWhole
  <2> QED BY <1>1, <2>1, <2>2 DEF FormsInv, FormsWhole, ScreenInv
<1>5. ASSUME NEW f \in Forms, NEW y \in FieldsOf[f]
      PROVE  /\ Held(f, y, wanted'[y], draft'[y], page'.is[y], owner'[f], calls')
             /\ wanted'[y] # None => screen' # "library" /\ (screen' = "editor" => f \in open')
  <2>1. y \in Fields /\ FormOf(y) = f
    BY FormsFacts
  <2>2. CASE y # x
    <3>1. wanted'[y] = wanted[y] /\ draft'[y] = draft[y]
      BY <1>1, <1>2, <2>1, <2>2
    <3> QED BY <1>1, <3>1 DEF FormsInv, FieldsHeld
  <2>3. CASE y = x
    <3>1. draft'[y] = v /\ wanted'[y] = IF v = page.is[x] \/ Pending(owner[f]) THEN None ELSE v
      BY <1>1, <1>2, <2>1, <2>3
    <3>2. Pending(owner[f]) <=> owner[f] # 0 /\ calls[owner[f]].state # "over"
      BY DEF Pending, UnderWay
    <3>3. f \in open
      BY <1>1, <2>3 DEF FormsInv, FormsWhole
    <3> QED BY <1>1, <2>3, <3>1, <3>2, <3>3 DEF Held
  <2> QED BY <2>2, <2>3
<1> QED BY <1>4, <1>5 DEF FormsInv, FieldsHeld

\* What the page shows, form by form.
LEMMA DisplayDoes ==
    ASSUME NEW t, NEW on \in SUBSET Forms, NEW flt, NEW refill, NEW saved, Display(t, on, flt, refill, saved)
    PROVE  /\ open' = on /\ filter' = flt
           /\ \A f \in Forms : \A x \in FieldsOf[f] :
                 draft'[x] = IF f \in on /\ Has(f, t, flt)
                             THEN IF f \in refill \/ ~Mounted(f) THEN t.is[x] ELSE draft[x]
                             ELSE None
           /\ \A f \in Forms : owner'[f] = IF f \in on /\ Has(f, t, flt) /\ Mounted(f) THEN owner[f] ELSE 0
<1> DEFINE there == {f \in on : Has(f, t, flt)}
           new   == {f \in there : f \in refill \/ ~Mounted(f)}
           old   == there \ new
<1>1. /\ open' = on /\ filter' = flt
      /\ \A x \in Fields :
            draft'[x] = IF x \in FieldsIn(old) THEN draft[x] ELSE IF x \in FieldsIn(new) THEN t.is[x] ELSE None
      /\ \A f \in Forms : owner'[f] = IF f \in there /\ Mounted(f) THEN owner[f] ELSE 0
  BY DEF Display
<1>2. /\ old \in SUBSET Forms /\ new \in SUBSET Forms
      /\ \A f \in Forms : /\ f \in there <=> f \in on /\ Has(f, t, flt)
                          /\ f \in new <=> f \in there /\ (f \in refill \/ ~Mounted(f))
                          /\ f \in old <=> f \in there /\ ~(f \in refill \/ ~Mounted(f))
  OBVIOUS
<1> HIDE DEF old, new, there
<1>3. ASSUME NEW f \in Forms, NEW x \in FieldsOf[f]
      PROVE  x \in Fields /\ (x \in FieldsIn(old) <=> f \in old) /\ (x \in FieldsIn(new) <=> f \in new)
  BY <1>2, FormIs, FieldsInIs
<1> QED BY <1>1, <1>2, <1>3

\* Field x of form f is still wanted, and nothing the page does to it, showing t,
\* takes that from it.
StillWanted(f, x, t, on, flt, refill) ==
    /\ wanted'[x] = wanted[x] /\ wanted[x] # t.is[x] /\ f \notin refill
    /\ draft[x] # None \/ ~(f \in on /\ Has(f, t, flt))
    /\ screen' # "library" /\ (screen' = "editor" => f \in on)

LEMMA FormsDisplayed ==
    ASSUME Typed, FormsInv, CallsFollow, NEW t \in Tests, NEW on \in SUBSET Forms, NEW flt, NEW refill, NEW saved,
           Display(t, on, flt, refill, saved), page' = t,
           screen' = "editor" => AlwaysThere \subseteq on, screen' # "editor" => on = {} /\ flt = "all",
           \A f \in Forms : \A x \in FieldsOf[f] : wanted'[x] # None => StillWanted(f, x, t, on, flt, refill)
    PROVE  FormsInv'
<1>1. /\ open' = on /\ filter' = flt
      /\ \A f \in Forms : \A x \in FieldsOf[f] :
            draft'[x] = IF f \in on /\ Has(f, t, flt)
                        THEN IF f \in refill \/ ~Mounted(f) THEN t.is[x] ELSE draft[x]
                        ELSE None
      /\ \A f \in Forms : owner'[f] = IF f \in on /\ Has(f, t, flt) /\ Mounted(f) THEN owner[f] ELSE 0
  BY DisplayDoes
<1>2. \A f \in Forms : /\ FieldsOf[f] # {}
                       /\ \A x \in FieldsOf[f] : t.is[x] # None
  <2>1. t.is \in [Cells -> Values]
    BY TestIs
  <2>2. ASSUME NEW f \in Forms, NEW x \in FieldsOf[f] PROVE t.is[x] # None
    <3>1. x \in Cells
      BY FormIs, CellsAre
    <3> QED BY <2>1, <3>1, NoneAssumption
  <2> QED BY <2>2, FormIs
<1>3. ASSUME NEW f \in Forms
      PROVE  /\ Mounted(f)' \/ \A x \in FieldsOf[f] : draft'[x] = None
             /\ Mounted(f)' <=> f \in open' /\ Has(f, page', filter')
             /\ owner'[f] # 0 => Mounted(f)'
  <2>1. CASE ~(f \in on /\ Has(f, t, flt))
    BY <1>1, <1>2, <2>1 DEF Mounted
  <2>2. CASE f \in on /\ Has(f, t, flt)
    <3>1. \A x \in FieldsOf[f] : draft'[x] # None
      <4>1. CASE f \in refill \/ ~Mounted(f)
        BY <1>1, <1>2, <2>2, <4>1
      <4>2. CASE ~(f \in refill \/ ~Mounted(f))
        BY <1>1, <2>2, <4>2 DEF Mounted
      <4> QED BY <4>1, <4>2
    <3> QED BY <1>1, <2>2, <3>1 DEF Mounted
  <2> QED BY <2>1, <2>2
<1>4. FormsWhole'
  BY <1>3 DEF FormsWhole
<1>5. ScreenInv'
  BY <1>1 DEF ScreenInv
<1>6. ASSUME NEW f \in Forms, NEW x \in FieldsOf[f]
      PROVE  /\ Held(f, x, wanted'[x], draft'[x], page'.is[x], owner'[f], calls')
             /\ wanted'[x] # None => screen' # "library" /\ (screen' = "editor" => f \in open')
  <2>1. CASE wanted'[x] = None
    BY <2>1 DEF Held
  <2>2. CASE wanted'[x] # None
    <3>1. StillWanted(f, x, t, on, flt, refill)
      BY <2>2
    <3>2. /\ wanted'[x] = wanted[x] /\ wanted[x] # t.is[x] /\ f \notin refill
          /\ draft[x] # None \/ ~(f \in on /\ Has(f, t, flt))
          /\ screen' # "library" /\ (screen' = "editor" => f \in on)
      BY <3>1 DEF StillWanted
    <3>3. Held(f, x, wanted'[x], draft'[x], t.is[x], owner'[f], calls')
      <4>1. CASE ~(f \in on /\ Has(f, t, flt))
        <5>1. draft'[x] = None
          BY <1>1, <4>1
        <5> QED BY <3>2, <5>1 DEF Held
      <4>2. CASE f \in on /\ Has(f, t, flt)
        <5>1. Mounted(f)
          BY <3>2, <4>2 DEF FormsInv, FormsWhole
        <5>2. draft'[x] = draft[x] /\ owner'[f] = owner[f]
          BY <1>1, <3>2, <4>2, <5>1
        <5>3. Held(f, x, wanted[x], draft[x], t.is[x], owner[f], calls')
          BY <3>2, HeldStays DEF FormsInv
        <5> QED BY <3>2, <5>2, <5>3
      <4> QED BY <4>1, <4>2
    <3> QED BY <1>1, <3>2, <3>3
  <2> QED BY <2>1, <2>2
<1> QED BY <1>4, <1>5, <1>6 DEF FormsInv, FieldsHeld

\* The same page, with other forms or questions, nothing of them wanted.
LEMMA FormsRedisplayed ==
    ASSUME Typed, FormsInv, screen = "editor", UNCHANGED calls, NEW on \in SUBSET Forms, NEW flt, NEW refill,
           Redisplay(on, flt, refill), AlwaysThere \subseteq on,
           \A f \in Forms : \A x \in FieldsOf[f] : wanted'[x] # None =>
              /\ wanted'[x] = wanted[x] /\ f \notin refill /\ f \in on
              /\ draft[x] # None \/ ~Has(f, page, flt)
    PROVE  FormsInv'
<1>1. /\ Display(page, on, flt, refill, <<>>) /\ page' = page /\ screen' = "editor" /\ page \in Tests
      /\ CallsFollow
  BY TypedIs DEF Redisplay, cache, CallsFollow
<1>2. ASSUME NEW f \in Forms, NEW x \in FieldsOf[f], wanted'[x] # None
      PROVE  StillWanted(f, x, page, on, flt, refill)
  <2>1. wanted[x] # None => wanted[x] # page.is[x]
    BY DEF FormsInv, FieldsHeld, Held
  <2> QED BY <1>1, <1>2, <2>1 DEF StillWanted
<1> QED BY <1>1, <1>2, FormsDisplayed

\* In the editor, what is wanted is of a form that is open, and there if the page
\* has a place for it.
LEMMA WantedIsOpen ==
    ASSUME Typed, FormsInv, screen = "editor", NEW f \in Forms, NEW x \in FieldsOf[f], wanted[x] # None
    PROVE  f \in open /\ (draft[x] # None \/ ~Has(f, page, filter))
<1>1. f \in open
  BY DEF FormsInv, FieldsHeld
<1>2. Has(f, page, filter) => Mounted(f)
  BY <1>1 DEF FormsInv, FormsWhole
<1> QED BY <1>1, <1>2 DEF Mounted

LEMMA GivenUpIs ==
    ASSUME Typed, NEW fs \in SUBSET Forms, GiveUp(fs), NEW f \in Forms, NEW x \in FieldsOf[f]
    PROVE  wanted'[x] = IF f \in fs THEN None ELSE wanted[x]
<1>1. x \in Fields /\ (x \in FieldsIn(fs) <=> f \in fs)
  BY FormIs, FieldsInIs
<1> QED BY <1>1, GivenUp

LEMMA FormsOpened ==
    ASSUME Typed, FormsInv,
           \/ \E f \in Forms : Discard(f)
           \/ \E f \in Forms : Open(f)
           \/ \E flt \in Filters : Filter(flt)
           \/ \E f \in Forms : Close(f)
           \/ ToEditor \/ SignIn
    PROVE  FormsInv'
<1>1. page \in Tests /\ test \in Tests /\ AlwaysThere \in SUBSET Forms /\ open \in SUBSET Forms
  BY TypedIs, AlwaysThereIs, TypedParts DEF FormsOK
<1>2. screen = "editor" => AlwaysThere \subseteq open
  BY DEF FormsInv, ScreenInv
<1>3. ASSUME NEW f \in Forms, Discard(f)
      PROVE  FormsInv'
  <2> DEFINE one == {f}
  <2>1. screen = "editor" /\ UNCHANGED calls /\ Redisplay(open, filter, one) /\ GiveUp(one) /\ one \in SUBSET Forms
    BY <1>3 DEF Discard
  <2> HIDE DEF one
  <2>2. ASSUME NEW g \in Forms, NEW x \in FieldsOf[g], wanted'[x] # None
        PROVE  /\ wanted'[x] = wanted[x] /\ g \notin one /\ g \in open
               /\ draft[x] # None \/ ~Has(g, page, filter)
    BY <2>1, <2>2, GivenUpIs, WantedIsOpen
  <2> QED BY <1>1, <1>2, <2>1, <2>2, FormsRedisplayed
<1>4. ASSUME NEW f \in Forms, Open(f)
      PROVE  FormsInv'
  <2> DEFINE on == open \cup {f}
             none == {}
  <2>1. screen = "editor" /\ UNCHANGED calls /\ Redisplay(on, filter, none) /\ wanted' = wanted
    BY <1>4 DEF Open
  <2>2. on \in SUBSET Forms /\ AlwaysThere \subseteq on /\ open \subseteq on /\ \A g : g \notin none
    BY <1>1, <1>2, <2>1
  <2> HIDE DEF on, none
  <2>3. ASSUME NEW g \in Forms, NEW x \in FieldsOf[g], wanted'[x] # None
        PROVE  /\ wanted'[x] = wanted[x] /\ g \notin none /\ g \in on
               /\ draft[x] # None \/ ~Has(g, page, filter)
    BY <2>1, <2>2, <2>3, WantedIsOpen
  <2> QED BY <2>1, <2>2, <2>3, FormsRedisplayed
<1>5. ASSUME NEW flt \in Filters, Filter(flt)
      PROVE  FormsInv'
  <2> DEFINE gone == {f \in Forms : ~Mounted(f)}
             none == {}
  <2>1. screen = "editor" /\ UNCHANGED calls /\ Redisplay(open, flt, none) /\ GiveUp(gone)
    BY <1>5 DEF Filter
  <2>2. gone \in SUBSET Forms /\ \A g : g \notin none
    OBVIOUS
  <2>3. ASSUME NEW g \in Forms, g \notin gone, NEW x \in FieldsOf[g]
        PROVE  draft[x] # None
    BY <2>3 DEF Mounted
  <2> HIDE DEF gone, none
  <2>4. ASSUME NEW g \in Forms, NEW x \in FieldsOf[g], wanted'[x] # None
        PROVE  /\ wanted'[x] = wanted[x] /\ g \notin none /\ g \in open
               /\ draft[x] # None \/ ~Has(g, page, flt)
    BY <2>1, <2>2, <2>3, <2>4, GivenUpIs, WantedIsOpen
  <2> QED BY <1>1, <1>2, <2>1, <2>4, FormsRedisplayed
<1>6. ASSUME NEW f \in Forms, Close(f)
      PROVE  FormsInv'
  <2> DEFINE on == open \ {f}
             one == {f}
             none == {}
  <2>1. screen = "editor" /\ UNCHANGED calls /\ Redisplay(on, filter, none) /\ GiveUp(one) /\ f \notin AlwaysThere
    BY <1>6 DEF Close
  <2>2. /\ one \in SUBSET Forms /\ on \in SUBSET Forms /\ AlwaysThere \subseteq on
        /\ \A g : g \notin none /\ (g \notin one /\ g \in open => g \in on)
    BY <1>1, <1>2, <2>1
  <2> HIDE DEF on, one, none
  <2>3. ASSUME NEW g \in Forms, NEW x \in FieldsOf[g], wanted'[x] # None
        PROVE  /\ wanted'[x] = wanted[x] /\ g \notin none /\ g \in on
               /\ draft[x] # None \/ ~Has(g, page, filter)
    BY <2>1, <2>2, <2>3, GivenUpIs, WantedIsOpen
  <2> QED BY <2>1, <2>2, <2>3, FormsRedisplayed
<1>7. CASE ToEditor \/ SignIn
  <2>1. /\ screen' = "editor" /\ UNCHANGED calls
        /\ \E t \in Tests : Display(t, AlwaysThere, "all", {}, <<>>) /\ page' = t
    BY <1>1, <1>7 DEF ToEditor, SignIn, cache
  <2>2. \A f \in Forms : \A x \in FieldsOf[f] : wanted'[x] = None
    <3>1. CASE ToEditor
      BY <3>1 DEF ToEditor, FormsInv, FieldsHeld
    <3>2. CASE SignIn
      <4>1. GiveUp(Forms) /\ Forms \in SUBSET Forms
        BY <3>2 DEF SignIn
      <4> QED BY <4>1, GivenUpIs
    <3> QED BY <1>7, <3>1, <3>2
  <2>3. CallsFollow
    BY <2>1 DEF CallsFollow
  <2> QED BY <1>1, <2>1, <2>2, <2>3, FormsDisplayed
<1> QED BY <1>3, <1>4, <1>5, <1>6, <1>7

\* The editor goes from the screen.
LEMMA FormsUnmounted ==
    ASSUME Typed, FormsInv, Unmount, UNCHANGED page, screen' # "editor",
           \A x \in Fields : wanted'[x] # None => wanted'[x] = wanted[x] /\ screen' # "library"
    PROVE  FormsInv'
<1>1. /\ open' = {} /\ filter' = "all" /\ \A x \in Fields : draft'[x] = None
      /\ \A f \in Forms : owner'[f] = 0
  BY DEF Unmount
<1>2. \A f \in Forms : FieldsOf[f] \subseteq Fields /\ FieldsOf[f] # {}
  BY FormIs
<1>3. \A f \in Forms : /\ \A x \in FieldsOf[f] : draft'[x] = None
                       /\ ~Mounted(f)'
  BY <1>1, <1>2 DEF Mounted
<1>4. FormsWhole' /\ ScreenInv'
  BY <1>1, <1>3 DEF FormsWhole, ScreenInv
<1>5. ASSUME NEW f \in Forms, NEW x \in FieldsOf[f]
      PROVE  /\ Held(f, x, wanted'[x], draft'[x], page'.is[x], owner'[f], calls')
             /\ wanted'[x] # None => screen' # "library"
  <2>1. Held(f, x, wanted[x], draft[x], page.is[x], owner[f], calls) /\ x \in Fields
    BY <1>2 DEF FormsInv, FieldsHeld
  <2> QED BY <1>3, <2>1 DEF Held
<1> QED BY <1>4, <1>5 DEF FormsInv, FieldsHeld

\* What a form waits for still comes, whatever else is asked, served or answered.
LEMMA FollowSame ==
    ASSUME UNCHANGED calls
    PROVE  CallsFollow
BY DEF CallsFollow

LEMMA FollowNew ==
    ASSUME Typed, NEW k \in CallShape, CallTrue(k, version, test), Call(k), UNCHANGED server
    PROVE  CallsFollow
BY CallFramed DEF CallsFollow

LEMMA FollowMove ==
    ASSUME Typed, NEW i \in DOMAIN page.order, NEW j \in DOMAIN page.order, Move(i, j)
    PROVE  CallsFollow
<1>1. \A n \in DOMAIN calls : calls'[n] = IF calls[n].op = "read" THEN Ended(calls[n]) ELSE calls[n]
  BY MoveDoes
<1>2. \A n \in DOMAIN calls : calls[n] \in CallShape
  BY TypedIs
<1> QED BY <1>1, <1>2, EndedIs DEF CallsFollow

LEMMA FollowEnd ==
    ASSUME Typed, NEW n \in DOMAIN calls, End(n), UNCHANGED server
    PROVE  CallsFollow
BY EndDoes DEF CallsFollow

LEMMA FollowServed ==
    ASSUME Typed, NEW n \in DOMAIN calls, calls[n].op # "save", calls[n].state # "over",
           \A m \in DOMAIN calls : m # n => calls'[m] = calls[m]
    PROVE  CallsFollow
<1>1. \A f \in Forms : Form[f].then # "keep" => \A x \in FieldsOf[f] : \A want : ~Comes(f, x, want, calls[n])
  BY DEF Comes
<1>2. ComesToo(calls[n], calls'[n])
  BY <1>1 DEF ComesToo, Comes
<1> QED BY <1>2 DEF CallsFollow

LEMMA FollowNext ==
    ASSUME Typed, NEW n \in DOMAIN calls, SendNext(n)
    PROVE  CallsFollow
<1>1. /\ calls[n].state = "back" /\ calls[n].op = "save" /\ calls[n].todo # <<>>
      /\ \A m \in DOMAIN calls : m # n => calls'[m] = calls[m]
  BY NextSent
<1>2. calls[n].got # None
  BY <1>1, GotIs
<1>3. ComesToo(calls[n], calls'[n])
  BY <1>1, <1>2 DEF ComesToo, Comes
<1> QED BY <1>1, <1>3 DEF CallsFollow

LEMMA FollowChanges ==
    ASSUME Typed, NEW n \in DOMAIN calls, Changes(n)
    PROVE  CallsFollow /\ UNCHANGED <<cache, forms, lists, screen, dialog>>
<1>1. PICK t \in Tests :
         /\ calls[n].state = "sent" /\ calls[n].op \in {"save", "move", "drop", "import"}
         /\ Serve(n, t)
         /\ calls[n].op = "move" =>
               t.order = calls[n].ids /\ t.is = test.is /\ Len(t.order) = Len(test.order)
         /\ calls[n].op = "save" =>
               /\ t.order = test.order
               /\ calls[n].todo # <<>> /\ Head(calls[n].todo) \in Patches
               /\ \A x \in DOMAIN Head(calls[n].todo) : t.is[x] = Head(calls[n].todo)[x]
  BY ChangesDo
<1>2. UNCHANGED <<cache, forms, lists, screen, dialog>>
  BY <1>1 DEF Serve
<1>3. /\ \A m \in DOMAIN calls : m # n => calls'[m] = calls[m]
      /\ calls'[n].got = t /\ calls'[n].op = calls[n].op /\ calls'[n].sent = calls[n].sent
      /\ calls'[n].todo = IF calls[n].todo = <<>> THEN <<>> ELSE Tail(calls[n].todo)
  BY <1>1, Served
<1>4. CASE calls[n].op # "save"
  BY <1>1, <1>2, <1>3, <1>4, FollowServed
<1>5. CASE calls[n].op = "save"
  <2>1. t # None /\ \A f \in Forms : FieldsOf[f] \subseteq Fields
    BY NoneAssumption, FormIs
  <2> SUFFICES ASSUME NEW f \in Forms, NEW x \in FieldsOf[f], NEW want \in Values,
                      Form[f].then # "keep", Comes(f, x, want, calls[n])
               PROVE  Comes(f, x, want, calls'[n])
    BY <1>1, <1>2, <1>3 DEF CallsFollow, ComesToo, Comes
  <2>2. /\ x \in DOMAIN calls[n].sent /\ calls[n].sent[x] = want
        /\ calls[n].todo = IF calls[n].got = None THEN <<calls[n].sent>> ELSE <<>>
    BY DEF Comes
  <2>3. calls[n].todo = <<calls[n].sent>>
    BY <1>1, <1>5, <2>2
  <2>4. Head(calls[n].todo) = calls[n].sent /\ Tail(calls[n].todo) = <<>>
    BY <2>3
  <2>5. t.is[x] = want
    BY <1>1, <1>5, <2>1, <2>2, <2>4
  <2> QED BY <1>3, <1>5, <2>1, <2>2, <2>3, <2>4, <2>5 DEF Comes
<1> QED BY <1>4, <1>5, <1>1

\* The page shows a test that has what is wanted of the forms it fills or closes.
LEMMA FormsShown ==
    ASSUME Typed, FormsInv, CallsFollow, NEW t \in Tests, NEW refill, NEW close, NEW saved,
           Show(t, refill, close, saved), \A f \in close : f \notin AlwaysThere,
           \A f \in Forms : f \in close \/ f \in refill =>
              \A x \in FieldsOf[f] : wanted[x] # None => t.is[x] = wanted[x]
    PROVE  FormsInv'
<1> DEFINE on == (IF screen = "failed" THEN AlwaysThere ELSE open) \ close
<1>1. /\ page' = t /\ Display(t, on, filter, refill, saved)
      /\ \A x \in Fields : wanted'[x] = IF t.is[x] = wanted[x] \/ draft[x] = None THEN None ELSE wanted[x]
      /\ screen' = IF screen = "failed" THEN "editor" ELSE screen
  BY DEF Show
<1>2. /\ on \in SUBSET Forms /\ (screen' = "editor" => AlwaysThere \subseteq on)
      /\ (screen' # "editor" => on = {} /\ filter = "all")
      /\ \A f : screen = "editor" /\ f \in open /\ f \notin close => f \in on
  BY <1>1, AlwaysThereIs, TypedParts DEF FormsOK, FormsInv, ScreenInv
<1> HIDE DEF on
<1>3. ASSUME NEW f \in Forms, NEW x \in FieldsOf[f], wanted'[x] # None
      PROVE  StillWanted(f, x, t, on, filter, refill)
  <2>1. x \in Fields
    BY FormIs
  <2>2. wanted'[x] = wanted[x] /\ t.is[x] # wanted[x] /\ draft[x] # None
    BY <1>1, <1>3, <2>1
  <2>3. f \notin close /\ f \notin refill
    BY <1>3, <2>2
  <2>4. f \in open
    BY <2>2 DEF FormsInv, FormsWhole
  <2>5. screen = "editor"
    BY <2>4 DEF FormsInv, ScreenInv
  <2> QED BY <1>1, <1>2, <2>2, <2>3, <2>4, <2>5 DEF StillWanted
<1> QED BY <1>1, <1>2, <1>3, FormsDisplayed

LEMMA FormsShowOnly ==
    ASSUME Typed, FormsInv, CallsFollow, NEW t \in Tests, ShowOnly(t)
    PROVE  FormsInv'
<1> DEFINE none == {}
<1>1. Show(t, none, none, <<>>) /\ \A f : f \notin none
  BY DEF ShowOnly
<1> HIDE DEF none
<1> QED BY <1>1, FormsShown

LEMMA FormsSave ==
    ASSUME Typed, FormsInv, NEW f \in Forms, Save(f)
    PROVE  FormsInv'
<1>1. PICK k \in CallShape :
         /\ Call(k) /\ CallTrue(k, version, test)
         /\ k.op = "save" /\ k.state = "sent" /\ k.got = None
         /\ k.sent = Patch(ToSend(f)) /\ k.todo = Requests(f) /\ k.form = f
  BY SaveDoes
<1>2. /\ Mounted(f) /\ Dirty(f) /\ owner' = [owner EXCEPT ![f] = Len(calls')]
      /\ UNCHANGED <<server, cache, screen, open, filter, draft, wanted>>
  BY DEF Save
<1>3. /\ \A n \in DOMAIN calls : calls'[n] = calls[n]
      /\ Len(calls') \in DOMAIN calls' /\ calls'[Len(calls')] = k
  BY <1>1, <1>2, CallKept
<1>4. /\ Form[f].then # "keep" => Requests(f) = <<Patch(ToSend(f))>>
      /\ \A x \in FieldsOf[f] : draft[x] # page.is[x] => x \in ToSend(f)
  BY <1>2, RequestsAre
<1>5. page' = page /\ draft' = draft /\ wanted' = wanted /\ screen' = screen /\ open' = open /\ filter' = filter
  BY <1>2 DEF cache
<1>6. owner' = [g \in Forms |-> IF g = f THEN Len(calls') ELSE owner[g]]
  BY <1>2, TypedParts DEF FormsOK
<1>7. FormsWhole' /\ ScreenInv'
  BY <1>2, <1>5, <1>6 DEF FormsInv, FormsWhole, ScreenInv, Mounted
<1>8. CallsFollow
  BY <1>3 DEF CallsFollow
<1>10. \A g \in Forms : \A x \in FieldsOf[g] :
          wanted'[x] # None => screen' # "library" /\ (screen' = "editor" => g \in open')
  BY <1>5 DEF FormsInv, FieldsHeld
<1>9. ASSUME NEW g \in Forms, NEW x \in FieldsOf[g]
      PROVE  Held(g, x, wanted'[x], draft'[x], page'.is[x], owner'[g], calls')
  <2>1. CASE g # f
    <3>1. owner'[g] = owner[g]
      BY <1>6, <2>1
    <3> QED BY <1>5, <1>8, <3>1, HeldStays DEF FormsInv
  <2>2. CASE g = f
    <3>1. Held(f, x, wanted[x], draft[x], page.is[x], owner[f], calls)
      BY <2>2 DEF FormsInv, FieldsHeld
    <3>2. owner'[f] = Len(calls')
      BY <1>6
    <3>3. ASSUME wanted[x] # None, Form[f].then # "keep"
          PROVE  Comes(f, x, wanted[x], k)
      <4>1. draft[x] = wanted[x] /\ draft[x] # page.is[x]
        BY <1>2, <2>2, <3>1, <3>3 DEF Held, Mounted
      <4>2. x \in ToSend(f) /\ k.sent = [y \in ToSend(f) |-> draft[y]] /\ k.todo = <<k.sent>>
        BY <1>1, <1>4, <2>2, <3>3, <4>1 DEF Patch
      <4> QED BY <1>1, <4>1, <4>2 DEF Comes
    <3>4. wanted[x] # None => Comes(f, x, wanted[x], k)
      BY <3>3 DEF Comes
    <3> QED BY <1>3, <1>5, <2>2, <3>1, <3>2, <3>4 DEF Held
  <2> QED BY <2>1, <2>2
<1> QED BY <1>7, <1>9, <1>10 DEF FormsInv, FieldsHeld

\* The answer of a form's latest save has what is wanted of it.
LEMMA FormsAnswered ==
    ASSUME Typed, FormsInv, NEW n \in DOMAIN calls, UnderWay(n), calls[n].got # None,
           NEW f \in Forms, owner[f] = n, Form[f].then # "keep"
    PROVE  \A x \in FieldsOf[f] : wanted[x] # None => calls[n].got.is[x] = wanted[x]
<1>1. n # 0
  BY TypedIs
<1>2. \A x \in FieldsOf[f] : /\ Held(f, x, wanted[x], draft[x], page.is[x], owner[f], calls)
                             /\ draft[x] # None
  BY <1>1 DEF FormsInv, FieldsHeld, FormsWhole, Mounted
<1>3. \A x \in FieldsOf[f] : wanted[x] # None => Comes(f, x, wanted[x], calls[n])
  BY <1>1, <1>2 DEF Held, UnderWay
<1> QED BY <1>1, <1>3 DEF Comes

LEMMA FormsTakeSave ==
    ASSUME Typed, FormsInv, NEW n \in DOMAIN calls, TakeSave(n)
    PROVE  FormsInv'
<1> DEFINE refill == Refills(n)
           close == AnswerDoes(n, "close")
           saved == IF AnswerDoes(n, "keep") = {} THEN <<>> ELSE calls[n].sent
<1>1. /\ calls[n].state = "back" /\ calls[n].op \in {"save", "drop"}
      /\ Show(calls[n].got, refill, close, saved) /\ End(n) /\ UNCHANGED server
  BY DEF TakeSave, Back
<1>2. UnderWay(n) /\ calls[n].got \in Tests /\ calls[n].got # None
  BY <1>1, GotIs
<1>3. CallsFollow
  BY <1>1, FollowEnd
<1>4. \A f \in Forms : f \in close \/ f \in refill => owner[f] = n /\ Form[f].then # "keep"
  BY DEF AnswerDoes, Refills
<1>5. \A f \in close : f \notin AlwaysThere
  BY FormIs DEF AnswerDoes, AlwaysThere
<1> HIDE DEF refill, close, saved
<1>6. \A f \in Forms : f \in close \/ f \in refill =>
         \A x \in FieldsOf[f] : wanted[x] # None => calls[n].got.is[x] = wanted[x]
  BY <1>2, <1>4, FormsAnswered
<1> QED BY <1>1, <1>2, <1>3, <1>5, <1>6, FormsShown

LEMMA FormsTakeRead ==
    ASSUME Typed, FormsInv, NEW n \in DOMAIN calls, TakeRead(n)
    PROVE  FormsInv'
<1>1. calls[n].state = "back" /\ calls[n].op = "read" /\ ShowOnly(calls[n].got) /\ End(n) /\ UNCHANGED server
  BY DEF TakeRead, Back
<1>2. calls[n].got \in Tests /\ CallsFollow
  BY <1>1, GotIs, FollowEnd
<1> QED BY <1>1, <1>2, FormsShowOnly

LEMMA FormsAnswer ==
    ASSUME Typed, FormsInv, NEW n \in DOMAIN calls,
           TakeMove(n) \/ TakeCheck(n) \/ TakeImport(n) \/ Fail(n) \/ SessionEnded(n)
    PROVE  FormsInv'
<1>1. CASE TakeMove(n)
  <2>1. calls[n].state = "back" /\ calls[n].op = "move" /\ End(n) /\ UNCHANGED server
    BY <1>1 DEF TakeMove, Back, lists
  <2>2. CallsFollow /\ calls[n].got \in Tests
    BY <2>1, FollowEnd, GotIs
  <2>3. ShowOnly(calls[n].got) \/ UNCHANGED <<page, forms, screen>>
    BY <1>1 DEF TakeMove
  <2>4. CASE ShowOnly(calls[n].got)
    BY <2>1, <2>2, <2>4, FormsShowOnly
  <2>5. CASE UNCHANGED <<page, forms, screen>>
    BY <2>1, <2>2, <2>5, FormsStay DEF forms
  <2> QED BY <2>3, <2>4, <2>5
<1>2. CASE TakeCheck(n)
  <2>1. End(n) /\ UNCHANGED <<server, cache, forms, screen>>
    BY <1>2 DEF TakeCheck
  <2> QED BY <2>1, FollowEnd, FormsStay DEF cache, forms
<1>3. CASE TakeImport(n)
  <2>1. /\ calls[n].state = "back" /\ calls[n].op = "import" /\ End(n) /\ UNCHANGED server
        /\ ShowOnly(calls[n].got)
    BY <1>3 DEF TakeImport, Back
  <2> QED BY <2>1, FollowEnd, GotIs, FormsShowOnly
<1>4. CASE Fail(n)
  <2>1. End(n) /\ UNCHANGED server
    BY <1>4, FailDoes
  <2>2. CallsFollow
    BY <2>1, FollowEnd
  <2>3. CASE calls[n].op = "move"
    <3>1. ShowOnly(calls[n].prev) /\ calls[n].prev \in Tests
      BY <1>4, <2>3, FailDoes
    <3> QED BY <2>2, <3>1, FormsShowOnly
  <2>4. CASE calls[n].op = "read"
    <3>1. /\ Unmount /\ UNCHANGED page /\ wanted' = wanted
          /\ screen' = IF screen = "editor" THEN "failed" ELSE screen
      BY <1>4, <2>4, FailDoes
    <3>2. \A x \in Fields : wanted[x] # None => screen # "library"
      BY FieldIs DEF FormsInv, FieldsHeld
    <3> QED BY <3>1, <3>2, FormsUnmounted
  <2>5. CASE calls[n].op \notin {"move", "read"}
    <3>1. UNCHANGED <<page, onTop, forms>> /\ UNCHANGED screen
      BY <1>4, <2>5, FailDoes
    <3> QED BY <2>2, <3>1, FormsStay DEF forms
  <2> QED BY <2>3, <2>4, <2>5
<1>5. CASE SessionEnded(n)
  <2>1. Unmount /\ UNCHANGED page /\ wanted' = wanted /\ screen' = "login"
    BY <1>5 DEF SessionEnded
  <2> QED BY <2>1, FormsUnmounted
<1> QED BY <1>1, <1>2, <1>3, <1>4, <1>5

LEMMA FormsPerson ==
    ASSUME Typed, FormsInv,
           \/ Sends
           \/ \E i, j \in DOMAIN page.order : Move(i, j)
           \/ ToLibrary \/ ListRead
           \/ OpenDialog \/ CloseDialog \/ ChooseNone
           \/ Import
           \/ \E file \in Files : Choose(file)
           \/ \E mode \in {"append", "replace"} : ChangeMode(mode)
           \/ OtherAdmin
    PROVE  FormsInv'
<1>2. CASE Sends
  <2>1. PICK k \in CallShape : /\ Call(k) /\ CallTrue(k, version, test)
                               /\ UNCHANGED <<server, cache, forms, lists, screen, dialog>>
    BY <1>2, SendsDo
  <2> QED BY <2>1, FollowNew, FormsStay DEF cache, forms
<1>3. ASSUME NEW i \in DOMAIN page.order, NEW j \in DOMAIN page.order, Move(i, j)
      PROVE  FormsInv'
  <2>1. page'.is = page.is /\ UNCHANGED <<forms, screen>> /\ page'.order = Swapped(page.order, i, j)
    BY <1>3, MoveDoes
  <2>3. Range(page'.order) = Range(page.order)
    BY <2>1, SwappedOrder, TypedIs, TestIs
  <2>2. CallsFollow
    BY <1>3, FollowMove
  <2> QED BY <2>1, <2>2, <2>3, FormsStay DEF forms
<1>4. CASE ToLibrary
  <2>1. Unmount /\ GiveUp(Forms) /\ UNCHANGED page /\ screen' = "library" /\ Forms \in SUBSET Forms
    BY <1>4 DEF ToLibrary, cache
  <2>2. \A x \in Fields : wanted'[x] = None
    BY <2>1, GivenUpIs, FieldIs
  <2> QED BY <2>1, <2>2, FormsUnmounted
<1>5. CASE ListRead \/ OpenDialog \/ CloseDialog \/ ChooseNone \/ OtherAdmin
  <2>1. UNCHANGED <<page, forms, screen, calls>>
    BY <1>5 DEF ListRead, OpenDialog, CloseDialog, ChooseNone, OtherAdmin, cache
  <2> QED BY <2>1, FollowSame, FormsStay DEF forms
<1>6. ASSUME NEW file \in Files, NEW mode \in {"append", "replace"}, Check(file, mode)
      PROVE  FormsInv'
  <2>1. /\ \E k \in CallShape : Call(k) /\ CallTrue(k, version, test)
        /\ UNCHANGED <<server, cache, forms, lists, screen>>
    BY <1>6, CheckDoes
  <2> QED BY <2>1, FollowNew, FormsStay DEF cache, forms
<1>7. CASE Import
  <2>1. /\ \E k \in CallShape : Call(k) /\ CallTrue(k, version, test)
        /\ UNCHANGED <<server, cache, forms, lists, screen>>
    BY <1>7, ImportDoes
  <2> QED BY <2>1, FollowNew, FormsStay DEF cache, forms
<1>8. dialog.mode \in {"append", "replace"} /\ dialog.file \in Files \cup {None}
  BY DEF Typed, Shapes, DialogShape
<1>9. ASSUME NEW file \in Files, Choose(file)
      PROVE  FormsInv'
  BY <1>6, <1>8, <1>9 DEF Choose
<1>10. ASSUME NEW mode \in {"append", "replace"}, ChangeMode(mode)
       PROVE  FormsInv'
  <2>1. CASE dialog.file # None
    BY <1>6, <1>8, <1>10, <2>1 DEF ChangeMode
  <2>2. CASE dialog.file = None
    <3>1. UNCHANGED <<page, forms, screen, calls>>
      BY <1>10, <2>2 DEF ChangeMode, cache
    <3> QED BY <3>1, FollowSame, FormsStay DEF forms
  <2> QED BY <2>1, <2>2
<1> QED BY <1>2, <1>3, <1>4, <1>5, <1>7, <1>9, <1>10

LEMMA FormsServed ==
    ASSUME Typed, FormsInv, NEW n \in DOMAIN calls, Changes(n) \/ ServeRead(n) \/ ServeCheck(n) \/ SendNext(n)
    PROVE  FormsInv'
<1>1. CallsFollow /\ UNCHANGED <<cache, forms, lists, screen, dialog>>
  <2>1. CASE Changes(n)
    BY <2>1, FollowChanges
  <2>2. CASE ServeRead(n)
    BY <2>2, ReadServed, FollowServed
  <2>3. CASE ServeCheck(n)
    BY <2>3, CheckServed, FollowServed
  <2>4. CASE SendNext(n)
    BY <2>4, NextSent, FollowNext
  <2> QED BY <2>1, <2>2, <2>3, <2>4
<1> QED BY <1>1, FormsStay DEF cache, forms

LEMMA FormsStep == Typed /\ FormsInv /\ [Next]_vars => FormsInv'
<1> SUFFICES ASSUME Typed, FormsInv, [Next]_vars
             PROVE  FormsInv'
  OBVIOUS
<1>1. CASE UNCHANGED vars
  <2>1. UNCHANGED <<page, forms, screen, calls>>
    BY <1>1 DEF vars, cache
  <2> QED BY <2>1, FollowSame, FormsStay DEF forms
<1>2. CASE Next
  <2>1. ASSUME NEW n \in DOMAIN calls, TakeSave(n) \/ TakeRead(n)
        PROVE  FormsInv'
    BY <2>1, FormsTakeSave, FormsTakeRead
  <2> QED BY <1>2, <2>1, Steps, FormsType, FormsOpened, FormsSave, FormsPerson, FormsServed, FormsAnswer
<1> QED BY <1>1, <1>2

LEMMA InitForms == Init => FormsInv
<1> SUFFICES ASSUME Init PROVE FormsInv
  OBVIOUS
<1>1. Typed
  BY InitTyped
<1>2. \A x \in Fields : draft[x] = IF FormOf(x) \in AlwaysThere /\ Has(FormOf(x), test, "all") THEN test.is[x] ELSE None
  BY DEF Init
<1>3. /\ screen = "editor" /\ open = AlwaysThere /\ filter = "all" /\ page = test
      /\ \A f \in Forms : owner[f] = 0
      /\ \A x \in Fields : wanted[x] = None
  BY DEF Init
<1>4. \A x \in Fields : test.is[x] # None
  BY <1>1, TypedIs, TestIs, NoneAssumption, CellsAre
<1>5. \A f \in Forms : FieldsOf[f] # {} /\ \A x \in FieldsOf[f] : x \in Fields /\ FormOf(x) = f
  BY <1>1, FormsFacts, FormIs
<1>6. FormsWhole /\ ScreenInv
  BY <1>2, <1>3, <1>4, <1>5 DEF FormsWhole, ScreenInv, Mounted
<1>7. FieldsHeld
  BY <1>3, <1>5 DEF FieldsHeld, Held
<1> QED BY <1>6, <1>7 DEF FormsInv

LEMMA AlwaysForms == Spec => [](Typed /\ FormsInv)
<1>1. Init => Typed /\ FormsInv
  BY InitTyped, InitForms
<1>2. Typed /\ FormsInv /\ [Next]_vars => (Typed /\ FormsInv)'
  BY TypedStep, FormsStep
<1> QED BY <1>1, <1>2, PTL DEF Spec

\* What someone typed stays in its form until the page has shown it as saved,
\* or they give it up, whatever is saved, read, moved or imported meanwhile and
\* however many of those calls overlap or fail; unless the page goes, with a
\* failed read or the session, or has no place for the form any longer.
THEOREM TypedIsKept == Spec => []NothingTypedIsLost
<1>1. Typed /\ FormsInv => NothingTypedIsLost
  <2> SUFFICES ASSUME Typed, FormsInv, NEW f \in Forms, NEW x \in FieldsOf[f], wanted[x] # None
               PROVE  \/ draft[x] = wanted[x]
                      \/ screen \in {"failed", "login"}
                      \/ screen = "editor" /\ ~Has(f, page, filter)
    BY DEF NothingTypedIsLost
  <2>1. Held(f, x, wanted[x], draft[x], page.is[x], owner[f], calls) /\ screen # "library"
    BY DEF FormsInv, FieldsHeld
  <2>2. screen \in {"editor", "failed", "library", "login"}
    BY TypedParts DEF ScreenOK
  <2> QED BY <2>1, <2>2, WantedIsOpen DEF Held
<1> QED BY <1>1, AlwaysForms, PTL

-----------------------------------------------------------------------------
(* The page.                                                                *)

\* A call that changed the test and whose answer is still to come.
Carrier(c) == c.state # "over" /\ c.op \notin {"read", "check"} /\ c.got # None

LEMMA CarriersAre ==
    /\ \A n : n \in Carriers <=> n \in DOMAIN calls /\ Carrier(calls[n])
    /\ \A n : n \in Moves <=> n \in DOMAIN calls /\ calls[n].op = "move" /\ calls[n].state # "over"
BY DEF Carriers, Carrier, Moves, UnderWay

LEMMA CarriersAreNext ==
    /\ \A n : n \in Carriers' <=> n \in DOMAIN calls' /\ Carrier(calls'[n])
    /\ \A n : n \in Moves' <=> n \in DOMAIN calls' /\ calls'[n].op = "move" /\ calls'[n].state # "over"
BY DEF Carriers, Carrier, Moves, UnderWay

\* Call c says of test t, once it is d, what it said.
SaysSame(c, d, t) ==
    /\ d.op = c.op /\ (c.op = "move" => d = c)
    /\ d.state # "over" => c.state # "over"
    /\ Carrier(c) <=> Carrier(d)
    /\ Carrier(c) => d.got = c.got /\ d.at = c.at
    /\ d.state # "over" /\ d.got # None =>
          d.got.is = t.is \/ (c.state # "over" /\ d.got = c.got /\ d.at = c.at)

\* Steps that say nothing new of the test.
SaysNothing ==
    /\ UNCHANGED <<test, version, page, onTop, seen, missed, list, listStale, listMissed>>
    /\ screen' = "login" <=> screen = "login"
    /\ DOMAIN calls \subseteq DOMAIN calls'
    /\ \A n \in DOMAIN calls' \ DOMAIN calls : calls'[n].op # "move" /\ calls'[n].got = None
    /\ \A n \in DOMAIN calls : SaysSame(calls[n], calls'[n], test)

LEMMA SaysNothingMoves ==
    ASSUME SaysNothing
    PROVE  /\ Moves' = Moves /\ Carriers' = Carriers
           /\ \A n \in Moves : calls'[n] = calls[n] /\ n \in DOMAIN calls
           /\ \A n \in Carriers : /\ n \in DOMAIN calls
                                  /\ calls'[n].op = calls[n].op /\ calls'[n].got = calls[n].got
                                  /\ calls'[n].at = calls[n].at
           /\ \A m \in Moves : Doomed(m) => Doomed(m)'
<1>1. Moves' = Moves
  BY CarriersAre, CarriersAreNext DEF SaysNothing, SaysSame
<1>2. Carriers' = Carriers
  <2>1. \A n \in DOMAIN calls' \ DOMAIN calls : ~Carrier(calls'[n])
    BY DEF SaysNothing, Carrier
  <2> QED BY <2>1, CarriersAre, CarriersAreNext DEF SaysNothing, SaysSame
<1>3. \A n \in Moves : calls'[n] = calls[n] /\ n \in DOMAIN calls
  BY CarriersAre DEF SaysNothing, SaysSame
<1>4. \A n \in Carriers : /\ n \in DOMAIN calls
                          /\ calls'[n].op = calls[n].op /\ calls'[n].got = calls[n].got
                          /\ calls'[n].at = calls[n].at
  BY CarriersAre DEF SaysNothing, SaysSame
<1>5. ASSUME NEW m \in Moves, Doomed(m)
      PROVE  Doomed(m)'
  <2>1. Late(m) => Late(m)'
    <3>1. calls[m].op = "move" /\ calls'[m] = calls[m]
      BY <1>3, CarriersAre
    <3> QED BY <3>1 DEF Late, SaysNothing, SaysSame
  <2> QED BY <1>3, <1>5, <2>1 DEF Doomed, SaysNothing
<1> QED BY <1>1, <1>2, <1>3, <1>4, <1>5

LEMMA PageStays ==
    ASSUME Typed, PageInv, SaysNothing
    PROVE  PageInv'
<1>1. /\ Moves' = Moves /\ Carriers' = Carriers
      /\ \A n \in Moves : calls'[n] = calls[n] /\ n \in DOMAIN calls
      /\ \A n \in Carriers : /\ n \in DOMAIN calls
                             /\ calls'[n].op = calls[n].op /\ calls'[n].got = calls[n].got
                             /\ calls'[n].at = calls[n].at
      /\ \A m \in Moves : Doomed(m) => Doomed(m)'
  BY SaysNothingMoves
<1>2. /\ test' = test /\ version' = version /\ page' = page /\ onTop' = onTop /\ seen' = seen
      /\ missed' = missed /\ list' = list /\ listStale' = listStale /\ listMissed' = listMissed
      /\ screen' = "login" <=> screen = "login"
  BY DEF SaysNothing
<1>3. Told' <=> Told
  BY <1>2 DEF Told
<1>4. OnlyMoves' <=> OnlyMoves
  BY <1>1 DEF OnlyMoves
<1>5. LatestComes'
  BY <1>1, <1>2, <1>3 DEF PageInv, LatestComes
<1>6. AnswersTell'
  <2> SUFFICES ASSUME Told, NEW n \in DOMAIN calls', calls'[n].state # "over", calls'[n].got # None,
                      calls'[n].at >= seen
               PROVE  \/ calls'[n].got.is = test.is
                      \/ \E m \in Carriers : calls[m].op # "move" /\ calls[m].at > calls'[n].at
    BY <1>1, <1>2, <1>3 DEF AnswersTell, UnderWay
  <2>1. n \in DOMAIN calls
    BY DEF SaysNothing
  <2>2. CASE calls'[n].got.is = test.is
    BY <2>2
  <2>3. CASE calls[n].state # "over" /\ calls'[n].got = calls[n].got /\ calls'[n].at = calls[n].at
    BY <2>1, <2>3 DEF PageInv, AnswersTell, UnderWay
  <2> QED BY <2>1, <2>2, <2>3 DEF SaysNothing, SaysSame
<1>7. FieldsTold'
  BY <1>2, <1>3, <1>4 DEF PageInv, FieldsTold
<1>8. OnTopInv' /\ BackToLast'
  <2>1. onTop # 0 => onTop \in DOMAIN calls
    BY TypedIs, TypedParts DEF PageOK
  <2>2. onTop # 0 /\ UnderWay(onTop)' => onTop \in Moves /\ UnderWay(onTop) /\ calls'[onTop] = calls[onTop]
    <3> SUFFICES ASSUME onTop # 0, calls'[onTop].state # "over"
                 PROVE  onTop \in Moves /\ UnderWay(onTop) /\ calls'[onTop] = calls[onTop]
      BY <1>2 DEF UnderWay
    <3>1. UnderWay(onTop)
      BY <2>1 DEF SaysNothing, SaysSame, UnderWay
    <3>2. calls[onTop].op = "move"
      BY <3>1 DEF PageInv, OnTopInv
    <3> QED BY <2>1, <3>1, <3>2, <1>1, CarriersAre DEF UnderWay
  <2>3. OnTopInv'
    BY <1>1, <1>2, <2>2 DEF PageInv, OnTopInv
  <2>4. BackToLast'
    BY <1>1, <1>2, <1>3, <2>2 DEF PageInv, BackToLast
  <2> QED BY <2>3, <2>4
<1>9. MovesInOrder'
  BY <1>1 DEF PageInv, MovesInOrder
<1>10. BackToServer'
  BY <1>1, <1>2, <1>3 DEF PageInv, BackToServer
<1>11. OrderTold'
  BY <1>1, <1>2, <1>3 DEF PageInv, OrderTold
<1>12. ListTold'
  BY <1>2, <1>4 DEF PageInv, ListTold
<1> QED BY <1>5, <1>6, <1>7, <1>8, <1>9, <1>10, <1>11, <1>12 DEF PageInv

\* What the page and the library's row show and know.
shown == <<test, version, page, onTop, seen, missed, list, listStale, listMissed>>

LEMMA SameSays ==
    ASSUME NEW c, NEW t
    PROVE  SaysSame(c, c, t)
BY DEF SaysSame

LEMMA NothingCalled ==
    ASSUME UNCHANGED shown, UNCHANGED calls, screen' = "login" <=> screen = "login"
    PROVE  SaysNothing
BY SameSays DEF SaysNothing, shown

LEMMA NothingNew ==
    ASSUME Typed, NEW k \in CallShape, CallTrue(k, version, test), Call(k), UNCHANGED server,
           UNCHANGED shown, screen' = screen, k.op # "move", k.got = None
    PROVE  SaysNothing
<1>1. /\ \A n \in DOMAIN calls : calls'[n] = calls[n]
      /\ DOMAIN calls' = DOMAIN calls \cup {Len(calls')} /\ calls'[Len(calls')] = k
  BY CallFramed
<1>2. DOMAIN calls \subseteq DOMAIN calls'
  BY <1>1
<1>3. \A n \in DOMAIN calls' \ DOMAIN calls : calls'[n].op # "move" /\ calls'[n].got = None
  BY <1>1
<1>4. \A n \in DOMAIN calls : SaysSame(calls[n], calls'[n], test)
  BY <1>1, SameSays
<1> QED BY <1>2, <1>3, <1>4 DEF SaysNothing, shown

LEMMA NothingChanged ==
    ASSUME Typed, NEW n \in DOMAIN calls, UNCHANGED shown, screen' = "login" <=> screen = "login",
           DOMAIN calls' = DOMAIN calls, \A m \in DOMAIN calls : m # n => calls'[m] = calls[m],
           SaysSame(calls[n], calls'[n], test)
    PROVE  SaysNothing
<1>1. \A m \in DOMAIN calls : SaysSame(calls[m], calls'[m], test)
  BY SameSays
<1> QED BY <1>1 DEF SaysNothing, shown

LEMMA NothingEnded ==
    ASSUME Typed, NEW n \in DOMAIN calls, End(n), UnderWay(n), UNCHANGED shown,
           screen' = "login" <=> screen = "login", calls[n].op # "move", ~Carrier(calls[n])
    PROVE  SaysNothing
<1>1. UNCHANGED server
  BY DEF shown, server
<1>2. /\ DOMAIN calls' = DOMAIN calls /\ \A m \in DOMAIN calls : m # n => calls'[m] = calls[m]
      /\ calls'[n].state = "over" /\ calls'[n].op = calls[n].op
  BY <1>1, EndDoes
<1>3. SaysSame(calls[n], calls'[n], test)
  BY <1>2 DEF SaysSame, Carrier
<1> QED BY <1>2, <1>3, NothingChanged

LEMMA PagePerson ==
    ASSUME Typed,
           \/ \E x \in Fields, v \in Values : Type(x, v)
           \/ \E f \in Forms : Discard(f) \/ Open(f) \/ Close(f) \/ Save(f)
           \/ \E flt \in Filters : Filter(flt)
           \/ Sends
           \/ ToLibrary \/ ToEditor
           \/ OpenDialog \/ CloseDialog \/ ChooseNone
           \/ Import
           \/ \E file \in Files : Choose(file)
           \/ \E mode \in {"append", "replace"} : ChangeMode(mode)
    PROVE  SaysNothing
<1>1. ASSUME NEW x \in Fields, NEW v \in Values, Type(x, v)
      PROVE  SaysNothing
  BY <1>1, NothingCalled DEF Type, shown, server, cache, lists
<1>2. ASSUME NEW f \in Forms, Discard(f) \/ Open(f) \/ Close(f)
      PROVE  SaysNothing
  BY <1>2, NothingCalled DEF Discard, Open, Close, Redisplay, shown, server, cache, lists
<1>3. ASSUME NEW f \in Forms, Save(f)
      PROVE  SaysNothing
  <2>1. PICK k \in CallShape : Call(k) /\ CallTrue(k, version, test) /\ k.op = "save" /\ k.got = None
    BY <1>3, SaveDoes
  <2>2. UNCHANGED server /\ UNCHANGED shown /\ screen' = screen
    BY <1>3 DEF Save, shown, server, cache, lists
  <2> QED BY <2>1, <2>2, NothingNew
<1>4. CASE Sends
  <2>1. PICK k \in CallShape : /\ Call(k) /\ CallTrue(k, version, test)
                               /\ k.op \in {"save", "drop", "read"} /\ k.state = "sent" /\ k.got = None
                               /\ UNCHANGED <<server, cache, forms, lists, screen, dialog>>
    BY <1>4, SendsDo
  <2>2. UNCHANGED server /\ UNCHANGED shown /\ screen' = screen /\ k.op # "move"
    BY <2>1 DEF shown, server, cache, lists
  <2> QED BY <2>1, <2>2, NothingNew
<1>5. CASE ToLibrary \/ ToEditor \/ OpenDialog \/ CloseDialog \/ ChooseNone
  BY <1>5, NothingCalled DEF ToLibrary, ToEditor, OpenDialog, CloseDialog, ChooseNone, shown, server, cache, lists
<1>6. ASSUME NEW file \in Files, NEW mode \in {"append", "replace"}, Check(file, mode)
      PROVE  SaysNothing
  <2>1. PICK k \in CallShape : Call(k) /\ CallTrue(k, version, test) /\ k.op = "check" /\ k.got = None
    BY <1>6, CheckDoes
  <2>2. UNCHANGED <<server, cache, forms, lists, screen>>
    BY <1>6, CheckDoes
  <2>3. UNCHANGED server /\ UNCHANGED shown /\ screen' = screen /\ k.op # "move"
    BY <2>1, <2>2 DEF shown, server, cache, lists
  <2> QED BY <2>1, <2>3, NothingNew
<1>7. CASE Import
  <2>1. PICK k \in CallShape : Call(k) /\ CallTrue(k, version, test) /\ k.op = "import" /\ k.got = None
    BY <1>7, ImportDoes
  <2>2. UNCHANGED <<server, cache, forms, lists, screen>>
    BY <1>7, ImportDoes
  <2>3. UNCHANGED server /\ UNCHANGED shown /\ screen' = screen /\ k.op # "move"
    BY <2>1, <2>2 DEF shown, server, cache, lists
  <2> QED BY <2>1, <2>3, NothingNew
<1>8. dialog.mode \in {"append", "replace"} /\ dialog.file \in Files \cup {None}
  BY DEF Typed, Shapes, DialogShape
<1>9. ASSUME NEW file \in Files, Choose(file)
      PROVE  SaysNothing
  BY <1>6, <1>8, <1>9 DEF Choose
<1>10. ASSUME NEW mode \in {"append", "replace"}, ChangeMode(mode)
       PROVE  SaysNothing
  <2>1. CASE dialog.file # None
    BY <1>6, <1>8, <1>10, <2>1 DEF ChangeMode
  <2>2. CASE dialog.file = None
    BY <1>10, <2>2, NothingCalled DEF ChangeMode, shown, server, cache, lists
  <2> QED BY <2>1, <2>2
<1>11. ASSUME NEW flt \in Filters, Filter(flt)
       PROVE  SaysNothing
  BY <1>11, NothingCalled DEF Filter, Redisplay, shown, server, cache, lists
<1> QED BY <1>1, <1>2, <1>3, <1>4, <1>5, <1>7, <1>9, <1>10, <1>11

LEMMA PageServed ==
    ASSUME Typed, NEW n \in DOMAIN calls, ServeRead(n) \/ ServeCheck(n) \/ SendNext(n) \/ TakeCheck(n)
    PROVE  SaysNothing
<1>1. CASE ServeRead(n)
  <2>1. SaysSame(calls[n], calls'[n], test)
    BY <1>1, ReadServed DEF SaysSame, Carrier
  <2>2. UNCHANGED shown /\ screen' = screen
    BY <1>1, ReadServed DEF shown, server, cache, lists
  <2> QED BY <1>1, <2>1, <2>2, ReadServed, NothingChanged
<1>2. CASE ServeCheck(n)
  <2>1. SaysSame(calls[n], calls'[n], test)
    BY <1>2, CheckServed DEF SaysSame, Carrier
  <2>2. UNCHANGED shown /\ screen' = screen
    BY <1>2, CheckServed DEF shown, server, cache, lists
  <2> QED BY <1>2, <2>1, <2>2, CheckServed, NothingChanged
<1>3. CASE SendNext(n)
  <2>1. SaysSame(calls[n], calls'[n], test)
    BY <1>3, NextSent DEF SaysSame, Carrier
  <2>2. UNCHANGED shown /\ screen' = screen
    BY <1>3, NextSent DEF shown, server, cache, lists
  <2> QED BY <1>3, <2>1, <2>2, NextSent, NothingChanged
<1>4. CASE TakeCheck(n)
  <2>1. calls[n].op = "check" /\ calls[n].state = "back" /\ End(n)
    BY <1>4 DEF TakeCheck, Back
  <2>2. UNCHANGED shown /\ screen' = screen
    BY <1>4 DEF TakeCheck, shown, server, cache, lists
  <2>3. UnderWay(n) /\ ~Carrier(calls[n])
    BY <2>1 DEF UnderWay, Carrier
  <2> QED BY <2>1, <2>2, <2>3, NothingEnded
<1> QED BY <1>1, <1>2, <1>3, <1>4

LEMMA PageMove ==
    ASSUME Typed, PageInv, NEW i \in DOMAIN page.order, NEW j \in DOMAIN page.order, Move(i, j)
    PROVE  PageInv'
<1> DEFINE N == Len(calls')
<1>1. /\ page'.is = page.is /\ UNCHANGED <<server, forms, lists, screen, seen, missed, dialog>>
      /\ N \in DOMAIN calls' /\ DOMAIN calls' = DOMAIN calls \cup {N} /\ N \notin DOMAIN calls
      /\ N = Len(calls) + 1
      /\ \A n \in DOMAIN calls : calls'[n] = IF calls[n].op = "read" THEN Ended(calls[n]) ELSE calls[n]
      /\ onTop' = N /\ calls'[N].op = "move" /\ calls'[N].state = "sent" /\ calls'[N].got = None
      /\ calls'[N].ids = page'.order /\ calls'[N].prev = page
      /\ calls'[N].late <=> (Moves # {} /\ onTop \notin Moves)
  BY MoveDoes
<1>2. /\ DOMAIN calls = 1 .. Len(calls) /\ Len(calls) \in Nat
      /\ \A n \in DOMAIN calls : calls[n] \in CallShape
      /\ onTop # 0 => onTop \in DOMAIN calls
  BY TypedIs, TypedParts DEF PageOK
<1> HIDE DEF N
<1>3. /\ test' = test /\ version' = version /\ seen' = seen /\ missed' = missed /\ screen' = screen
      /\ list' = list /\ listStale' = listStale /\ listMissed' = listMissed
  BY <1>1 DEF server, lists
<1>4. \A n \in DOMAIN calls : /\ calls[n].op # "read" => calls'[n] = calls[n]
                              /\ calls[n].op = "read" => calls'[n].state = "over"
  BY <1>1, <1>2, EndedIs
<1>5. /\ \A n : n \in Carriers <=> n \in DOMAIN calls /\ Carrier(calls[n])
      /\ \A n : n \in Carriers' <=> n \in DOMAIN calls' /\ Carrier(calls'[n])
      /\ \A n : n \in Moves <=> n \in DOMAIN calls /\ calls[n].op = "move" /\ calls[n].state # "over"
      /\ \A n : n \in Moves' <=> n \in DOMAIN calls' /\ calls'[n].op = "move" /\ calls'[n].state # "over"
  BY CarriersAre, CarriersAreNext
<1>6. Carriers' = Carriers /\ \A n \in Carriers : n \in DOMAIN calls /\ calls'[n] = calls[n]
  <2>1. \A n \in Carriers : n \in DOMAIN calls /\ calls'[n] = calls[n]
    BY <1>4, <1>5 DEF Carrier
  <2>2. \A n \in Carriers : n \in Carriers'
    BY <1>1, <1>5, <2>1
  <2>3. ASSUME NEW n \in Carriers'
        PROVE  n \in Carriers
    <3>1. n \in DOMAIN calls'
      BY <1>5
    <3>2. calls'[n].got # None /\ calls'[n].state # "over"
      BY <1>5 DEF Carrier
    <3>3. n # N
      BY <1>1, <3>2
    <3>4. n \in DOMAIN calls
      BY <1>1, <3>1, <3>3
    <3>5. calls'[n] = calls[n]
      BY <1>4, <3>2, <3>4
    <3> QED BY <1>5, <3>4, <3>5
  <2> QED BY <2>1, <2>2, <2>3
<1>7. Moves' = Moves \cup {N} /\ \A n \in Moves : n \in DOMAIN calls /\ calls'[n] = calls[n]
  BY <1>1, <1>4, <1>5
<1>8. /\ Told' <=> Told
      /\ OnlyMoves' <=> OnlyMoves
  BY <1>3, <1>6 DEF Told, OnlyMoves
<1>9. LatestComes'
  BY <1>3, <1>6, <1>8 DEF PageInv, LatestComes
<1>10. AnswersTell'
  <2> SUFFICES ASSUME Told, NEW n \in DOMAIN calls', calls'[n].state # "over", calls'[n].got # None,
                      calls'[n].at >= seen
               PROVE  \/ calls'[n].got.is = test.is
                      \/ \E m \in Carriers : calls[m].op # "move" /\ calls[m].at > calls'[n].at
    BY <1>3, <1>6, <1>8 DEF AnswersTell, UnderWay
  <2>1. n \in DOMAIN calls /\ calls'[n] = calls[n]
    BY <1>1, <1>4
  <2> QED BY <2>1 DEF PageInv, AnswersTell, UnderWay
<1>11. FieldsTold'
  BY <1>1, <1>3, <1>8 DEF PageInv, FieldsTold
<1>12. OnTopInv'
  BY <1>1, <1>2, <1>7 DEF OnTopInv
<1>13. MovesInOrder'
  BY <1>1, <1>7 DEF PageInv, MovesInOrder
<1>14. BackToLast'
  <2> SUFFICES ASSUME ~calls'[N].late, NEW m \in Moves, ~\E k \in Moves : k > m
               PROVE  page.order = calls[m].ids
    <3>1. onTop' = N /\ Moves' \ {N} = Moves /\ calls'[N].prev = page
      BY <1>1, <1>5, <1>7
    <3> QED BY <1>7, <3>1 DEF BackToLast
  <2>1. onTop \in Moves
    BY <1>1
  <2>2. OnTopInv /\ UnderWay(onTop) /\ onTop # 0
    BY <1>2, <1>5, <2>1 DEF PageInv, UnderWay
  <2>3. m = onTop
    BY <1>2, <1>7, <2>1, <2>2 DEF OnTopInv
  <2> QED BY <2>2, <2>3 DEF OnTopInv
<1>15. BackToServer'
  <2> SUFFICES ASSUME Told, Moves' = {N}, Carriers = {}
               PROVE  page.order = test.order
    BY <1>1, <1>3, <1>6, <1>8 DEF BackToServer
  <2>1. Moves = {}
    BY <1>1, <1>5, <1>7
  <2> QED BY <2>1 DEF PageInv, OrderTold
<1>16. OrderTold'
  BY <1>7 DEF OrderTold
<1>17. ListTold'
  BY <1>3, <1>8 DEF PageInv, ListTold
<1> QED BY <1>9, <1>10, <1>11, <1>12, <1>13, <1>14, <1>15, <1>16, <1>17 DEF PageInv

LEMMA PageChanges ==
    ASSUME Typed, PageInv, NEW n \in DOMAIN calls, Changes(n)
    PROVE  PageInv'
<1>1. PICK t \in Tests :
         /\ calls[n].state = "sent" /\ calls[n].op \in {"save", "move", "drop", "import"}
         /\ Serve(n, t)
         /\ calls[n].op = "move" =>
               t.order = calls[n].ids /\ t.is = test.is /\ Len(t.order) = Len(test.order)
  BY ChangesDo
<1>2. /\ test' = t /\ version' = version + 1 /\ version' \in Nat
      /\ DOMAIN calls' = DOMAIN calls /\ \A m \in DOMAIN calls : m # n => calls'[m] = calls[m]
      /\ calls'[n].state = "back" /\ calls'[n].got = t
      /\ calls'[n].at = version + 1 /\ (calls'[n].late <=> (calls[n].late \/ Late(n)))
      /\ calls'[n].op = calls[n].op /\ calls'[n].ids = calls[n].ids /\ calls'[n].prev = calls[n].prev
  BY <1>1, Served
<1>3. /\ page' = page /\ onTop' = onTop /\ seen' = seen /\ missed' = missed /\ screen' = screen
      /\ list' = list /\ listStale' = listStale /\ listMissed' = listMissed
  BY <1>1 DEF Serve, cache, lists
<1>4. /\ test \in Tests /\ version \in Nat /\ seen \in Nat /\ seen <= version /\ t # None
      /\ onTop # 0 => onTop \in DOMAIN calls
      /\ \A m \in DOMAIN calls : /\ calls[m] \in CallShape /\ m \in Nat /\ calls[m].at \in Nat
                                 /\ calls[m].state # "over" => CallTrue(calls[m], version, test)
  BY <1>1, TypedIs, TypedParts, CallIs, NoneAssumption DEF PageOK, UnderWay
<1>5. /\ \A m : m \in Carriers <=> m \in DOMAIN calls /\ Carrier(calls[m])
      /\ \A m : m \in Carriers' <=> m \in DOMAIN calls' /\ Carrier(calls'[m])
      /\ \A m : m \in Moves <=> m \in DOMAIN calls /\ calls[m].op = "move" /\ calls[m].state # "over"
      /\ \A m : m \in Moves' <=> m \in DOMAIN calls' /\ calls'[m].op = "move" /\ calls'[m].state # "over"
  BY CarriersAre, CarriersAreNext
<1>6. Carriers' = Carriers \cup {n} /\ n \in Carriers'
  BY <1>1, <1>2, <1>4, <1>5 DEF Carrier
<1>7. Moves' = Moves
  <2>1. \A m : m \in Moves' <=> m \in Moves
    BY <1>1, <1>2, <1>5
  <2> QED BY <2>1
<1>8. Told' <=> Told
  BY <1>3 DEF Told
<1>9. OnlyMoves' => OnlyMoves /\ calls[n].op = "move"
  BY <1>2, <1>5, <1>6 DEF OnlyMoves
<1>10. LatestComes'
  BY <1>2, <1>6 DEF LatestComes
<1>11. AnswersTell'
  <2> SUFFICES ASSUME Told, NEW m \in DOMAIN calls, calls'[m].state # "over", calls'[m].got # None,
                      calls'[m].at >= seen
               PROVE  \/ calls'[m].got.is = t.is
                      \/ \E k \in Carriers' : calls'[k].op # "move" /\ calls'[k].at > calls'[m].at
    BY <1>2, <1>3, <1>8 DEF AnswersTell, UnderWay
  <2>1. CASE m = n
    BY <1>2, <2>1
  <2>2. CASE m # n
    <3>1. calls'[m] = calls[m] /\ calls[m].at <= version
      BY <1>2, <1>4, <2>2 DEF CallTrue
    <3>2. CASE calls[n].op # "move"
      BY <1>2, <1>4, <1>6, <3>1, <3>2
    <3>3. CASE calls[n].op = "move"
      <4>1. \/ calls[m].got.is = test.is
            \/ \E k \in Carriers : calls[k].op # "move" /\ calls[k].at > calls[m].at
        BY <3>1 DEF PageInv, AnswersTell, UnderWay
      <4>2. \A k \in Carriers : calls[k].op # "move" => k \in Carriers' /\ calls'[k] = calls[k]
        BY <1>2, <1>5, <1>6, <3>3
      <4> QED BY <1>1, <3>1, <3>3, <4>1, <4>2
    <3> QED BY <3>2, <3>3
  <2> QED BY <2>1, <2>2
<1>12. FieldsTold'
  BY <1>1, <1>2, <1>3, <1>8, <1>9 DEF PageInv, FieldsTold
<1>13. onTop # 0 => (UnderWay(onTop)' <=> UnderWay(onTop)) /\ calls'[onTop].op = calls[onTop].op
                    /\ calls'[onTop].ids = calls[onTop].ids /\ calls'[onTop].prev = calls[onTop].prev
                    /\ (calls[onTop].late => calls'[onTop].late)
  <2>1. CASE onTop = n
    BY <1>1, <1>2, <1>3, <2>1 DEF UnderWay
  <2>2. CASE onTop # n
    BY <1>2, <1>3, <1>4, <2>2 DEF UnderWay
  <2> QED BY <2>1, <2>2
<1>14. OnTopInv'
  BY <1>3, <1>7, <1>13 DEF PageInv, OnTopInv
<1>15. MovesInOrder'
  <2> SUFFICES ASSUME NEW m \in Moves, NEW k \in Moves, m < k, calls'[m].got # None, calls'[k].got # None
               PROVE  calls'[m].late \/ calls'[m].at < calls'[k].at
    BY <1>7 DEF MovesInOrder
  <2>1. m \in DOMAIN calls /\ k \in DOMAIN calls /\ calls[m].op = "move" /\ calls[k].op = "move"
        /\ calls[m].state # "over" /\ calls[k].state # "over"
    BY <1>5
  <2>2. CASE m # n /\ k # n
    BY <1>2, <2>1, <2>2 DEF PageInv, MovesInOrder
  <2>3. CASE k = n /\ m # n
    BY <1>2, <1>4, <2>1, <2>3 DEF CallTrue
  <2>4. CASE m = n
    <3>1. k # n /\ calls[k].got # None /\ calls[k].state # "sent"
      BY <1>2, <1>4, <2>1, <2>4 DEF CallTrue
    <3>2. Late(n)
      BY <2>1, <2>4, <3>1 DEF Late
    <3> QED BY <1>2, <2>4, <3>2
  <2> QED BY <2>2, <2>3, <2>4
<1>16. BackToLast'
  <2> SUFFICES ASSUME Told, onTop # 0, UnderWay(onTop), ~calls[onTop].late, NEW m \in Moves \ {onTop},
                      ~\E k \in Moves \ {onTop} : k > m, calls[onTop].prev.order # calls[m].ids
               PROVE  Doomed(m)'
    <3>1. \A m \in DOMAIN calls : calls'[m].ids = calls[m].ids
      BY <1>2
    <3> QED BY <1>3, <1>5, <1>7, <1>8, <1>13, <3>1 DEF BackToLast
  <2>1. Doomed(m)
    BY DEF PageInv, BackToLast
  <2>2. m \in DOMAIN calls /\ calls[m].op = "move" /\ calls[m].state # "over"
    BY <1>5
  <2>3. CASE m = n
    <3>1. calls[n].got = None
      BY <1>1, <1>4, <2>2, <2>3 DEF CallTrue
    <3> QED BY <1>2, <2>1, <2>3, <3>1 DEF Doomed
  <2>4. CASE m # n
    <3>1. Late(m) => Late(m)'
      BY <1>1, <1>2, <2>2, <2>4 DEF Late
    <3> QED BY <1>2, <1>3, <2>1, <2>2, <2>4, <3>1 DEF Doomed
  <2> QED BY <2>3, <2>4
<1>17. BackToServer' /\ OrderTold'
  BY <1>6 DEF BackToServer, OrderTold
<1>18. ListTold'
  <2> SUFFICES ASSUME OnlyMoves', screen # "login", ~listStale, ~listMissed
               PROVE  list = Summary(t)
    BY <1>2, <1>3 DEF ListTold
  <2>1. list = Summary(test) /\ calls[n].op = "move"
    BY <1>9 DEF PageInv, ListTold
  <2> QED BY <1>1, <1>4, <2>1, SummarySame
<1> QED BY <1>10, <1>11, <1>12, <1>14, <1>15, <1>16, <1>17, <1>18 DEF PageInv

\* The page read anew, the list read anew, and what the page can't know of.
LEMMA PageOthers ==
    ASSUME Typed, PageInv, SignIn \/ ListRead \/ OtherAdmin \/ \E n \in DOMAIN calls : SessionEnded(n)
    PROVE  PageInv'
<1>1. CASE SignIn
  <2>1. /\ test' = test /\ version' = version /\ page' = test /\ onTop' = 0 /\ seen' = version
        /\ list' = Summary(test) /\ calls' = calls
    BY <1>1 DEF SignIn, server
  <2>2. \A n \in DOMAIN calls : UnderWay(n) /\ calls[n].got # None /\ calls[n].at >= version =>
           calls[n].got = test
    BY TypedIs, CallIs DEF CallTrue
  <2>3. LatestComes' /\ FieldsTold' /\ OrderTold' /\ ListTold'
    BY <2>1 DEF LatestComes, FieldsTold, OrderTold, ListTold
  <2>4. OnTopInv' /\ BackToLast' /\ BackToServer'
    BY <2>1 DEF OnTopInv, BackToLast, BackToServer
  <2>5. AnswersTell'
    BY <2>1, <2>2 DEF AnswersTell, UnderWay
  <2>6. MovesInOrder'
    BY <2>1 DEF PageInv, MovesInOrder, Moves, UnderWay
  <2> QED BY <2>3, <2>4, <2>5, <2>6 DEF PageInv
<1>2. CASE ListRead
  <2>1. /\ UNCHANGED <<test, version, page, onTop, seen, missed, screen, calls>>
        /\ list' = Summary(test)
    BY <1>2 DEF ListRead, server, cache
  <2>2. ListTold'
    BY <2>1 DEF ListTold
  <2>3. UNCHANGED <<Told, Moves, Carriers, OnlyMoves>>
    BY <2>1 DEF Told, Moves, Carriers, OnlyMoves, UnderWay
  <2>4. LatestComes' /\ AnswersTell' /\ FieldsTold' /\ OnTopInv'
    BY <2>1, <2>3 DEF PageInv, LatestComes, AnswersTell, FieldsTold, OnTopInv, UnderWay
  <2>5. MovesInOrder' /\ BackToServer' /\ OrderTold'
    BY <2>1, <2>3 DEF PageInv, MovesInOrder, BackToServer, OrderTold
  <2>6. BackToLast'
    BY <2>1, <2>3 DEF PageInv, BackToLast, Doomed, Late, UnderWay
  <2> QED BY <2>2, <2>4, <2>5, <2>6 DEF PageInv
<1>3. CASE OtherAdmin
  <2>1. /\ missed' # {} /\ listMissed' = TRUE
        /\ UNCHANGED <<page, onTop, calls>>
    BY <1>3, OtherDoes
  <2>2. ~Told'
    BY <2>1 DEF Told
  <2>3. LatestComes' /\ AnswersTell' /\ FieldsTold' /\ BackToLast' /\ BackToServer' /\ OrderTold' /\ ListTold'
    BY <2>1, <2>2 DEF LatestComes, AnswersTell, FieldsTold, BackToLast, BackToServer, OrderTold, ListTold
  <2>4. OnTopInv' /\ MovesInOrder'
    BY <2>1 DEF PageInv, OnTopInv, MovesInOrder, Moves, UnderWay
  <2> QED BY <2>3, <2>4 DEF PageInv
<1>4. ASSUME NEW n \in DOMAIN calls, SessionEnded(n)
      PROVE  PageInv'
  <2>1. screen' = "login" /\ onTop' = 0
    BY <1>4 DEF SessionEnded
  <2>2. ~Told'
    BY <2>1 DEF Told
  <2>3. Moves' = {}
    <3>1. DOMAIN calls' = DOMAIN calls /\ \A m \in DOMAIN calls : calls'[m].state = "over"
      BY <1>4, SessionDoes
    <3> QED BY <3>1, CarriersAreNext
  <2> QED BY <2>1, <2>2, <2>3 DEF PageInv, LatestComes, AnswersTell, FieldsTold, OnTopInv, MovesInOrder,
          BackToLast, BackToServer, OrderTold, ListTold
<1> QED BY <1>1, <1>2, <1>3, <1>4

\* Call n is over.
LEMMA EndLeaves ==
    ASSUME Typed, NEW n \in DOMAIN calls, End(n), UNCHANGED server
    PROVE  /\ test' = test /\ version' = version
           /\ DOMAIN calls' = DOMAIN calls /\ \A m \in DOMAIN calls : m # n => calls'[m] = calls[m]
           /\ calls'[n].state = "over" /\ calls'[n].op = calls[n].op
           /\ Carriers' = Carriers \ {n} /\ Moves' = Moves \ {n}
           /\ Carriers \subseteq DOMAIN calls /\ Moves \subseteq DOMAIN calls
<1>1. /\ DOMAIN calls' = DOMAIN calls /\ \A m \in DOMAIN calls : m # n => calls'[m] = calls[m]
      /\ calls'[n].state = "over" /\ calls'[n].op = calls[n].op
  BY EndDoes
<1>2. \A m : m \in Carriers' <=> m \in Carriers \ {n}
  BY <1>1, CarriersAre, CarriersAreNext DEF Carrier
<1>3. \A m : m \in Moves' <=> m \in Moves \ {n}
  BY <1>1, CarriersAre, CarriersAreNext
<1> QED BY <1>1, <1>2, <1>3, CarriersAre DEF server

LEMMA MovesStayInOrder ==
    ASSUME Typed, PageInv, NEW n \in DOMAIN calls, End(n), UNCHANGED server
    PROVE  MovesInOrder'
<1>1. /\ \A m \in DOMAIN calls : m # n => calls'[m] = calls[m]
      /\ Moves' = Moves \ {n} /\ Moves \subseteq DOMAIN calls
  BY EndLeaves
<1> QED BY <1>1 DEF PageInv, MovesInOrder

\* Either the answer of call n was the latest, or the page could be told before.
LEMMA Learnt ==
    ASSUME Typed, NEW n \in DOMAIN calls, UnderWay(n), calls[n].got # None,
           NEW told \in BOOLEAN, Learn(n, told), UNCHANGED server,
           screen' = "login" <=> screen = "login", Told'
    PROVE  /\ \/ told /\ calls[n].at = version /\ seen' = version /\ calls[n].got = test
              \/ Told /\ calls[n].at >= seen /\ ~calls[n].late /\ seen' = calls[n].at
           /\ calls[n].at \in Nat /\ calls[n].at <= version /\ seen' \in Nat /\ seen <= seen'
           /\ calls[n].at <= seen' /\ (calls[n].at = version => calls[n].got = test)
<1>1. /\ version \in Nat /\ seen \in Nat /\ seen <= version /\ calls[n].at \in Nat /\ calls[n].at <= version
      /\ calls[n].at = version => calls[n].got = test
  BY TypedIs, CallIs DEF CallTrue
<1>2. missed' = {} /\ screen # "login"
  BY DEF Told
<1> QED BY <1>1, <1>2 DEF Learn, Told

LEMMA AfterAnswer ==
    ASSUME Typed, PageInv, NEW n \in DOMAIN calls, UnderWay(n), calls[n].got # None, calls[n].op # "check",
           NEW told \in BOOLEAN, Learn(n, told), End(n), UNCHANGED server,
           screen' = "login" <=> screen = "login"
    PROVE  LatestComes' /\ AnswersTell' /\ MovesInOrder'
<1>1. /\ test' = test /\ version' = version
      /\ DOMAIN calls' = DOMAIN calls /\ \A m \in DOMAIN calls : m # n => calls'[m] = calls[m]
      /\ calls'[n].state = "over" /\ calls'[n].op = calls[n].op
      /\ Carriers' = Carriers \ {n} /\ Moves' = Moves \ {n}
      /\ Carriers \subseteq DOMAIN calls /\ Moves \subseteq DOMAIN calls
  BY EndLeaves
<1>2. Told' =>
        /\ \/ told /\ calls[n].at = version /\ seen' = version /\ calls[n].got = test
           \/ Told /\ calls[n].at >= seen /\ ~calls[n].late /\ seen' = calls[n].at
        /\ calls[n].at \in Nat /\ calls[n].at <= version /\ seen' \in Nat /\ seen <= seen'
        /\ calls[n].at <= seen' /\ (calls[n].at = version => calls[n].got = test)
  BY Learnt
<1>3. /\ version \in Nat /\ seen \in Nat /\ seen <= version
      /\ \A m \in DOMAIN calls : /\ calls[m].at \in Nat
                                 /\ calls[m].state # "over" /\ calls[m].got # None =>
                                      calls[m].at <= version /\ (calls[m].at = version => calls[m].got = test)
  BY TypedIs, CallIs DEF CallTrue, UnderWay
<1>4. LatestComes'
  <2> SUFFICES ASSUME Told', seen' # version
               PROVE  \E k \in Carriers' : calls'[k].at = version
    BY <1>1 DEF LatestComes
  <2>1. Told /\ calls[n].at >= seen /\ seen' = calls[n].at
    BY <1>2
  <2>2. seen # version
    BY <1>2, <1>3, <2>1
  <2>3. PICK k \in Carriers : calls[k].at = version
    BY <2>1, <2>2 DEF PageInv, LatestComes
  <2>4. k # n
    BY <2>1, <2>3
  <2> QED BY <1>1, <2>3, <2>4
<1>5. AnswersTell'
  <2> SUFFICES ASSUME Told', NEW m \in DOMAIN calls, m # n, calls[m].state # "over", calls[m].got # None,
                      calls[m].at >= seen'
               PROVE  \/ calls[m].got.is = test.is
                      \/ \E k \in Carriers' : calls'[k].op # "move" /\ calls'[k].at > calls[m].at
    BY <1>1 DEF AnswersTell, UnderWay
  <2>1. CASE seen' = version
    BY <1>3, <2>1
  <2>2. CASE Told /\ calls[n].at >= seen /\ seen' = calls[n].at
    <3>1. calls[m].at >= seen
      BY <1>2, <1>3, <2>2
    <3>2. \/ calls[m].got.is = test.is
          \/ \E k \in Carriers : calls[k].op # "move" /\ calls[k].at > calls[m].at
      BY <2>2, <3>1 DEF PageInv, AnswersTell, UnderWay
    <3>3. \A k \in Carriers : calls[k].at > calls[m].at => k \in Carriers' /\ calls'[k] = calls[k]
      <4>1. ~(calls[n].at > calls[m].at)
        BY <1>2, <1>3, <2>2
      <4> QED BY <1>1, <4>1
    <3> QED BY <3>2, <3>3
  <2> QED BY <1>2, <2>1, <2>2
<1> QED BY <1>4, <1>5, MovesStayInOrder

\* The page shows what it was answered.
LEMMA AfterShown ==
    ASSUME Typed, PageInv, NEW n \in DOMAIN calls, UnderWay(n), calls[n].got # None, calls[n].op # "check",
           Learn(n, TRUE), End(n), UNCHANGED server, page' = calls[n].got,
           screen' = "login" <=> screen = "login"
    PROVE  FieldsTold' /\ OrderTold'
<1>1. /\ test' = test /\ version' = version
      /\ DOMAIN calls' = DOMAIN calls /\ \A m \in DOMAIN calls : m # n => calls'[m] = calls[m]
      /\ Carriers' = Carriers \ {n} /\ Carriers \subseteq DOMAIN calls
  BY EndLeaves
<1>2. Told' =>
        /\ \/ calls[n].at = version /\ seen' = version /\ calls[n].got = test
           \/ Told /\ calls[n].at >= seen /\ ~calls[n].late /\ seen' = calls[n].at
        /\ calls[n].at \in Nat /\ calls[n].at <= version
        /\ calls[n].at = version => calls[n].got = test
  BY Learnt
<1>3. FieldsTold'
  <2> SUFFICES ASSUME Told', OnlyMoves'
               PROVE  calls[n].got.is = test.is
    BY <1>1 DEF FieldsTold
  <2>1. CASE calls[n].got = test
    BY <2>1
  <2>2. CASE Told /\ calls[n].at >= seen
    <3>1. \/ calls[n].got.is = test.is
          \/ \E k \in Carriers : calls[k].op # "move" /\ calls[k].at > calls[n].at
      BY <2>2 DEF PageInv, AnswersTell
    <3>2. \A k \in Carriers : calls[k].at > calls[n].at => k # n
      BY <1>2
    <3> QED BY <1>1, <3>1, <3>2 DEF OnlyMoves
  <2> QED BY <1>2, <2>1, <2>2
<1>4. OrderTold'
  <2> SUFFICES ASSUME Told', Carriers' = {}
               PROVE  calls[n].got = test
    BY <1>1 DEF OrderTold
  <2>1. CASE Told /\ calls[n].at >= seen
    <3>1. seen \in Nat /\ seen <= version
      BY TypedIs
    <3>2. seen = version \/ \E k \in Carriers : calls[k].at = version
      BY <2>1 DEF PageInv, LatestComes
    <3>3. calls[n].at = version
      BY <1>1, <1>2, <2>1, <3>1, <3>2
    <3> QED BY <1>2, <3>3
  <2> QED BY <1>2, <2>1
<1> QED BY <1>3, <1>4

\* An answer that is shown, while nothing of a move stays.
LEMMA PageTaken ==
    ASSUME Typed, PageInv, NEW n \in DOMAIN calls, TakeSave(n) \/ TakeImport(n) \/ TakeRead(n)
    PROVE  PageInv'
<1>1. /\ calls[n].state = "back" /\ calls[n].op \in {"save", "drop", "import", "read"}
      /\ page' = calls[n].got /\ onTop' = 0 /\ Learn(n, TRUE) /\ End(n) /\ UNCHANGED server
      /\ list' = list /\ listMissed' = listMissed /\ (screen' = "login" <=> screen = "login")
      /\ listStale' = TRUE \/ (calls[n].op = "read" /\ listStale' = listStale)
  <2>1. CASE TakeSave(n)
    BY <2>1 DEF TakeSave, Back, Show
  <2>2. CASE TakeImport(n)
    BY <2>2 DEF TakeImport, Back, Show, ShowOnly
  <2>3. CASE TakeRead(n)
    BY <2>3 DEF TakeRead, Back, Show, ShowOnly, lists
  <2> QED BY <2>1, <2>2, <2>3
<1>2. UnderWay(n) /\ calls[n].got # None /\ calls[n].op # "check"
  BY <1>1, GotIs
<1>3. LatestComes' /\ AnswersTell' /\ MovesInOrder'
  BY <1>1, <1>2, AfterAnswer
<1>4. FieldsTold' /\ OrderTold'
  BY <1>1, <1>2, AfterShown
<1>5. OnTopInv' /\ BackToLast' /\ BackToServer'
  BY <1>1 DEF OnTopInv, BackToLast, BackToServer
<1>6. ListTold'
  <2> SUFFICES ASSUME calls[n].op = "read", OnlyMoves', ListTold, screen # "login", ~listStale, ~listMissed
               PROVE  list = Summary(test)
    BY <1>1, EndLeaves DEF ListTold, PageInv
  <2>1. OnlyMoves
    <3>1. n \notin Carriers
      BY CarriersAre DEF Carrier
    <3> QED BY <1>1, <3>1, EndLeaves DEF OnlyMoves
  <2> QED BY <2>1 DEF ListTold
<1> QED BY <1>3, <1>4, <1>5, <1>6 DEF PageInv

\* While another move is under way the answer of a move isn't shown.
LEMMA PageTakeMove ==
    ASSUME Typed, PageInv, NEW n \in DOMAIN calls, TakeMove(n)
    PROVE  PageInv'
<1> DEFINE last == Moves = {n}
<1>1. /\ calls[n].state = "back" /\ calls[n].op = "move"
      /\ last => page' = calls[n].got
      /\ ~last => page' = page
      /\ Learn(n, last) /\ End(n) /\ UNCHANGED server
      /\ onTop' = onTop /\ list' = list /\ listStale' = listStale /\ listMissed' = listMissed
      /\ screen' = "login" <=> screen = "login"
  BY DEF TakeMove, Back, Show, ShowOnly, LastMove, lists
<1>2. UnderWay(n) /\ calls[n].got # None /\ n \in Moves
  BY <1>1, GotIs, CarriersAre
<1>3. /\ test' = test /\ version' = version
      /\ DOMAIN calls' = DOMAIN calls /\ \A m \in DOMAIN calls : m # n => calls'[m] = calls[m]
      /\ calls'[n].state = "over" /\ calls'[n].op = calls[n].op
      /\ Carriers' = Carriers \ {n} /\ Moves' = Moves \ {n}
      /\ Carriers \subseteq DOMAIN calls /\ Moves \subseteq DOMAIN calls
  BY <1>1, EndLeaves
<1>4. /\ onTop # 0 => onTop \in DOMAIN calls
      /\ version \in Nat /\ seen \in Nat /\ seen <= version
      /\ \A m \in DOMAIN calls : m \in Nat /\ calls[m] \in CallShape /\ calls[m].at \in Nat
      /\ \A m \in DOMAIN calls : calls[m].state # "over" => CallTrue(calls[m], version, test)
  BY TypedIs, TypedParts, CallIs DEF PageOK, UnderWay
<1> HIDE DEF last
<1>5. last \in BOOLEAN
  BY DEF last
<1>6. /\ LatestComes' /\ AnswersTell' /\ MovesInOrder'
  BY <1>1, <1>2, <1>5, AfterAnswer
<1>7. Told' =>
        /\ \/ last /\ calls[n].at = version /\ seen' = version /\ calls[n].got = test
           \/ Told /\ calls[n].at >= seen /\ ~calls[n].late /\ seen' = calls[n].at
        /\ calls[n].at \in Nat /\ calls[n].at <= version /\ seen' \in Nat /\ seen <= seen'
        /\ calls[n].at <= seen' /\ (calls[n].at = version => calls[n].got = test)
  BY <1>1, <1>2, <1>5, Learnt
<1>8. OnlyMoves' => OnlyMoves
  BY <1>1, <1>3 DEF OnlyMoves
<1>9. onTop # 0 /\ UnderWay(onTop)' =>
         /\ onTop # n /\ UnderWay(onTop) /\ calls'[onTop] = calls[onTop] /\ onTop \in Moves /\ ~last
  <2> SUFFICES ASSUME onTop # 0, calls'[onTop].state # "over"
               PROVE  /\ onTop # n /\ UnderWay(onTop) /\ calls'[onTop] = calls[onTop] /\ onTop \in Moves /\ ~last
    BY <1>1 DEF UnderWay
  <2>1. onTop # n /\ UnderWay(onTop) /\ calls'[onTop] = calls[onTop]
    BY <1>3, <1>4 DEF UnderWay
  <2>2. onTop \in Moves
    BY <1>4, <2>1, CarriersAre DEF PageInv, OnTopInv, UnderWay
  <2> QED BY <2>1, <2>2 DEF last
<1>10. OnTopInv'
  BY <1>1, <1>3, <1>9 DEF PageInv, OnTopInv
<1>11. ListTold'
  BY <1>1, <1>3, <1>8 DEF PageInv, ListTold
<1>12. FieldsTold' /\ OrderTold'
  <2>1. CASE last
    <3>1. Learn(n, TRUE)
      BY <1>1, <1>5, <2>1
    <3> QED BY <1>1, <1>2, <2>1, <3>1, AfterShown
  <2>2. CASE ~last
    <3>1. FieldsTold'
      BY <1>1, <1>3, <1>7, <1>8, <2>2 DEF PageInv, FieldsTold
    <3>2. Moves' # {}
      BY <1>2, <1>3, <2>2 DEF last
    <3> QED BY <3>1, <3>2 DEF OrderTold
  <2> QED BY <2>1, <2>2
<1>13. BackToLast'
  <2> SUFFICES ASSUME Told', onTop # 0, UnderWay(onTop)', ~calls'[onTop].late, NEW m \in Moves' \ {onTop},
                      ~\E k \in Moves' \ {onTop} : k > m, calls'[onTop].prev.order # calls'[m].ids
               PROVE  Doomed(m)'
    BY <1>1 DEF BackToLast
  <2>1. /\ onTop # n /\ UnderWay(onTop) /\ calls'[onTop] = calls[onTop] /\ ~last
        /\ m \in Moves \ {onTop} /\ m # n /\ calls'[m] = calls[m] /\ m \in DOMAIN calls
    BY <1>3, <1>9
  <2>2. Told /\ calls[n].at >= seen /\ ~calls[n].late /\ seen' = calls[n].at
    BY <1>7, <2>1
  <2>3. calls[m].op = "move" /\ calls[m].state # "over"
    BY <2>1, CarriersAre
  <2>4. \/ \E k \in Moves \ {onTop} : k > m
        \/ Doomed(m)
    BY <2>1, <2>2 DEF PageInv, BackToLast
  <2>5. CASE \E k \in Moves \ {onTop} : k > m
    <3>1. n > m
      BY <1>3, <2>5
    <3>2. CASE calls[m].got = None
      <4>1. Late(m)'
        BY <1>1, <1>3, <2>1, <2>3, <3>1 DEF Late
      <4> QED BY <2>1, <3>2, <4>1 DEF Doomed
    <3>3. CASE calls[m].got # None
      <4>1. calls[m].late \/ calls[m].at < calls[n].at
        BY <1>2, <1>4, <2>1, <3>1, <3>3 DEF PageInv, MovesInOrder
      <4> QED BY <2>1, <2>2, <3>3, <4>1 DEF Doomed
    <3> QED BY <3>2, <3>3
  <2>6. CASE Doomed(m)
    <3>1. Late(m) => Late(m)'
      BY <1>1, <1>3, <2>1, <2>3 DEF Late
    <3>2. calls[m].at < seen => calls[m].at < seen'
      BY <1>4, <2>1, <2>2
    <3> QED BY <2>1, <2>6, <3>1, <3>2 DEF Doomed
  <2> QED BY <2>4, <2>5, <2>6
<1>14. BackToServer'
  <2> SUFFICES ASSUME Told', onTop # 0, Moves' = {onTop}, ~calls'[onTop].late, Carriers' = {}
               PROVE  calls'[onTop].prev.order = test.order
    BY <1>1, <1>3 DEF BackToServer
  <2>1. UnderWay(onTop)'
    BY <1>1, CarriersAreNext DEF UnderWay
  <2>2. /\ onTop # n /\ UnderWay(onTop) /\ calls'[onTop] = calls[onTop] /\ ~last /\ Moves = {n, onTop}
    BY <1>1, <1>2, <1>3, <1>9, <2>1
  <2>3. Told /\ calls[n].at >= seen /\ ~calls[n].late /\ seen' = calls[n].at
    BY <1>7, <2>2
  <2>4. ~Doomed(n)
    BY <1>2, <1>4, <2>3 DEF Doomed
  <2>5. ~\E k \in Moves \ {onTop} : k > n
    BY <1>4, <2>2
  <2>6. calls[onTop].prev.order = calls[n].ids
    BY <1>2, <2>2, <2>3, <2>4, <2>5 DEF PageInv, BackToLast
  <2>7. calls[n].got.order = calls[n].ids
    BY <1>1, <1>2, <1>4 DEF CallTrue
  <2>8. calls[n].got = test
    <3>1. seen = version \/ \E k \in Carriers : calls[k].at = version
      BY <2>3 DEF PageInv, LatestComes
    <3>2. calls[n].at = version
      BY <1>3, <1>4, <1>7, <2>3, <3>1
    <3> QED BY <1>7, <3>2
  <2> QED BY <2>2, <2>6, <2>7, <2>8
<1> QED BY <1>6, <1>10, <1>11, <1>12, <1>13, <1>14 DEF PageInv

\* A call that failed: a move goes back to what was there before it.
LEMMA PageFailed ==
    ASSUME Typed, PageInv, NEW n \in DOMAIN calls, Fail(n)
    PROVE  PageInv'
<1>1. UnderWay(n) /\ End(n) /\ UNCHANGED server /\ UNCHANGED seen /\ UNCHANGED list /\ UNCHANGED listStale
  BY FailDoes
<1>2. /\ test' = test /\ version' = version
      /\ DOMAIN calls' = DOMAIN calls /\ \A m \in DOMAIN calls : m # n => calls'[m] = calls[m]
      /\ calls'[n].state = "over" /\ calls'[n].op = calls[n].op
      /\ Carriers' = Carriers \ {n} /\ Moves' = Moves \ {n}
      /\ Carriers \subseteq DOMAIN calls /\ Moves \subseteq DOMAIN calls
  BY <1>1, EndLeaves
<1>3. MovesInOrder'
  BY <1>1, MovesStayInOrder
<1>4. missed' = {} => missed = {}
  BY FailDoes
<1>5. CASE calls[n].op = "move"
  <2>1. /\ page' = calls[n].prev /\ onTop' = 0 /\ (screen' = "login" <=> screen = "login")
        /\ (onTop # n \/ calls[n].late => missed' # {})
        /\ (calls[n].got # None => missed' # {} /\ listMissed')
        /\ (~listMissed' => ~listMissed)
    BY <1>5, FailDoes DEF ShowOnly, Show
  <2>2. OnTopInv' /\ BackToLast' /\ BackToServer'
    BY <2>1 DEF OnTopInv, BackToLast, BackToServer
  <2>3. OnlyMoves' => OnlyMoves
    BY <1>2, <1>5 DEF OnlyMoves
  <2>4. ListTold'
    BY <1>1, <1>2, <2>1, <2>3 DEF PageInv, ListTold
  <2>5. Told' => Told /\ onTop = n /\ onTop # 0 /\ ~calls[n].late /\ Carriers' = Carriers
    <3> SUFFICES ASSUME Told' PROVE Told /\ onTop = n /\ onTop # 0 /\ ~calls[n].late /\ Carriers' = Carriers
      OBVIOUS
    <3>1. Told /\ onTop = n /\ ~calls[n].late /\ calls[n].got = None
      BY <1>4, <2>1 DEF Told
    <3>2. n \notin Carriers
      BY <3>1, CarriersAre DEF Carrier
    <3> QED BY <1>2, <3>1, <3>2, TypedIs
  <2>6. OnTopInv => (Told' => page.is = calls[n].prev.is)
    BY <1>1, <2>5 DEF OnTopInv
  <2>7. LatestComes'
    BY <1>1, <1>2, <2>5 DEF PageInv, LatestComes
  <2>8. AnswersTell'
    <3> SUFFICES ASSUME Told, NEW m \in DOMAIN calls, m # n, calls[m].state # "over", calls[m].got # None,
                        calls[m].at >= seen, Carriers' = Carriers
                 PROVE  \/ calls[m].got.is = test.is
                        \/ \E k \in Carriers : calls'[k].op # "move" /\ calls'[k].at > calls[m].at
      BY <1>1, <1>2, <2>5 DEF AnswersTell, UnderWay
    <3>1. \/ calls[m].got.is = test.is
          \/ \E k \in Carriers : calls[k].op # "move" /\ calls[k].at > calls[m].at
      BY DEF PageInv, AnswersTell, UnderWay
    <3> QED BY <1>2, <1>5, <3>1
  <2>9. FieldsTold'
    BY <1>2, <2>1, <2>3, <2>5, <2>6 DEF PageInv, FieldsTold
  <2>10. OrderTold'
    <3> SUFFICES ASSUME Told', Moves' = {}, Carriers' = {}
                 PROVE  calls[n].prev.order = test.order
      BY <1>2, <2>1 DEF OrderTold
    <3>1. Moves = {onTop} /\ Carriers = {}
      <4>1. n \in Moves
        BY <1>1, <1>5, CarriersAre DEF UnderWay
      <4> QED BY <1>2, <2>5, <4>1
    <3> QED BY <2>5, <3>1 DEF PageInv, BackToServer
  <2> QED BY <1>3, <2>2, <2>4, <2>7, <2>8, <2>9, <2>10 DEF PageInv
<1>6. CASE calls[n].op # "move"
  <2>1. page' = page /\ onTop' = onTop /\ (screen' = "login" <=> screen = "login")
    BY <1>6, FailDoes
  <2>2. CASE Carrier(calls[n])
    <3>1. missed' # {} /\ listMissed'
      BY <2>2, FailDoes DEF Carrier
    <3>2. ~Told'
      BY <3>1 DEF Told
    <3>3. LatestComes' /\ AnswersTell' /\ FieldsTold' /\ BackToLast' /\ BackToServer' /\ OrderTold' /\ ListTold'
      BY <3>1, <3>2 DEF LatestComes, AnswersTell, FieldsTold, BackToLast, BackToServer, OrderTold, ListTold
    <3>4. OnTopInv'
      <4>1. onTop # 0 => onTop \in DOMAIN calls
        BY TypedParts, TypedIs DEF PageOK
      <4>2. onTop # 0 /\ UnderWay(onTop)' => UnderWay(onTop) /\ calls'[onTop] = calls[onTop]
        BY <1>2, <2>1, <4>1 DEF UnderWay
      <4> QED BY <1>2, <2>1, <4>2 DEF PageInv, OnTopInv
    <3> QED BY <1>3, <3>3, <3>4 DEF PageInv
  <2>3. CASE ~Carrier(calls[n])
    <3>1. UNCHANGED missed /\ UNCHANGED listMissed
      <4>1. ~(calls[n].got # None /\ calls[n].op \notin {"read", "check"})
        BY <1>1, <2>3 DEF Carrier, UnderWay
      <4>2. /\ missed' = missed \cup (IF calls[n].got # None /\ calls[n].op \notin {"read", "check"}
                                      THEN {"lost"} ELSE {})
                                \cup (IF calls[n].op = "move" /\ (onTop # n \/ calls[n].late)
                                      THEN {"rollback"} ELSE {})
            /\ listMissed' = (listMissed \/ (calls[n].got # None /\ calls[n].op \notin {"read", "check"}))
        BY DEF Fail
      <4>3. listMissed \in BOOLEAN
        BY TypedParts DEF ScreenOK
      <4>4. missed' = missed
        BY <1>6, <4>1, <4>2
      <4>5. listMissed' = listMissed
        BY <4>1, <4>2, <4>3
      <4> QED BY <4>4, <4>5
    <3>2. UNCHANGED shown
      BY <1>1, <1>2, <2>1, <3>1 DEF shown
    <3>3. SaysNothing
      BY <1>1, <1>6, <2>1, <2>3, <3>2, NothingEnded
    <3> QED BY <3>3, PageStays
  <2> QED BY <2>2, <2>3
<1> QED BY <1>5, <1>6

LEMMA PageStep == Typed /\ PageInv /\ [Next]_vars => PageInv'
<1> SUFFICES ASSUME Typed, PageInv, [Next]_vars
             PROVE  PageInv'
  OBVIOUS
<1>1. CASE UNCHANGED vars
  <2>1. UNCHANGED shown /\ UNCHANGED calls /\ (screen' = "login" <=> screen = "login")
    BY <1>1 DEF vars, shown, server, cache, lists
  <2> QED BY <2>1, NothingCalled, PageStays
<1>2. CASE Next
  <2>1. ASSUME SaysNothing
        PROVE  PageInv'
    BY <2>1, PageStays
  <2> QED BY <1>2, <2>1, Steps, PagePerson, PageServed, PageMove, PageChanges, PageOthers, PageTaken,
             PageTakeMove, PageFailed
<1> QED BY <1>1, <1>2

LEMMA InitPage == Init => PageInv
<1> SUFFICES ASSUME Init PROVE PageInv
  OBVIOUS
<1>1. /\ version = 0 /\ page = test /\ onTop = 0 /\ seen = 0 /\ list = Summary(test) /\ DOMAIN calls = {}
  BY DEF Init
<1>2. LatestComes /\ AnswersTell /\ FieldsTold /\ OnTopInv /\ MovesInOrder
  BY <1>1 DEF LatestComes, AnswersTell, FieldsTold, OnTopInv, MovesInOrder, Moves
<1>3. BackToLast /\ BackToServer /\ OrderTold /\ ListTold
  BY <1>1 DEF BackToLast, BackToServer, OrderTold, ListTold
<1> QED BY <1>2, <1>3 DEF PageInv

\* The inductive invariant of the tab: its types, its forms, the import dialog
\* and what the page will have shown when the calls under way are over.
THEOREM Invariance == Spec => []PInv
<1>1. Init => PInv
  BY InitTyped, InitForms, InitDialog, InitPage DEF PInv, Typed
<1>2. PInv /\ [Next]_vars => PInv'
  <2>1. PInv <=> Typed /\ FormsInv /\ DialogInv /\ PageInv
    BY DEF PInv, Typed
  <2>2. PInv' <=> Typed' /\ FormsInv' /\ DialogInv' /\ PageInv'
    BY DEF PInv, Typed
  <2> QED BY <2>1, <2>2, TypedStep, FormsStep, DialogStep, PageStep
<1> QED BY <1>1, <1>2, PTL DEF Spec

\* When every call has been answered the page shows the test as the server has
\* it, and the library's row tells the same, unless the tab can't know: however
\* many calls overlapped, and in whatever order they were served and answered.
THEOREM PageTrue == Spec => []PageIsTrue
<1>1. PInv => PageIsTrue
  <2> SUFFICES ASSUME PInv, Quiet
               PROVE  /\ missed = {} /\ screen # "login" => page = test
                      /\ screen = "library" /\ ~listStale /\ ~listMissed => list = Summary(test)
    BY DEF PageIsTrue
  <2>1. Carriers = {} /\ Moves = {} /\ OnlyMoves
    BY DEF Quiet, Carriers, Moves, OnlyMoves
  <2>2. test \in Tests /\ page \in Tests
    BY DEF PInv, TypeOK
  <2>3. ASSUME missed = {}, screen # "login"
        PROVE  page = test
    <3>1. page.is = test.is /\ page.order = test.order
      BY <2>1, <2>3 DEF PInv, PageInv, Told, FieldsTold, OrderTold
    <3> QED BY <2>2, <3>1, TestSame
  <2>4. screen = "library" /\ ~listStale /\ ~listMissed => list = Summary(test)
    BY <2>1 DEF PInv, PageInv, ListTold
  <2> QED BY <2>3, <2>4
<1> QED BY <1>1, Invariance, PTL

\* While the last move is under way its order shows, whatever the answers of
\* earlier moves say.
THEOREM LastMoveStays == Spec => []LastMoveShows
<1>1. PInv => LastMoveShows
  BY DEF PInv, PageInv, OnTopInv, LastMoveShows
<1> QED BY <1>1, Invariance, PTL
=============================================================================
