--------------------------- MODULE SentPageProofs ---------------------------
(***************************************************************************)
(* SentPage: what a staff tab shows of the links, and what it shows of its *)
(* own calls, for any number of links, calls and reads under way.          *)
(***************************************************************************)
EXTENDS SentPageInv, FiniteSetTheorems, TLAPS

-----------------------------------------------------------------------------
(* Links only go forward.                                                   *)

TestStates == {"NOT_STARTED", "IN_PROGRESS", "overdue", "SUBMITTED", "EXPIRED"}

\* A link l may have become m: revoked for good, finished tests stay finished.
Ahead(l, m) ==
    /\ m \in Link /\ l.at <= m.at
    /\ l.revoked => m.revoked
    /\ DOMAIN m.tests = DOMAIN l.tests
    /\ Finished(l) \subseteq Finished(m)

Onward(ls, ms) ==
    /\ ms \in Seq(Link) /\ Len(ls) <= Len(ms)
    /\ \A i \in DOMAIN ls : Ahead(ls[i], ms[i])

\* A link's fields, without the union over the sets of tests.
LEMMA LinkShape ==
    ASSUME NEW l
    PROVE  l \in Link <=>
              /\ l = [person |-> l.person, tests |-> l.tests, revoked |-> l.revoked,
                      expired |-> l.expired, sent |-> l.sent, at |-> l.at]
              /\ l.person \in People
              /\ DOMAIN l.tests \in (SUBSET Tests) \ {{}}
              /\ l.tests \in [DOMAIN l.tests -> TestStates]
              /\ l.revoked \in BOOLEAN /\ l.expired \in BOOLEAN /\ l.sent \in BOOLEAN /\ l.at \in Nat
<1> DEFINE T == UNION {[ts -> TestStates] : ts \in (SUBSET Tests) \ {{}}}
<1>1. \A f : f \in T <=> DOMAIN f \in (SUBSET Tests) \ {{}} /\ f \in [DOMAIN f -> TestStates]
  OBVIOUS
<1>2. Link = [person : People, tests : T, revoked : BOOLEAN, expired : BOOLEAN, sent : BOOLEAN,
          at : Nat]
  BY DEF Link, TestStates
<1> HIDE DEF T
<1>3. l \in Link <=>
         /\ l = [person |-> l.person, tests |-> l.tests, revoked |-> l.revoked,
                 expired |-> l.expired, sent |-> l.sent, at |-> l.at]
         /\ l.person \in People /\ l.tests \in T
         /\ l.revoked \in BOOLEAN /\ l.expired \in BOOLEAN /\ l.sent \in BOOLEAN /\ l.at \in Nat
  BY <1>2
<1> QED BY <1>1, <1>3

\* A link with other tests and another finish.
LEMMA LinkWith ==
    ASSUME NEW l \in Link, NEW f, NEW a
    PROVE  [l EXCEPT !.tests = f, !.at = a] =
              [person |-> l.person, tests |-> f, revoked |-> l.revoked,
               expired |-> l.expired, sent |-> l.sent, at |-> a]
<1> DEFINE k == [l EXCEPT !.tests = f]
<1>1. k = [person |-> l.person, tests |-> f, revoked |-> l.revoked,
           expired |-> l.expired, sent |-> l.sent, at |-> l.at]
  BY LinkShape
<1>2. [l EXCEPT !.tests = f, !.at = a] = [k EXCEPT !.at = a]
  OBVIOUS
<1> HIDE DEF k
<1>3. [k EXCEPT !.at = a] = [person |-> l.person, tests |-> f, revoked |-> l.revoked,
                             expired |-> l.expired, sent |-> l.sent, at |-> a]
  BY <1>1
<1> QED BY <1>2, <1>3

LEMMA LinkOf ==
    ASSUME NEW p \in People, NEW ts \in SUBSET Tests, ts # {}, NEW f \in [ts -> TestStates],
           NEW r \in BOOLEAN, NEW e \in BOOLEAN, NEW s \in BOOLEAN, NEW a \in Nat
    PROVE  [person |-> p, tests |-> f, revoked |-> r, expired |-> e, sent |-> s, at |-> a] \in Link
<1>1. ts \in (SUBSET Tests) \ {{}}
  OBVIOUS
<1>2. [ts -> TestStates] \in {[us -> TestStates] : us \in (SUBSET Tests) \ {{}}}
  BY <1>1
<1>3. f \in UNION {[us -> TestStates] : us \in (SUBSET Tests) \ {{}}}
  BY <1>2
<1> QED BY <1>3 DEF Link, TestStates

LEMMA AheadSelf ==
    ASSUME NEW l \in Link
    PROVE  Ahead(l, l)
<1>1. l.at \in Nat
  BY LinkShape
<1> QED BY <1>1 DEF Ahead

\* The sweep closes what is overdue and leaves everything else alone.
LEMMA SweptAhead ==
    ASSUME NEW l \in Link, NEW now \in Nat, l.at < now
    PROVE  /\ Ahead(l, Swept(l, now))
           /\ Swept(l, now).revoked = l.revoked /\ Swept(l, now).expired = l.expired
<1> DEFINE f == [t \in DOMAIN l.tests |-> IF l.tests[t] = "overdue" THEN "EXPIRED" ELSE l.tests[t]]
           a == IF \E t \in DOMAIN l.tests : l.tests[t] = "overdue" THEN now ELSE l.at
<1>1. /\ l = [person |-> l.person, tests |-> l.tests, revoked |-> l.revoked,
              expired |-> l.expired, sent |-> l.sent, at |-> l.at]
      /\ l.person \in People
      /\ DOMAIN l.tests \in (SUBSET Tests) \ {{}}
      /\ l.tests \in [DOMAIN l.tests -> TestStates]
      /\ l.revoked \in BOOLEAN /\ l.expired \in BOOLEAN /\ l.sent \in BOOLEAN /\ l.at \in Nat
  BY LinkShape
<1>2. f \in [DOMAIN l.tests -> TestStates] /\ a \in Nat /\ l.at <= a
  BY <1>1 DEF TestStates
<1>3. Swept(l, now) = [l EXCEPT !.tests = f, !.at = a]
  BY DEF Swept
<1>4. \A t \in DOMAIN l.tests : l.tests[t] \in {"SUBMITTED", "EXPIRED"} => f[t] \in {"SUBMITTED", "EXPIRED"}
  OBVIOUS
<1>5. DOMAIN f = DOMAIN l.tests
  OBVIOUS
<1> HIDE DEF f, a
<1>6. [l EXCEPT !.tests = f, !.at = a] =
         [person |-> l.person, tests |-> f, revoked |-> l.revoked,
          expired |-> l.expired, sent |-> l.sent, at |-> a]
  BY LinkWith
<1>7. Swept(l, now) \in Link
  <2>1. DOMAIN l.tests \in SUBSET Tests /\ DOMAIN l.tests # {}
    BY <1>1
  <2> QED BY <1>1, <1>2, <1>3, <1>6, <2>1, LinkOf
<1>8. Finished(l) \subseteq Finished(Swept(l, now))
  BY <1>3, <1>4, <1>5, <1>6 DEF Finished
<1> QED BY <1>2, <1>3, <1>5, <1>6, <1>7, <1>8 DEF Ahead

\* A test that isn't finished moves on.
LEMMA MoveAhead ==
    ASSUME NEW l \in Link, NEW t \in DOMAIN l.tests, NEW to \in TestStates, NEW a \in Nat, l.at <= a,
           l.tests[t] \notin {"SUBMITTED", "EXPIRED"}
    PROVE  Ahead(l, [l EXCEPT !.tests[t] = to, !.at = a])
<1> DEFINE f == [l.tests EXCEPT ![t] = to]  m == [l EXCEPT !.tests[t] = to, !.at = a]
<1>1. /\ l = [person |-> l.person, tests |-> l.tests, revoked |-> l.revoked,
              expired |-> l.expired, sent |-> l.sent, at |-> l.at]
      /\ l.person \in People
      /\ DOMAIN l.tests \in (SUBSET Tests) \ {{}}
      /\ l.tests \in [DOMAIN l.tests -> TestStates]
      /\ l.revoked \in BOOLEAN /\ l.expired \in BOOLEAN /\ l.sent \in BOOLEAN /\ l.at \in Nat
  BY LinkShape
<1>2. m = [l EXCEPT !.tests = f, !.at = a]
  BY <1>1
<1>3. f \in [DOMAIN l.tests -> TestStates] /\ DOMAIN f = DOMAIN l.tests
  BY <1>1
<1>4. \A u \in DOMAIN l.tests : l.tests[u] \in {"SUBMITTED", "EXPIRED"} => f[u] \in {"SUBMITTED", "EXPIRED"}
  BY <1>1
<1> HIDE DEF f
<1>5. [l EXCEPT !.tests = f, !.at = a] =
         [person |-> l.person, tests |-> f, revoked |-> l.revoked,
          expired |-> l.expired, sent |-> l.sent, at |-> a]
  BY LinkWith
<1> HIDE DEF m
<1>6. m \in Link
  BY <1>1, <1>2, <1>3, <1>5, LinkOf
<1>7. Finished(l) \subseteq Finished(m)
  BY <1>2, <1>3, <1>4, <1>5 DEF Finished
<1>8. Ahead(l, m)
  BY <1>2, <1>3, <1>5, <1>6, <1>7 DEF Ahead
<1> QED BY <1>8 DEF m

\* The flags are set: revoked only to true.
LEMMA FlagsAhead ==
    ASSUME NEW l \in Link, NEW b, NEW m
    PROVE  b \in BOOLEAN /\ m \in BOOLEAN =>
              /\ Ahead(l, [l EXCEPT !.revoked = TRUE])
              /\ Ahead(l, [l EXCEPT !.expired = b])
              /\ Ahead(l, [l EXCEPT !.expired = b, !.sent = m])
<1> DEFINE p == l.person f == l.tests r == l.revoked e == l.expired s == l.sent a == l.at
<1>0. /\ l = [person |-> p, tests |-> f, revoked |-> r, expired |-> e, sent |-> s, at |-> a]
      /\ p \in People /\ DOMAIN f \in (SUBSET Tests) \ {{}}
      /\ f \in [DOMAIN f -> TestStates]
      /\ r \in BOOLEAN /\ e \in BOOLEAN /\ s \in BOOLEAN /\ a \in Nat
  BY LinkShape
<1> HIDE DEF p, f, r, e, s, a
<1>1. [l EXCEPT !.revoked = TRUE] = [person |-> p, tests |-> f, revoked |-> TRUE, expired |-> e, sent |-> s, at |-> a]
  <2> DEFINE yes == TRUE
  <2> HIDE DEF yes
  <2>1. [l EXCEPT !.revoked = yes] = [person |-> p, tests |-> f, revoked |-> yes, expired |-> e, sent |-> s, at |-> a]
    BY <1>0
  <2> QED BY <2>1, Zenon DEF yes
<1>2. [l EXCEPT !.expired = b] = [person |-> p, tests |-> f, revoked |-> r, expired |-> b, sent |-> s, at |-> a]
  BY <1>0
<1>3. [l EXCEPT !.expired = b, !.sent = m] =
         [person |-> p, tests |-> f, revoked |-> r, expired |-> b, sent |-> m, at |-> a]
  <2> DEFINE k == [l EXCEPT !.expired = b]
  <2>1. k = [person |-> p, tests |-> f, revoked |-> r, expired |-> b, sent |-> s, at |-> a]
    BY <1>2
  <2>2. [l EXCEPT !.expired = b, !.sent = m] = [k EXCEPT !.sent = m]
    OBVIOUS
  <2> HIDE DEF k
  <2>3. [k EXCEPT !.sent = m] = [person |-> p, tests |-> f, revoked |-> r, expired |-> b, sent |-> m, at |-> a]
    BY <2>1
  <2> QED BY <2>2, <2>3
<1>5. ASSUME NEW R \in BOOLEAN, NEW E \in BOOLEAN, NEW S \in BOOLEAN, r => R
      PROVE  Ahead(l, [person |-> p, tests |-> f, revoked |-> R, expired |-> E, sent |-> S, at |-> a])
  <2> DEFINE k == [person |-> p, tests |-> f, revoked |-> R, expired |-> E, sent |-> S, at |-> a]
  <2>1. k \in Link
    BY <1>0, <1>5, LinkOf
  <2>2. l.revoked = r /\ k.revoked = R /\ l.tests = f /\ k.tests = f /\ l.at = a /\ k.at = a /\ l.at <= k.at
    BY <1>0
  <2> HIDE DEF k
  <2>3. Finished(l) = Finished(k)
    BY <2>2 DEF Finished
  <2>4. Ahead(l, k)
    BY <1>5, <2>1, <2>2, <2>3, Zenon DEF Ahead
  <2> QED BY <2>4 DEF k
<1>6. b \in BOOLEAN /\ m \in BOOLEAN =>
         /\ Ahead(l, [person |-> p, tests |-> f, revoked |-> TRUE, expired |-> e, sent |-> s, at |-> a])
         /\ Ahead(l, [person |-> p, tests |-> f, revoked |-> r, expired |-> b, sent |-> s, at |-> a])
         /\ Ahead(l, [person |-> p, tests |-> f, revoked |-> r, expired |-> b, sent |-> m, at |-> a])
  BY <1>0, <1>5
<1> QED BY <1>1, <1>2, <1>3, <1>6, Zenon

LEMMA AheadTwice ==
    ASSUME NEW l \in Link, NEW k, NEW m, Ahead(l, k), Ahead(k, m)
    PROVE  Ahead(l, m)
<1>1. l.at \in Nat /\ k.at \in Nat /\ m.at \in Nat
  BY LinkShape DEF Ahead
<1> QED BY <1>1 DEF Ahead

LEMMA NewLinkFits ==
    ASSUME NEW p \in People, NEW ts \in SUBSET Tests, ts # {}, NEW m \in BOOLEAN
    PROVE  NewLink(p, ts, m) \in Link
<1> DEFINE f == [t \in ts |-> "NOT_STARTED"]
<1>1. DOMAIN f = ts /\ f \in [ts -> TestStates]
  BY DEF TestStates
<1>2. NewLink(p, ts, m) = [person |-> p, tests |-> f, revoked |-> FALSE, expired |-> FALSE, sent |-> m,
                            at |-> 0]
  BY DEF NewLink
<1> HIDE DEF f
<1> QED BY <1>1, <1>2, LinkOf

LEMMA OnwardSelf ==
    ASSUME NEW ls \in Seq(Link)
    PROVE  Onward(ls, ls)
BY AheadSelf DEF Onward

LEMMA OneOnward ==
    ASSUME NEW ls \in Seq(Link), NEW i \in DOMAIN ls, NEW l, Ahead(ls[i], l)
    PROVE  Onward(ls, [ls EXCEPT ![i] = l]) /\ Len([ls EXCEPT ![i] = l]) = Len(ls)
<1> DEFINE ms == [ls EXCEPT ![i] = l]
<1>1. l \in Link
  BY DEF Ahead
<1>2. ms \in Seq(Link) /\ Len(ms) = Len(ls)
  BY <1>1
<1>3. ASSUME NEW j \in DOMAIN ls
      PROVE  Ahead(ls[j], ms[j])
  BY AheadSelf
<1> QED BY <1>2, <1>3 DEF Onward

LEMMA LastOnward ==
    ASSUME NEW ls \in Seq(Link), NEW l \in Link
    PROVE  Onward(ls, Append(ls, l)) /\ Len(Append(ls, l)) = Len(ls) + 1
<1>1. ASSUME NEW j \in DOMAIN ls
      PROVE  Ahead(ls[j], Append(ls, l)[j])
  BY AheadSelf
<1> QED BY <1>1 DEF Onward

LEMMA NowAhead ==
    ASSUME NEW now \in Now
    PROVE  now \in Nat /\ \A i \in DOMAIN links : links[i].at < now
<1>1. \A n : n \in 1 .. MaxLinks * Cardinality(Tests) + 1 => n \in Nat
  OBVIOUS
<1> QED BY <1>1 DEF Now

LEMMA AllOnward ==
    ASSUME NEW v, links \in Seq(Link), NEW now \in Now
    PROVE  Onward(links, SweptFor(v, now)) /\ Len(SweptFor(v, now)) = Len(links)
<1>1. ASSUME NEW i \in DOMAIN links
      PROVE  Ahead(links[i], SweptFor(v, now)[i])
  <2>1. links[i] \in Link
    OBVIOUS
  <2>2. SweptFor(v, now)[i] = IF v \in {Home, List, Detail(i)} THEN Swept(links[i], now) ELSE links[i]
    BY DEF SweptFor
  <2> QED BY <2>1, <2>2, NowAhead, AheadSelf, SweptAhead
<1>2. DOMAIN SweptFor(v, now) = DOMAIN links /\ Len(SweptFor(v, now)) = Len(links)
  BY DEF SweptFor
<1>3. \A i \in DOMAIN links : SweptFor(v, now)[i] \in Link
  BY <1>1 DEF Ahead
<1>4. SweptFor(v, now) = [i \in DOMAIN links |-> SweptFor(v, now)[i]]
  BY DEF SweptFor
<1>5. SweptFor(v, now) \in Seq(Link)
  BY <1>3, <1>4, Len(links) \in Nat, DOMAIN links = 1 .. Len(links)
<1> QED BY <1>1, <1>2, <1>5 DEF Onward

-----------------------------------------------------------------------------
(* Views, rows and what a read returns.                                     *)

LEMMA ViewNames ==
    /\ Home \in Views /\ List \in Views /\ Home # List
    /\ \A i \in Ids : Detail(i) \in Views
    /\ \A i : Detail(i) # Home /\ Detail(i) # List /\ Detail(i)[2] = i
    /\ \A v \in Views : v = Home \/ v = List \/ \E i \in Ids : v = Detail(i)
BY DEF Home, List, Detail, Views

LEMMA RowsBounded ==
    ASSUME NEW d
    PROVE  d \in BoundedSeq(Rows, MaxLinks) <=> d \in Seq(Rows) /\ Len(d) <= MaxLinks
<1>1. ASSUME d \in BoundedSeq(Rows, MaxLinks)
      PROVE  d \in Seq(Rows) /\ Len(d) <= MaxLinks
  <2>1. PICK k \in 0 .. MaxLinks : d \in [1 .. k -> Rows]
    BY <1>1 DEF BoundedSeq, SeqOf
  <2>2. k \in Nat /\ k <= MaxLinks
    BY SentPageAssumption
  <2> QED BY <2>1, <2>2
<1>2. ASSUME d \in Seq(Rows), Len(d) <= MaxLinks
      PROVE  d \in BoundedSeq(Rows, MaxLinks)
  <2>1. Len(d) \in 0 .. MaxLinks /\ d \in [1 .. Len(d) -> Rows]
    BY <1>2, SentPageAssumption
  <2> QED BY <2>1 DEF BoundedSeq, SeqOf
<1> QED BY <1>1, <1>2

LEMMA RowFits ==
    ASSUME NEW l \in Link
    PROVE  Row(l) \in Rows /\ RowTrue(Row(l), l)
<1>1. DOMAIN l.tests \in SUBSET Tests /\ l.sent \in BOOLEAN /\ l.revoked \in BOOLEAN
  BY LinkShape
<1>2. Finished(l) \in SUBSET Tests
  BY <1>1 DEF Finished
<1>3. invitationStatus(l) \in {"NOT_STARTED", "IN_PROGRESS", "COMPLETED", "EXPIRED", "REVOKED"}
  BY DEF invitationStatus
<1>4. Row(l) \in Rows
  BY <1>1, <1>2, <1>3 DEF Row, Rows
<1>5. /\ invitationStatus(l) = "REVOKED" => l.revoked
      /\ invitationStatus(l) = "COMPLETED" => Unfinished(l) = {}
  BY DEF invitationStatus
<1>6. Row(l).status = invitationStatus(l)
  BY DEF Row
<1> QED BY <1>4, <1>5, <1>6 DEF RowTrue

LEMMA RowOnward ==
    ASSUME NEW row, NEW l, NEW m, Ahead(l, m), RowTrue(row, l)
    PROVE  RowTrue(row, m)
<1>1. Unfinished(l) = {} => Unfinished(m) = {}
  BY DEF Ahead, Unfinished
<1> QED BY <1>1 DEF Ahead, RowTrue

LEMMA RowStays ==
    ASSUME NEW row, NEW l, RowTrue(row, l)
    PROVE  RowKept(row, Row(l))
<1>1. l.revoked => invitationStatus(l) = "REVOKED"
  BY DEF invitationStatus
<1>2. Unfinished(l) = {} => invitationStatus(l) \in {"COMPLETED", "REVOKED"}
  BY DEF invitationStatus
<1>3. Row(l).status = invitationStatus(l)
  BY DEF Row
<1> QED BY <1>1, <1>2, <1>3 DEF RowTrue, RowKept

\* What the home page lists is of links that are there, and a link it leaves out
\* has nothing to list, or as many as it takes finished no earlier.
LEMMA ResultsFit ==
    ASSUME NEW ls \in Seq(Link), Len(ls) <= MaxLinks, NEW rs \in recentResults(ls)
    PROVE  /\ rs \in SUBSET [link : Ids, done : SUBSET Tests, at : Nat]
           /\ \A r \in rs : /\ r.link \in DOMAIN ls /\ r.done = Finished(ls[r.link]) /\ r.done # {}
                            /\ r.at = ls[r.link].at /\ r.at \in Nat
           /\ \A i \in DOMAIN ls :
                 \/ ls[i].revoked \/ Finished(ls[i]) = {}
                 \/ \E r \in rs : r.link = i /\ r.done = Finished(ls[i])
                 \/ Cardinality(rs) = RECENT_RESULTS /\ \A r \in rs : r.at >= ls[i].at
<1> DEFINE of(i) == [link |-> i, done |-> Finished(ls[i]), at |-> ls[i].at]
           ended == {i \in DOMAIN ls : ~ls[i].revoked /\ Finished(ls[i]) # {}}
           all == {of(i) : i \in ended}
<1>1. /\ Results(ls) = all /\ rs \subseteq all
      /\ Cardinality(rs) = IF Cardinality(all) > RECENT_RESULTS THEN RECENT_RESULTS ELSE Cardinality(all)
      /\ \A r \in rs, s \in all \ rs : r.at >= s.at
  BY DEF recentResults, Results
<1>2. DOMAIN ls = 1 .. Len(ls) /\ Len(ls) \in Nat /\ DOMAIN ls \subseteq Ids
  BY SentPageAssumption DEF Ids
<1>3. ASSUME NEW i \in DOMAIN ls
      PROVE  Finished(ls[i]) \in SUBSET Tests /\ ls[i].at \in Nat
  <2>1. ls[i] \in Link
    OBVIOUS
  <2> QED BY <2>1, LinkShape DEF Finished
<1>4. ASSUME NEW r \in all
      PROVE  /\ r \in [link : Ids, done : SUBSET Tests, at : Nat]
             /\ r.link \in DOMAIN ls /\ r.done = Finished(ls[r.link]) /\ r.done # {}
             /\ r.at = ls[r.link].at /\ r.at \in Nat
  BY <1>2, <1>3
<1>5. IsFiniteSet(all)
  <2> DEFINE f == [i \in ended |-> of(i)]
  <2>1. IsFiniteSet(DOMAIN ls)
    BY <1>2, FS_Interval
  <2>2. IsFiniteSet(ended)
    BY <2>1, FS_Subset
  <2>3. f \in Surjection(ended, all)
    BY DEF Surjection
  <2> QED BY <2>2, <2>3, FS_Surjection
<1>6. ASSUME NEW i \in ended, of(i) \notin rs
      PROVE  Cardinality(rs) = RECENT_RESULTS /\ \A r \in rs : r.at >= ls[i].at
  <2>1. of(i) \in all /\ of(i).at = ls[i].at
    BY <1>6
  <2>2. rs # all
    BY <1>6, <2>1
  <2>3. Cardinality(rs) # Cardinality(all)
    BY <1>1, <1>5, <2>2, FS_Subset
  <2>4. \A r \in rs : r.at >= ls[i].at
    BY <1>1, <1>6, <2>1
  <2> QED BY <1>1, <2>3, <2>4
<1>7. \A i \in ended : of(i).link = i /\ of(i).done = Finished(ls[i])
  OBVIOUS
<1>8. \A i \in DOMAIN ls : i \in ended \/ ls[i].revoked \/ Finished(ls[i]) = {}
  OBVIOUS
<1>9. \A r \in rs : r \in all
  BY <1>1
<1> HIDE DEF all, ended, of
<1>10. rs \in SUBSET [link : Ids, done : SUBSET Tests, at : Nat]
  BY <1>4, <1>9
<1> QED BY <1>4, <1>6, <1>7, <1>8, <1>9, <1>10

\* A read finds what is true of the links, and nothing of what was shown is
\* taken back by it.
LEMMA ContentFits ==
    ASSUME NEW ls \in Seq(Link), Len(ls) <= MaxLinks, NEW v \in Views, NEW C \in Contents(v, ls),
           \A i \in Ids : v = Detail(i) => i \in DOMAIN ls
    PROVE  /\ C \in Data(v) /\ C # None
           /\ Still(ls, v, C)
           /\ \A d : Still(ls, v, d) => Kept(ls, v, d, C)
<1>1. C \in Data(v) => C # None
  BY NoneAssumption DEF Data
<1>2. CASE v = Home
  <2> DEFINE D == DOMAIN ls
  <2>1. PICK rs \in recentResults(ls) : C = [counts |-> countLinks(ls), recent |-> rs]
    BY <1>2 DEF Contents, Dashboard
  <2>2. D = 1 .. Len(ls) /\ Len(ls) \in Nat /\ Len(ls) \in 0 .. MaxLinks /\ D \subseteq Ids
    BY SentPageAssumption DEF Ids
  <2>3. \A s : Cardinality({i \in D : invitationStatus(ls[i]) = s}) \in 0 .. MaxLinks
    <3> SUFFICES ASSUME NEW s
                 PROVE  Cardinality({i \in D : invitationStatus(ls[i]) = s}) \in 0 .. MaxLinks
      OBVIOUS
    <3> DEFINE S == {i \in D : invitationStatus(ls[i]) = s}
    <3>1. IsFiniteSet(D) /\ Cardinality(D) = Len(ls)
      <4>1. IsFiniteSet(1 .. Len(ls)) /\ Cardinality(1 .. Len(ls)) = IF 1 > Len(ls) THEN 0 ELSE Len(ls) - 1 + 1
        BY <2>2, FS_Interval
      <4> QED BY <2>2, <4>1
    <3>2. S \subseteq D
      OBVIOUS
    <3>3. IsFiniteSet(S) /\ Cardinality(S) <= Cardinality(D)
      BY <3>1, <3>2, FS_Subset
    <3>4. Cardinality(S) \in Nat
      BY <3>3, FS_CardinalityType
    <3> QED BY <2>2, <3>1, <3>3, <3>4, SentPageAssumption
  <2>4. countLinks(ls) \in [{"NOT_STARTED", "IN_PROGRESS", "COMPLETED", "EXPIRED"} -> 0 .. MaxLinks]
    BY <2>3 DEF countLinks
  <2>5. /\ rs \in SUBSET [link : Ids, done : SUBSET Tests, at : Nat]
        /\ \A r \in rs : /\ r.link \in D /\ r.done = Finished(ls[r.link]) /\ r.done # {}
                         /\ r.at = ls[r.link].at /\ r.at \in Nat
        /\ \A i \in D :
              \/ ls[i].revoked \/ Finished(ls[i]) = {}
              \/ \E r \in rs : r.link = i /\ r.done = Finished(ls[i])
              \/ Cardinality(rs) = RECENT_RESULTS /\ \A r \in rs : r.at >= ls[i].at
    BY <2>2, ResultsFit
  <2>7. C \in Data(v)
    BY <1>2, <2>1, <2>4, <2>5 DEF Data, Dashboards
  <2>8. C.recent = rs
    BY <2>1
  <2>9. Still(ls, v, C)
    BY <1>2, <2>5, <2>8 DEF Still
  <2>10. ASSUME NEW d, Still(ls, v, d), NEW r \in d.recent, ~ls[r.link].revoked
         PROVE  \/ \E s \in rs : s.link = r.link /\ r.done \subseteq s.done
                \/ Cardinality(rs) = RECENT_RESULTS /\ \A s \in rs : s.at >= r.at
    <3> DEFINE i == r.link
    <3>1. i \in D /\ r.done \subseteq Finished(ls[i]) /\ r.done # {} /\ r.at \in 0 .. ls[i].at
      BY <1>2, <2>10 DEF Still
    <3>2. CASE \E s \in rs : s.link = i /\ s.done = Finished(ls[i])
      BY <3>1, <3>2
    <3>3. CASE Cardinality(rs) = RECENT_RESULTS /\ \A s \in rs : s.at >= ls[i].at
      <4>1. ASSUME NEW s \in rs PROVE s.at >= r.at
        <5>1. ls[i].at \in Nat /\ s.at \in Nat /\ s.at >= ls[i].at
          BY <2>5, <3>1, <3>3, <4>1, LinkShape
        <5> QED BY <3>1, <5>1
      <4> QED BY <3>3, <4>1
    <3> QED BY <2>5, <2>10, <3>1, <3>2, <3>3
  <2>11. ASSUME NEW d, Still(ls, v, d)
         PROVE  Kept(ls, v, d, C)
    BY <1>2, <2>8, <2>10, <2>11 DEF Kept
  <2> QED BY <1>1, <2>7, <2>9, <2>11
<1>3. CASE v = List
  <2>1. C = [i \in DOMAIN ls |-> Row(ls[i])] /\ v # Home
    BY <1>3, ViewNames DEF Contents
  <2>2. \A i \in DOMAIN ls : C[i] = Row(ls[i]) /\ C[i] \in Rows /\ RowTrue(C[i], ls[i])
    BY <2>1, RowFits
  <2>3. DOMAIN ls = 1 .. Len(ls) /\ Len(ls) \in Nat
    OBVIOUS
  <2>4. C \in Seq(Rows) /\ Len(C) = Len(ls) /\ DOMAIN C = DOMAIN ls
    BY <2>1, <2>2, <2>3
  <2>5. C \in Data(v)
    BY <1>3, <2>1, <2>4, RowsBounded DEF Data
  <2>6. Still(ls, v, C)
    BY <1>3, <2>1, <2>2, <2>4 DEF Still
  <2>7. ASSUME NEW d, Still(ls, v, d)
        PROVE  Kept(ls, v, d, C)
    <3>1. Len(d) <= Len(ls) /\ \A i \in DOMAIN d : RowTrue(d[i], ls[i])
      BY <1>3, <2>1, <2>7 DEF Still
    <3> QED BY <1>3, <2>1, <2>2, <2>4, <3>1, RowStays DEF Kept
  <2> QED BY <1>1, <2>5, <2>6, <2>7
<1>4. CASE \E i \in Ids : v = Detail(i)
  <2>1. PICK i \in Ids : v = Detail(i)
    BY <1>4
  <2>2. v # Home /\ v # List /\ v[2] = i /\ ls[i] \in Link
    BY <2>1, ViewNames
  <2>3. C = Row(ls[i])
    BY <2>2 DEF Contents
  <2> QED BY <1>1, <2>2, <2>3, RowFits, RowStays DEF Data, Still, Kept
<1> QED BY <1>2, <1>3, <1>4, ViewNames

LEMMA StillOnward ==
    ASSUME NEW ls, NEW ms, Onward(ls, ms), ls \in Seq(Link), NEW v \in Views, NEW d \in Data(v),
           \A i \in Ids : v = Detail(i) => i \in DOMAIN ls, Still(ls, v, d)
    PROVE  Still(ms, v, d)
<1>1. ms \in Seq(Link) /\ DOMAIN ls \subseteq DOMAIN ms /\ \A i \in DOMAIN ls : Ahead(ls[i], ms[i])
  BY DEF Onward
<1>2. CASE v = Home
  <2>1. ASSUME NEW i \in DOMAIN ls
        PROVE  ls[i].at \in Nat /\ ms[i].at \in Nat /\ ls[i].at <= ms[i].at /\ Finished(ls[i]) \subseteq Finished(ms[i])
    BY <1>1, LinkShape DEF Ahead
  <2>2. ASSUME NEW r \in d.recent
        PROVE  /\ r.link \in DOMAIN ms /\ r.at \in 0 .. ms[r.link].at
               /\ r.done \subseteq Finished(ms[r.link]) /\ r.done # {}
    <3>1. /\ r.link \in DOMAIN ls /\ r.at \in 0 .. ls[r.link].at
          /\ r.done \subseteq Finished(ls[r.link]) /\ r.done # {}
      BY <1>2 DEF Still
    <3> QED BY <1>1, <2>1, <3>1
  <2> QED BY <1>2, <2>2 DEF Still
<1>3. CASE v = List
  <2>1. v # Home /\ d \in Seq(Rows)
    BY <1>3, ViewNames, RowsBounded DEF Data
  <2>2. Len(d) <= Len(ls) /\ \A i \in DOMAIN d : RowTrue(d[i], ls[i])
    BY <1>3, <2>1 DEF Still
  <2>3. DOMAIN d \subseteq DOMAIN ls /\ Len(d) <= Len(ms)
    BY <2>1, <2>2 DEF Onward
  <2> QED BY <1>1, <1>3, <2>1, <2>2, <2>3, RowOnward DEF Still
<1>4. CASE \E i \in Ids : v = Detail(i)
  <2>1. PICK i \in Ids : v = Detail(i)
    BY <1>4
  <2>2. v # Home /\ v # List /\ v[2] = i /\ i \in DOMAIN ls
    BY <2>1, ViewNames
  <2> QED BY <1>1, <2>2, RowOnward DEF Still
<1> QED BY <1>2, <1>3, <1>4, ViewNames

LEMMA KeptOnward ==
    ASSUME NEW ls, NEW ms, Onward(ls, ms), NEW v, NEW d, NEW e, Still(ls, v, d), Kept(ls, v, d, e)
    PROVE  Kept(ms, v, d, e)
<1>1. \A i \in DOMAIN ls : ls[i].revoked => ms[i].revoked
  BY DEF Onward, Ahead
<1> QED BY <1>1 DEF Still, Kept

-----------------------------------------------------------------------------
(* The invariant in three parts: the calls, the page and the views.         *)

CallsOK ==
    /\ links \in Seq(Link) /\ writes \in Nat /\ own \in Nat /\ own <= writes
    /\ calls \in Seq(CallShape) /\ \A n \in DOMAIN calls : CallTrue(links, writes, calls[n])
    /\ Len(links) + Cardinality(Sending) <= MaxLinks

PageOK ==
    /\ screen \in {"home", "library", "sent", "results"}
    /\ viewed \in 0 .. Len(links) /\ (screen = "results") = (viewed # 0)
    /\ dialog \in [kind : {"none", "send", "resend", "revoke"}, link : Nat, call : Nat, done : BOOLEAN]
    /\ dialog.kind \in {"resend", "revoke"} => dialog.link \in DOMAIN links
    /\ dialog.call \in 0 .. Len(calls) /\ revoking \in 0 .. Len(calls)

ViewsOK ==
    /\ DOMAIN query = Views
    /\ \A v \in Views : query[v] \in Entry(v) /\ query[v].at <= writes /\ query[v].gotAt <= writes
    /\ ReadsOfLinks /\ CacheTrue
    /\ \A v \in Views \ {Home} : Fresh(v)

LEMMA SendingFinite ==
    ASSUME calls \in Seq(CallShape)
    PROVE  IsFiniteSet(Sending) /\ Cardinality(Sending) \in Nat
<1>1. IsFiniteSet(1 .. Len(calls))
  BY FS_Interval
<1>2. Sending \subseteq 1 .. Len(calls)
  BY DEF Sending
<1> QED BY <1>1, <1>2, FS_Subset, FS_CardinalityType

LEMMA Parts ==
    ASSUME SInv
    PROVE  CallsOK /\ PageOK /\ ViewsOK /\ Len(links) \in 0 .. MaxLinks
<1>1. CallsOK
  BY DEF SInv, TypeOK, Shapes, CallsOK
<1>2. PageOK
  BY DEF SInv, TypeOK, Shapes, PageOK
<1>3. ViewsOK
  BY DEF SInv, TypeOK, Shapes, ViewsOK
<1>4. Len(links) \in 0 .. MaxLinks
  BY SentPageAssumption DEF SInv, TypeOK
<1> QED BY <1>1, <1>2, <1>3, <1>4

LEMMA Whole ==
    ASSUME CallsOK, PageOK, ViewsOK
    PROVE  SInv
<1>1. Len(links) \in Nat /\ Cardinality(Sending) \in Nat
  BY SendingFinite DEF CallsOK
<1>2. Len(links) <= MaxLinks
  BY <1>1, SentPageAssumption DEF CallsOK
<1>3. ASSUME NEW v \in Views
      PROVE  /\ query[v].read \in {"idle", "asked", "back"}
             /\ query[v].at <= writes /\ query[v].gotAt <= writes
             /\ query[v].data # None =>
                   query[v].data \in IF v = Home THEN Dashboards
                                     ELSE IF v = List THEN BoundedSeq(Rows, MaxLinks) ELSE Rows
  BY DEF ViewsOK, Entry, Data
<1>4. TypeOK
  BY <1>2, <1>3 DEF TypeOK, CallsOK, PageOK
<1>5. Shapes
  BY DEF Shapes, CallsOK, PageOK, ViewsOK
<1> QED BY <1>4, <1>5 DEF SInv, ViewsOK

LEMMA WholeNext == (CallsOK /\ PageOK /\ ViewsOK)' => SInv'
BY Whole, PTL

-----------------------------------------------------------------------------
(* What a step leaves alone.                                                *)

\* The parts of the views that no read changes but one that is served or taken.
Quiet ==
    \A v \in Views :
        /\ query'[v].data = query[v].data
        /\ query'[v].read = "back" => query[v].read = "back" /\ query'[v].got = query[v].got

LEMMA CacheStays ==
    ASSUME CallsOK, ViewsOK, Onward(links, links'), Quiet
    PROVE  CacheTrue'
<1> SUFFICES ASSUME NEW v \in Views
             PROVE  EntryTrue(links', v, query'[v])
  BY DEF CacheTrue
<1> DEFINE q == query[v] r == query'[v]
<1>1. r.data = q.data /\ (r.read = "back" => q.read = "back" /\ r.got = q.got)
  BY DEF Quiet
<1>2. /\ q.data \in Data(v) \cup {None} /\ q.got \in Data(v) \cup {None}
      /\ q.read \in {"idle", "asked", "back"}
  BY DEF ViewsOK, Entry
<1>3. q.data # None \/ q.read # "idle" => \A i \in Ids : v = Detail(i) => i \in DOMAIN links
  BY DEF ViewsOK, ReadsOfLinks
<1>4. EntryTrue(links, v, q)
  BY DEF ViewsOK, CacheTrue
<1>5. links \in Seq(Link)
  BY DEF CallsOK
<1> HIDE DEF q, r
<1>6. r.data # None => Still(links', v, r.data)
  BY <1>1, <1>2, <1>3, <1>4, <1>5, StillOnward DEF EntryTrue
<1>7. r.read = "back" => r.got # None /\ Still(links', v, r.got)
  BY <1>1, <1>2, <1>3, <1>4, <1>5, StillOnward DEF EntryTrue
<1>8. r.read = "back" /\ r.data # None => Kept(links', v, r.data, r.got)
  BY <1>1, <1>4, KeptOnward DEF EntryTrue
<1>9. EntryTrue(links', v, r)
  BY <1>6, <1>7, <1>8 DEF EntryTrue
<1> QED BY <1>9 DEF r

LEMMA ViewsStay ==
    ASSUME CallsOK, ViewsOK, Onward(links, links'), writes' \in Nat, writes <= writes',
           UNCHANGED <<query, own, screen, viewed>>
    PROVE  ViewsOK'
<1>1. Quiet
  BY DEF Quiet
<1>2. CacheTrue'
  BY <1>1, CacheStays
<1>3. \A v \in Views : query'[v] \in Entry(v) /\ query'[v].at <= writes' /\ query'[v].gotAt <= writes'
  <2> SUFFICES ASSUME NEW v \in Views
               PROVE  query'[v] \in Entry(v) /\ query'[v].at <= writes' /\ query'[v].gotAt <= writes'
    OBVIOUS
  <2>1. query[v] \in Entry(v) /\ query[v].at <= writes /\ query[v].gotAt <= writes /\ writes \in Nat
    BY DEF ViewsOK, CallsOK
  <2>2. query[v].at \in Nat /\ query[v].gotAt \in Nat
    BY <2>1 DEF Entry
  <2> QED BY <2>1, <2>2
<1>4. ReadsOfLinks'
  <2>1. DOMAIN links \subseteq DOMAIN links'
    BY DEF Onward, CallsOK
  <2> QED BY <2>1 DEF ViewsOK, ReadsOfLinks
<1>5. \A v \in Views \ {Home} : Fresh(v)'
  BY DEF ViewsOK, Fresh, Observed
<1> QED BY <1>2, <1>3, <1>4, <1>5 DEF ViewsOK

LEMMA PageStays ==
    ASSUME CallsOK, PageOK, Onward(links, links'), calls' \in Seq(CallShape), Len(calls) <= Len(calls'),
           UNCHANGED page
    PROVE  PageOK'
<1>1. /\ Len(links) \in Nat /\ Len(links') \in Nat /\ Len(links) <= Len(links')
      /\ DOMAIN links \subseteq DOMAIN links'
  BY DEF Onward, CallsOK
<1>2. Len(calls) \in Nat /\ Len(calls') \in Nat
  BY DEF CallsOK
<1>3. screen' = screen /\ viewed' = viewed /\ dialog' = dialog /\ revoking' = revoking
  BY DEF page
<1>4. viewed' \in 0 .. Len(links') /\ (screen' = "results") = (viewed' # 0)
  BY <1>1, <1>3 DEF PageOK
<1>5. dialog'.call \in 0 .. Len(calls') /\ revoking' \in 0 .. Len(calls')
  BY <1>2, <1>3 DEF PageOK
<1> QED BY <1>1, <1>3, <1>4, <1>5 DEF PageOK

\* The calls that were made stay true while the links go on.
LEMMA CallTrueStays ==
    ASSUME NEW ls \in Seq(Link), NEW ms, Onward(ls, ms), NEW w \in Nat, NEW x \in Nat, w <= x,
           NEW k \in CallShape, CallTrue(ls, w, k)
    PROVE  CallTrue(ms, x, k)
<1>1. DOMAIN ls \subseteq DOMAIN ms
  BY DEF Onward
<1>2. k.at \in Nat
  BY DEF CallShape
<1> QED BY <1>1, <1>2 DEF CallTrue

LEMMA CallsStay ==
    ASSUME CallsOK, Onward(links, links'), Len(links') = Len(links), UNCHANGED <<calls, hist>>
    PROVE  CallsOK'
<1>1. calls' = calls /\ writes' = writes /\ own' = own
  BY DEF hist
<1>2. \A n \in DOMAIN calls' : CallTrue(links', writes', calls'[n])
  BY <1>1, CallTrueStays DEF CallsOK
<1>3. Sending' = Sending
  BY DEF Sending
<1> QED BY <1>1, <1>2, <1>3 DEF CallsOK, Onward

\* A call is answered by the server, ends or is lost.
LEMMA CallSettled ==
    ASSUME CallsOK, NEW n \in DOMAIN calls, NEW c \in CallShape, c.state # "sent",
           calls' = [calls EXCEPT ![n] = c],
           Onward(links, links'), writes' \in Nat, writes <= writes', own' \in Nat, own' <= writes',
           CallTrue(links', writes', c),
           Len(links') = Len(links) \/ (n \in Sending /\ Len(links') = Len(links) + 1)
    PROVE  CallsOK' /\ Len(calls') = Len(calls)
<1>1. calls' \in Seq(CallShape) /\ DOMAIN calls' = DOMAIN calls /\ Len(calls') = Len(calls)
  BY DEF CallsOK
<1>2. \A k \in DOMAIN calls' : CallTrue(links', writes', calls'[k])
  <2> SUFFICES ASSUME NEW k \in DOMAIN calls, k # n
               PROVE  CallTrue(links', writes', calls[k])
    BY <1>1
  <2> QED BY CallTrueStays DEF CallsOK
<1>3. IsFiniteSet(Sending) /\ Cardinality(Sending) \in Nat
  BY SendingFinite DEF CallsOK
<1>4. Sending' = Sending \ {n}
  BY <1>1 DEF Sending
<1>5. IsFiniteSet(Sending') /\ Cardinality(Sending') =
         IF n \in Sending THEN Cardinality(Sending) - 1 ELSE Cardinality(Sending)
  BY <1>3, <1>4, FS_RemoveElement
<1>6. Len(links) \in Nat /\ Len(links') \in Nat /\ links' \in Seq(Link)
  BY DEF CallsOK, Onward
<1>7. Len(links') + Cardinality(Sending)' <= MaxLinks
  BY <1>3, <1>5, <1>6, SentPageAssumption DEF CallsOK
<1> QED BY <1>1, <1>2, <1>6, <1>7 DEF CallsOK

\* A call is made.
LEMMA CallMade ==
    ASSUME CallsOK, NEW c \in CallShape, calls' = Append(calls, c), UNCHANGED <<links, hist>>,
           CallTrue(links, writes, c),
           c.op = "send" => Len(links) + Cardinality(Sending) < MaxLinks
    PROVE  CallsOK' /\ Len(calls') = Len(calls) + 1
<1>1. /\ calls' \in Seq(CallShape) /\ Len(calls') = Len(calls) + 1
      /\ DOMAIN calls' = DOMAIN calls \cup {Len(calls) + 1} /\ Len(calls) + 1 \notin DOMAIN calls
      /\ \A k \in DOMAIN calls : calls'[k] = calls[k]
      /\ calls'[Len(calls) + 1] = c
  BY DEF CallsOK
<1>2. links' = links /\ writes' = writes /\ own' = own
  BY DEF hist
<1>3. \A k \in DOMAIN calls' : CallTrue(links', writes', calls'[k])
  BY <1>1, <1>2 DEF CallsOK
<1>4. IsFiniteSet(Sending) /\ Cardinality(Sending) \in Nat
  BY SendingFinite DEF CallsOK
<1>5. Sending' = IF c.op = "send" /\ c.state = "sent" THEN Sending \cup {Len(calls) + 1} ELSE Sending
  BY <1>1 DEF Sending
<1>6. Len(calls) + 1 \notin Sending
  BY <1>1 DEF Sending
<1>7. Cardinality(Sending') = IF c.op = "send" /\ c.state = "sent" THEN Cardinality(Sending) + 1 ELSE Cardinality(Sending)
  BY <1>4, <1>5, <1>6, FS_AddElement
<1>8. Len(links') + Cardinality(Sending)' <= MaxLinks
  BY <1>2, <1>4, <1>7, SentPageAssumption DEF CallsOK
<1> QED BY <1>1, <1>2, <1>3, <1>8 DEF CallsOK

-----------------------------------------------------------------------------
(* Cache entries.                                                           *)

LEMMA AskedFits ==
    ASSUME NEW v, NEW q \in Entry(v)
    PROVE  /\ Asked(q) \in Entry(v)
           /\ Asked(q).read = "asked" /\ Asked(q).data = q.data
           /\ Asked(q).at = q.at /\ Asked(q).gotAt = 0 /\ Asked(q).failed = q.failed
BY DEF Asked, Entry

LEMMA NoEntryFits ==
    ASSUME NEW v
    PROVE  /\ NoEntry \in Entry(v)
           /\ NoEntry.read = "idle" /\ NoEntry.data = None /\ NoEntry.at = 0 /\ NoEntry.gotAt = 0
BY DEF NoEntry, Entry

LEMMA InvalidatedFits ==
    ASSUME NEW v, NEW q \in Entry(v), NEW seen \in BOOLEAN
    PROVE  LET r == Invalidated(q, seen) IN
           /\ r \in Entry(v)
           /\ r.data = q.data /\ r.at = q.at /\ r.gotAt \in {0, q.gotAt}
           /\ r.read = "back" => q.read = "back" /\ r.got = q.got /\ r.crossed
           /\ r.read # "idle" => (q.read # "idle" \/ seen)
           /\ r.read = "idle" /\ ~r.failed => ~seen /\ (r.stale \/ r.data = None)
<1> DEFINE a == [Asked(q) EXCEPT !.stale = TRUE]
           b == [q EXCEPT !.stale = TRUE, !.crossed = q.read # "idle"]
<1>1. /\ a \in Entry(v) /\ a.read = "asked" /\ a.data = q.data /\ a.at = q.at /\ a.gotAt = 0
  BY AskedFits DEF Entry
<1>2. /\ b \in Entry(v) /\ b.read = q.read /\ b.data = q.data /\ b.at = q.at /\ b.gotAt = q.gotAt
      /\ b.got = q.got /\ b.stale /\ (b.crossed <=> q.read # "idle")
  BY DEF Entry
<1> HIDE DEF a, b
<1>3. Invalidated(q, seen) =
         IF q.data = None /\ q.read = "idle" THEN IF seen THEN Asked(q) ELSE q
         ELSE IF seen /\ q.data # None THEN a ELSE b
  BY DEF Invalidated, a, b
<1> QED BY <1>1, <1>2, <1>3, AskedFits

-----------------------------------------------------------------------------
(* Steps that read nothing.                                                 *)

\* Candidates, the clock and another admin move one link ahead.
LEMMA OthersMoveAhead ==
    ASSUME links \in Seq(Link), NEW i \in DOMAIN links, Others(i)
    PROVE  \E l : Ahead(links[i], l) /\ Changes(i, l)
<1>1. links[i] \in Link /\ links[i].at \in Nat
  BY LinkShape
<1>2. ASSUME NEW now \in Now
      PROVE  /\ now \in Nat /\ links[i].at <= now
             /\ Ahead(links[i], Swept(links[i], now)) /\ Swept(links[i], now) \in Link
  BY <1>1, NowAhead, SweptAhead DEF Ahead
<1>3. ASSUME NEW t \in Tests, NEW from \in {"NOT_STARTED", "IN_PROGRESS"}, NEW to \in TestStates,
             NEW at \in Nat, links[i].at <= at, Moves(i, t, from, to, at)
      PROVE  \E l : Ahead(links[i], l) /\ Changes(i, l)
  BY <1>1, <1>3, MoveAhead DEF Moves
<1>4. CASE \E t \in Tests : Start(i, t) \/ HandIn(i, t) \/ TimeOut(i, t)
  BY <1>1, <1>2, <1>3, <1>4 DEF Start, HandIn, TimeOut, TestStates
<1>5. CASE Look(i)
  BY <1>2, <1>5 DEF Look
<1>6. CASE Expire(i)
  BY <1>1, <1>6, FlagsAhead DEF Expire
<1>7. CASE OtherAdmin(i)
  <2>1. CASE Changes(i, [links[i] EXCEPT !.revoked = TRUE])
    BY <1>1, <2>1, FlagsAhead
  <2>2. ASSUME NEW now \in Now, Changes(i, [Swept(links[i], now) EXCEPT !.expired = FALSE])
        PROVE  \E l : Ahead(links[i], l) /\ Changes(i, l)
    <3>1. Ahead(Swept(links[i], now), [Swept(links[i], now) EXCEPT !.expired = FALSE])
      BY <1>2, FlagsAhead
    <3> QED BY <1>1, <1>2, <2>2, <3>1, AheadTwice
  <2> QED BY <1>7, <2>1, <2>2 DEF OtherAdmin
<1> QED BY <1>4, <1>5, <1>6, <1>7 DEF Others

LEMMA OthersKeep ==
    ASSUME SInv, NEW i \in DOMAIN links, Others(i)
    PROVE  SInv'
<1>1. CallsOK /\ PageOK /\ ViewsOK
  BY Parts
<1>2. PICK l : Ahead(links[i], l) /\ Changes(i, l)
  BY <1>1, OthersMoveAhead DEF CallsOK
<1>3. UNCHANGED <<page, query, calls, hist>> /\ Onward(links, links') /\ Len(links') = Len(links)
  BY <1>1, <1>2, OneOnward DEF Changes, CallsOK
<1>4. CallsOK'
  BY <1>1, <1>3, CallsStay
<1>5. PageOK'
  BY <1>1, <1>3, PageStays DEF CallsOK
<1>6. ViewsOK'
  BY <1>1, <1>3, ViewsStay DEF CallsOK, hist, page
<1> QED BY <1>4, <1>5, <1>6, WholeNext

\* A dialog opens or closes, or its form is emptied.
LEMMA DialogKeeps ==
    ASSUME SInv, UNCHANGED <<links, screen, viewed, revoking, query, calls, hist>>,
           dialog' \in [kind : {"none", "send", "resend", "revoke"}, link : Nat, call : Nat, done : BOOLEAN],
           dialog'.kind \in {"resend", "revoke"} => dialog'.link \in DOMAIN links,
           dialog'.call = 0
    PROVE  SInv'
<1>1. CallsOK /\ PageOK /\ ViewsOK
  BY Parts
<1>2. Onward(links, links')
  BY <1>1, OnwardSelf DEF CallsOK
<1>3. CallsOK'
  BY <1>1, <1>2, CallsStay
<1>4. PageOK'
  BY <1>1 DEF PageOK, CallsOK
<1>5. ViewsOK'
  BY <1>1, <1>2, ViewsStay DEF CallsOK, hist
<1> QED BY <1>3, <1>4, <1>5, WholeNext

\* A call is made from a dialog.
LEMMA MakingKeeps ==
    ASSUME SInv, NEW c \in CallShape, calls' = Append(calls, c), CallTrue(links, writes, c),
           c.op = "send" => Len(links) + Cardinality(Sending) < MaxLinks,
           UNCHANGED <<links, screen, viewed, query, hist>>,
           \/ dialog' = [dialog EXCEPT !.call = Len(calls')] /\ revoking' = revoking
           \/ dialog' = dialog /\ revoking' = Len(calls')
    PROVE  SInv'
<1>1. CallsOK /\ PageOK /\ ViewsOK
  BY Parts
<1>2. Onward(links, links')
  BY <1>1, OnwardSelf DEF CallsOK
<1>3. CallsOK' /\ Len(calls') = Len(calls) + 1
  BY <1>1, CallMade
<1>4. Len(calls) \in Nat /\ Len(calls') \in Nat
  BY <1>1, <1>3 DEF CallsOK
<1>5. PageOK'
  <2>1. dialog \in [kind : {"none", "send", "resend", "revoke"}, link : Nat, call : Nat, done : BOOLEAN]
    BY <1>1 DEF PageOK
  <2>2. /\ dialog' \in [kind : {"none", "send", "resend", "revoke"}, link : Nat, call : Nat, done : BOOLEAN]
        /\ dialog'.kind = dialog.kind /\ dialog'.link = dialog.link
        /\ dialog'.call \in {dialog.call, Len(calls')} /\ revoking' \in {revoking, Len(calls')}
    BY <1>4, <2>1
  <2>3. dialog'.call \in 0 .. Len(calls') /\ revoking' \in 0 .. Len(calls')
    BY <1>1, <1>3, <1>4, <2>2 DEF PageOK
  <2> QED BY <1>1, <2>2, <2>3 DEF PageOK
<1>6. ViewsOK'
  BY <1>1, <1>2, ViewsStay DEF CallsOK, hist
<1> QED BY <1>3, <1>5, <1>6, WholeNext

\* A person's steps other than going elsewhere and asking for a read.
LEMMA DialogsKeep ==
    ASSUME SInv,
           \/ OpenSend \/ SendAnother \/ Resend \/ Revoke \/ Dismiss
           \/ \E p \in People, ts \in SUBSET Tests : Send(p, ts)
           \/ \E i \in DOMAIN links : OpenResend(i) \/ OpenRevoke(i)
    PROVE  SInv'
<1>0. CallsOK /\ PageOK /\ Len(links) \in Nat
  BY Parts DEF CallsOK
<1>1. CASE OpenSend \/ SendAnother
  <2>1. dialog' = [kind |-> "send", link |-> 0, call |-> 0, done |-> FALSE]
    BY <1>1 DEF OpenSend, SendAnother, NoDialog
  <2>2. UNCHANGED <<links, screen, viewed, revoking, query, calls, hist>>
    BY <1>1 DEF OpenSend, SendAnother
  <2> QED BY <2>1, <2>2, DialogKeeps
<1>2. CASE Dismiss
  <2>1. dialog' = [kind |-> "none", link |-> 0, call |-> 0, done |-> FALSE]
    BY <1>2 DEF Dismiss, NoDialog
  <2>2. UNCHANGED <<links, screen, viewed, revoking, query, calls, hist>>
    BY <1>2 DEF Dismiss
  <2> QED BY <2>1, <2>2, DialogKeeps
<1>3. ASSUME NEW i \in DOMAIN links, OpenResend(i) \/ OpenRevoke(i)
      PROVE  SInv'
  <2>1. i \in Nat
    BY <1>0 DEF CallsOK
  <2>2. PICK k \in {"resend", "revoke"} : dialog' = [kind |-> k, link |-> i, call |-> 0, done |-> FALSE]
    BY <1>3 DEF OpenResend, OpenRevoke, NoDialog
  <2>3. UNCHANGED <<links, screen, viewed, revoking, query, calls, hist>>
    BY <1>3 DEF OpenResend, OpenRevoke
  <2>4. /\ dialog' \in [kind : {"none", "send", "resend", "revoke"}, link : Nat, call : Nat, done : BOOLEAN]
        /\ dialog'.link = i /\ dialog'.call = 0
    BY <2>1, <2>2
  <2> QED BY <2>3, <2>4, DialogKeeps
<1>4. ASSUME NEW p \in People, NEW ts \in SUBSET Tests, Send(p, ts)
      PROVE  SInv'
  <2> DEFINE c == Call("send", 0, p, ts)
  <2>1. c \in CallShape /\ CallTrue(links, writes, c) /\ c.op = "send"
    BY <1>0, <1>4 DEF Call, CallShape, CallTrue, Send, CallsOK
  <2>2. /\ calls' = Append(calls, c) /\ Len(links) + Cardinality(Sending) < MaxLinks
        /\ UNCHANGED <<links, screen, viewed, query, hist>>
        /\ dialog' = [dialog EXCEPT !.call = Len(calls')] /\ revoking' = revoking
    BY <1>4 DEF Send, Mutate
  <2> HIDE DEF c
  <2> QED BY <2>1, <2>2, MakingKeeps
<1>5. CASE Resend \/ Revoke
  <2>1. PICK op \in {"resend", "revoke"} :
           /\ dialog.kind = op /\ calls' = Append(calls, Call(op, dialog.link, None, {}))
           /\ UNCHANGED <<links, screen, viewed, query, hist>>
           /\ \/ dialog' = [dialog EXCEPT !.call = Len(calls')] /\ revoking' = revoking
              \/ dialog' = dialog /\ revoking' = Len(calls')
    BY <1>5 DEF Resend, Revoke, Mutate
  <2> DEFINE c == Call(op, dialog.link, None, {})
  <2>2. dialog.link \in DOMAIN links /\ dialog.link \in Nat
    BY <1>0, <2>1 DEF PageOK
  <2>3. c \in CallShape /\ CallTrue(links, writes, c) /\ c.op # "send"
    BY <1>0, <2>2 DEF Call, CallShape, CallTrue, CallsOK
  <2> HIDE DEF c
  <2> QED BY <2>1, <2>3, MakingKeeps DEF c
<1> QED BY <1>1, <1>2, <1>3, <1>4, <1>5

\* The server carries a call out or refuses it, or the call ends unheard or
\* refused.
LEMMA SettlingKeeps ==
    ASSUME SInv, NEW n \in DOMAIN calls, NEW c \in CallShape, c.state # "sent",
           calls' = [calls EXCEPT ![n] = c], CallTrue(links', writes', c),
           Onward(links, links'), writes' \in Nat, writes <= writes',
           Len(links') = Len(links) \/ (n \in Sending /\ Len(links') = Len(links) + 1),
           UNCHANGED <<page, query, own>>
    PROVE  SInv'
<1>1. CallsOK /\ PageOK /\ ViewsOK
  BY Parts
<1>2. own' \in Nat /\ own' <= writes'
  BY <1>1 DEF CallsOK
<1>3. CallsOK' /\ Len(calls') = Len(calls)
  BY <1>1, <1>2, CallSettled
<1>4. PageOK'
  BY <1>1, <1>3, PageStays DEF CallsOK
<1>5. ViewsOK'
  BY <1>1, ViewsStay DEF CallsOK, page
<1> QED BY <1>3, <1>4, <1>5, WholeNext

LEMMA ServerKeeps ==
    ASSUME SInv, NEW n \in DOMAIN calls, Server(n)
    PROVE  SInv'
<1> DEFINE k == calls[n]
<1>1. /\ CallsOK /\ k \in CallShape /\ CallTrue(links, writes, k)
      /\ links \in Seq(Link) /\ Len(links) \in Nat /\ writes \in Nat
  BY Parts DEF CallsOK
<1>2. ASSUME Asks(n, "send") \/ Asks(n, "resend") \/ Asks(n, "revoke"), Refuse(n),
             Onward(links, links'), Len(links') = Len(links)
      PROVE  SInv'
  <2> DEFINE c == [k EXCEPT !.state = "refused"]
  <2>1. c \in CallShape /\ c.state # "sent" /\ calls' = [calls EXCEPT ![n] = c]
    BY <1>1, <1>2 DEF Refuse, CallShape
  <2>2. writes' = writes /\ UNCHANGED <<page, query, own>>
    BY <1>2 DEF Refuse, hist
  <2>3. CallTrue(links', writes, k)
    BY <1>1, <1>2, CallTrueStays
  <2>4. CallTrue(links', writes', c)
    BY <1>1, <1>2, <2>2, <2>3 DEF CallTrue, Asks, CallShape
  <2>5. writes' \in Nat /\ writes <= writes'
    BY <1>1, <2>2
  <2> HIDE DEF c
  <2> QED BY <1>2, <2>1, <2>2, <2>4, <2>5, SettlingKeeps
<1>3. ASSUME NEW op \in {"send", "resend", "revoke"}, Asks(n, op), CarryOut(n), Onward(links, links'),
             Len(links') = Len(links) \/ (op = "send" /\ Len(links') = Len(links) + 1)
      PROVE  SInv'
  <2> DEFINE c == [k EXCEPT !.state = "done", !.at = writes + 1]
  <2>0. calls' = [calls EXCEPT ![n].state = "done", ![n].at = writes + 1]
    BY <1>3 DEF CarryOut
  <2>1. c \in CallShape /\ c.state # "sent" /\ calls' = [calls EXCEPT ![n] = c]
    <3>1. c \in CallShape /\ c.state = "done"
      <4> DEFINE b == [k EXCEPT !.state = "done"]
      <4>1. b \in CallShape /\ b.state = "done"
        BY <1>1 DEF CallShape
      <4>2. c = [b EXCEPT !.at = writes + 1]
        BY <1>1 DEF CallShape
      <4> HIDE DEF b, c
      <4>3. writes + 1 \in Nat
        BY <1>1
      <4> QED BY <4>1, <4>2, <4>3 DEF CallShape
    <3>2. calls' = [calls EXCEPT ![n] = c]
      BY <2>0, <1>1 DEF CallsOK
    <3> QED BY <3>1, <3>2
  <2>2. writes' = writes + 1 /\ UNCHANGED <<page, query, own>>
    BY <1>3 DEF CarryOut
  <2>3. CallTrue(links', writes, k)
    BY <1>1, <1>3, CallTrueStays
  <2>4. CallTrue(links', writes', c)
    BY <1>1, <1>3, <2>2, <2>3 DEF CallTrue, Asks, CallShape
  <2>5. Len(links') = Len(links) \/ (n \in Sending /\ Len(links') = Len(links) + 1)
    BY <1>3 DEF Asks, Sending
  <2>6. writes' \in Nat /\ writes <= writes'
    BY <1>1, <2>2
  <2> HIDE DEF c
  <2> QED BY <1>3, <2>1, <2>2, <2>4, <2>5, <2>6, SettlingKeeps
<1>4. CASE ServeRevoke(n)
  <2>1. Asks(n, "revoke") /\ CarryOut(n) /\ links' = [links EXCEPT ![k.link].revoked = TRUE]
    BY <1>4 DEF ServeRevoke
  <2>2. k.link \in DOMAIN links
    BY <1>1, <2>1 DEF Asks, CallTrue
  <2>3. Ahead(links[k.link], [links[k.link] EXCEPT !.revoked = TRUE])
    <3>1. links[k.link] \in Link
      BY <1>1, <2>2
    <3> QED BY <3>1, FlagsAhead
  <2>4. Onward(links, links') /\ Len(links') = Len(links)
    BY <1>1, <2>1, <2>2, <2>3, OneOnward
  <2> QED BY <1>3, <2>1, <2>4
<1>5. ASSUME NEW m \in BOOLEAN, ServeSend(n, m)
      PROVE  SInv'
  <2>1. Asks(n, "send")
    BY <1>5 DEF ServeSend
  <2>2. CASE Refuse(n) /\ UNCHANGED links
    BY <1>1, <1>2, <2>1, <2>2, OnwardSelf
  <2>3. CASE CarryOut(n) /\ links' = Append(links, NewLink(k.person, k.tests, m))
    <3>1. k.person \in People /\ k.tests \in SUBSET Tests /\ k.tests # {}
      BY <1>1, <2>1 DEF Asks, CallTrue, CallShape
    <3>2. Onward(links, links') /\ Len(links') = Len(links) + 1
      BY <1>1, <2>3, <3>1, NewLinkFits, LastOnward
    <3> QED BY <1>3, <2>1, <2>3, <3>2
  <2> QED BY <1>5, <2>2, <2>3 DEF ServeSend
<1>6. ASSUME NEW m \in BOOLEAN, ServeResend(n, m)
      PROVE  SInv'
  <2>0. PICK now \in Now :
           LET i == k.link  l == Swept(links[i], now) IN
           \/ Refuse(n) /\ links' = [links EXCEPT ![i] = l]
           \/ CarryOut(n) /\ links' = [links EXCEPT ![i] = [l EXCEPT !.expired = FALSE, !.sent = l.sent \/ m]]
    BY <1>6 DEF ServeResend
  <2> DEFINE i == k.link  l == Swept(links[i], now)
  <2>1. Asks(n, "resend")
    BY <1>6 DEF ServeResend
  <2>2. i \in DOMAIN links
    BY <1>1, <2>1 DEF Asks, CallTrue
  <2>3. Ahead(links[i], l) /\ l \in Link /\ links[i] \in Link
    BY <1>1, <2>2, NowAhead, SweptAhead DEF Ahead
  <2>4. CASE Refuse(n) /\ links' = [links EXCEPT ![i] = l]
    BY <1>1, <1>2, <2>1, <2>2, <2>3, <2>4, OneOnward
  <2>5. CASE CarryOut(n) /\ links' = [links EXCEPT ![i] = [l EXCEPT !.expired = FALSE, !.sent = l.sent \/ m]]
    <3> DEFINE x == l.sent \/ m
    <3>1. x \in BOOLEAN
      OBVIOUS
    <3> HIDE DEF x
    <3>2. Ahead(l, [l EXCEPT !.expired = FALSE, !.sent = x])
      BY <2>3, <3>1, FlagsAhead
    <3>3. Ahead(links[i], [l EXCEPT !.expired = FALSE, !.sent = x])
      BY <2>3, <3>2, AheadTwice
    <3>4. links' = [links EXCEPT ![i] = [l EXCEPT !.expired = FALSE, !.sent = x]]
      BY <2>5 DEF x
    <3>5. Onward(links, links') /\ Len(links') = Len(links)
      BY <1>1, <2>2, <3>3, <3>4, OneOnward
    <3> QED BY <1>3, <2>1, <2>5, <3>5
  <2> QED BY <2>0, <2>4, <2>5
<1> QED BY <1>4, <1>5, <1>6 DEF Server

-----------------------------------------------------------------------------
(* Answers.                                                                 *)

LEMMA OverFits ==
    /\ Over \in CallShape /\ Over.state = "over" /\ Over.at = 0
    /\ \A ls, w : w \in Nat => CallTrue(ls, w, Over)
BY DEF Over, CallShape, CallTrue

LEMMA FailKeeps ==
    ASSUME SInv, NEW n \in DOMAIN calls, Fail(n) \/ Lose(n)
    PROVE  SInv'
<1>1. CallsOK /\ Onward(links, links)
  BY Parts, OnwardSelf DEF CallsOK
<1>2. calls' = [calls EXCEPT ![n] = Over] /\ UNCHANGED <<links, page, query, hist>>
  BY DEF Fail, Lose, End
<1>3. writes' = writes /\ writes \in Nat /\ UNCHANGED <<page, query, own>>
  BY <1>1, <1>2 DEF hist, CallsOK
<1>4. CallTrue(links', writes', Over)
  BY <1>3, OverFits
<1>5. Onward(links, links') /\ Len(links') = Len(links)
  BY <1>1, <1>2
<1>6. Over \in CallShape /\ Over.state # "sent"
  BY OverFits
<1>7. writes' \in Nat /\ writes <= writes'
  BY <1>3
<1> HIDE DEF Over
<1> QED BY <1>2, <1>3, <1>4, <1>5, <1>6, <1>7, SettlingKeeps

\* A call was carried out and its answer arrives: every view of links is read
\* again, now or when it is next on screen.
LEMMA SucceedKeeps ==
    ASSUME SInv, NEW n \in DOMAIN calls, Succeed(n)
    PROVE  SInv'
<1>1. CallsOK /\ PageOK /\ ViewsOK /\ links \in Seq(Link) /\ Onward(links, links)
  BY Parts, OnwardSelf DEF CallsOK
<1>2. /\ calls' = [calls EXCEPT ![n] = Over]
      /\ links' = links /\ screen' = screen /\ viewed' = viewed /\ revoking' = revoking /\ writes' = writes
      /\ Observed' = Observed
  BY DEF Succeed, End, Observed
<1>3. writes \in Nat /\ own' \in Nat /\ own' <= writes
  <2>1. /\ calls[n] \in CallShape /\ CallTrue(links, writes, calls[n])
        /\ writes \in Nat /\ own \in Nat /\ own <= writes
    BY <1>1 DEF CallsOK
  <2>2. calls[n].at \in Nat /\ calls[n].at <= writes
    BY <2>1 DEF CallShape, CallTrue
  <2>3. own' = IF calls[n].at > own THEN calls[n].at ELSE own
    BY DEF Succeed
  <2> QED BY <2>1, <2>2, <2>3
<1>4. CallsOK' /\ Len(calls') = Len(calls)
  <2>1. Over \in CallShape /\ Over.state # "sent" /\ CallTrue(links', writes', Over)
    BY <1>2, <1>3, OverFits
  <2>2. Onward(links, links') /\ Len(links') = Len(links)
    BY <1>1, <1>2
  <2>3. writes' \in Nat /\ writes <= writes' /\ own' <= writes'
    BY <1>2, <1>3
  <2> QED BY <1>1, <1>2, <1>3, <2>1, <2>2, <2>3, CallSettled
<1>5. PageOK'
  <2>1. \/ dialog' = [dialog EXCEPT !.done = TRUE]
        \/ dialog' = NoDialog
        \/ dialog' = dialog
    BY DEF Succeed, Answered
  <2>2. /\ dialog' \in [kind : {"none", "send", "resend", "revoke"}, link : Nat, call : Nat, done : BOOLEAN]
        /\ dialog'.kind \in {"resend", "revoke"} => dialog'.link \in DOMAIN links
        /\ dialog'.call \in 0 .. Len(calls)
    <3>1. /\ dialog \in [kind : {"none", "send", "resend", "revoke"}, link : Nat, call : Nat, done : BOOLEAN]
          /\ dialog.kind \in {"resend", "revoke"} => dialog.link \in DOMAIN links
          /\ dialog.call \in 0 .. Len(calls) /\ 0 \in 0 .. Len(calls)
      BY <1>1 DEF PageOK, CallsOK
    <3>2. CASE dialog' = [dialog EXCEPT !.done = TRUE]
      BY <3>1, <3>2
    <3>3. CASE dialog' = NoDialog
      BY <3>1, <3>3 DEF NoDialog
    <3>4. CASE dialog' = dialog
      BY <3>1, <3>4
    <3> QED BY <2>1, <3>2, <3>3, <3>4
  <2> QED BY <1>1, <1>2, <1>4, <2>2 DEF PageOK
<1>6. \A v \in Views \ {Home} :
         query'[v] = Invalidated(query[v], v \in Observed) /\ (v \in Observed) \in BOOLEAN
  BY DEF Succeed, InvalidateInvitations
<1>7. query'[Home] = query[Home] /\ DOMAIN query' = Views
  BY ViewNames DEF Succeed, InvalidateInvitations
<1>8. ASSUME NEW v \in Views
      PROVE  LET q == query[v]  r == query'[v] IN
             /\ r \in Entry(v)
             /\ r.data = q.data /\ r.at = q.at /\ r.gotAt \in {0, q.gotAt}
             /\ r.read = "back" => q.read = "back" /\ r.got = q.got
             /\ r.read # "idle" => (q.read # "idle" \/ v \in Observed)
             /\ v # Home =>
                   /\ r.read = "back" => r.crossed
                   /\ r.read = "idle" /\ ~r.failed => v \notin Observed /\ (r.stale \/ r.data = None)
  <2>1. query[v] \in Entry(v)
    BY <1>1 DEF ViewsOK
  <2>2. CASE v = Home
    BY <1>7, <2>1, <2>2
  <2>3. CASE v # Home
    <3> DEFINE seen == v \in Observed
    <3>1. seen \in BOOLEAN /\ query'[v] = Invalidated(query[v], seen)
      BY <1>6, <2>3
    <3> HIDE DEF seen
    <3>2. LET r == Invalidated(query[v], seen) IN
           /\ r \in Entry(v)
           /\ r.data = query[v].data /\ r.at = query[v].at /\ r.gotAt \in {0, query[v].gotAt}
           /\ r.read = "back" => query[v].read = "back" /\ r.got = query[v].got /\ r.crossed
           /\ r.read # "idle" => (query[v].read # "idle" \/ seen)
           /\ r.read = "idle" /\ ~r.failed => ~seen /\ (r.stale \/ r.data = None)
      BY <2>1, <3>1, InvalidatedFits
    <3> QED BY <2>3, <3>1, <3>2 DEF seen
  <2> QED BY <2>2, <2>3
<1>9. ViewsOK'
  <2>1. Quiet
    BY <1>8 DEF Quiet
  <2>2. CacheTrue'
    BY <1>1, <1>2, <2>1, CacheStays
  <2>3. ReadsOfLinks'
    <3> SUFFICES ASSUME NEW i \in Ids, query'[Detail(i)].data # None \/ query'[Detail(i)].read # "idle"
                 PROVE  i \in DOMAIN links
      BY <1>2 DEF ReadsOfLinks
    <3>1. query[Detail(i)].data # None \/ query[Detail(i)].read # "idle" \/ Detail(i) \in Observed
      BY <1>8, ViewNames
    <3>2. Detail(i) \in Observed => i = viewed /\ screen = "results"
      BY ViewNames DEF Observed, Shown
    <3>3. i = viewed /\ screen = "results" => i \in DOMAIN links
      BY <1>1 DEF PageOK
    <3> QED BY <1>1, <3>1, <3>2, <3>3 DEF ViewsOK, ReadsOfLinks
  <2>4. \A v \in Views : query'[v].at <= writes' /\ query'[v].gotAt <= writes'
    BY <1>1, <1>2, <1>3, <1>8 DEF ViewsOK
  <2>5. \A v \in Views \ {Home} : Fresh(v)'
    BY <1>2, <1>8 DEF Fresh
  <2> QED BY <1>7, <1>8, <2>2, <2>3, <2>4, <2>5 DEF ViewsOK
<1> QED BY <1>4, <1>5, <1>9, WholeNext

-----------------------------------------------------------------------------
(* Reads.                                                                   *)

\* Views on screen are asked for; the others stay as they are.
LEMMA AskingKeeps ==
    ASSUME SInv, UNCHANGED <<links, calls, hist>>, PageOK', DOMAIN query' = Views,
           \A v \in Views : query'[v] = query[v] \/ (query'[v] = Asked(query[v]) /\ v \in Observed'),
           \A v \in Views \ {Home} : query'[v] = query[v] => Fresh(v)'
    PROVE  SInv'
<1>1. CallsOK /\ ViewsOK /\ Onward(links, links) /\ writes \in Nat
  BY Parts, OnwardSelf DEF CallsOK
<1>2. links' = links /\ writes' = writes /\ own' = own
  BY DEF hist
<1>3. CallsOK'
  BY <1>1, CallsStay
<1>4. ASSUME NEW v \in Views
      PROVE  LET q == query[v]  r == query'[v] IN
             /\ r \in Entry(v) /\ r.data = q.data /\ r.at = q.at /\ r.gotAt \in {0, q.gotAt}
             /\ r.read = "back" => q.read = "back" /\ r.got = q.got
             /\ r # q => r.read = "asked" /\ v \in Observed'
  BY <1>1, AskedFits DEF ViewsOK
<1>5. Quiet
  BY <1>4 DEF Quiet
<1>6. CacheTrue'
  BY <1>1, <1>2, <1>5, CacheStays
<1>7. ReadsOfLinks'
  <2> SUFFICES ASSUME NEW i \in Ids, query'[Detail(i)].data # None \/ query'[Detail(i)].read # "idle"
               PROVE  i \in DOMAIN links
    BY <1>2 DEF ReadsOfLinks
  <2>1. query[Detail(i)].data # None \/ query[Detail(i)].read # "idle" \/ Detail(i) \in Observed'
    BY <1>4, ViewNames
  <2>2. Detail(i) \in Observed' => i = viewed' /\ screen' = "results"
    BY ViewNames DEF Observed, Shown
  <2>3. i = viewed' /\ screen' = "results" => i \in DOMAIN links
    BY <1>1, <1>2 DEF PageOK, CallsOK
  <2> QED BY <1>1, <2>1, <2>2, <2>3 DEF ViewsOK, ReadsOfLinks
<1>8. \A v \in Views : query'[v].at <= writes' /\ query'[v].gotAt <= writes'
  BY <1>1, <1>2, <1>4 DEF ViewsOK
<1>9. \A v \in Views \ {Home} : Fresh(v)'
  BY <1>4 DEF Fresh
<1>10. ViewsOK'
  BY <1>4, <1>6, <1>7, <1>8, <1>9 DEF ViewsOK
<1> QED BY <1>3, <1>10, WholeNext

LEMMA AskKeeps ==
    ASSUME SInv, NEW v \in Views, Ask(v)
    PROVE  SInv'
<1>1. CallsOK /\ PageOK /\ ViewsOK
  BY Parts
<1>2. /\ v \in Observed /\ query' = [query EXCEPT ![v] = Asked(query[v])]
      /\ UNCHANGED <<links, calls, hist>> /\ UNCHANGED page
      /\ screen' = screen /\ viewed' = viewed /\ own' = own
  BY DEF Ask, page, hist
<1>3. Observed' = Observed
  BY <1>2 DEF Observed
<1>4. PageOK'
  BY <1>1, <1>2, OnwardSelf, PageStays DEF CallsOK
<1>5. /\ DOMAIN query' = Views
      /\ \A w \in Views : query'[w] = query[w] \/ (query'[w] = Asked(query[w]) /\ w \in Observed')
  BY <1>1, <1>2, <1>3 DEF ViewsOK
<1>6. \A w \in Views \ {Home} : query'[w] = query[w] => Fresh(w)'
  BY <1>1, <1>2, <1>3 DEF ViewsOK, Fresh
<1> QED BY <1>2, <1>4, <1>5, <1>6, AskingKeeps

LEMMA GoKeeps ==
    ASSUME SInv, NEW s \in {"home", "library", "sent", "results"}, NEW l \in 0 .. MaxLinks, NEW old \in BOOLEAN,
           Go(s, l, old)
    PROVE  SInv'
<1>1. CallsOK /\ PageOK /\ ViewsOK /\ links \in Seq(Link) /\ calls \in Seq(CallShape)
  BY Parts DEF CallsOK
<1>2. /\ screen' = s /\ viewed' = l /\ dialog' = NoDialog /\ revoking' = 0
      /\ UNCHANGED <<links, calls, hist>> /\ links' = links /\ own' = own
      /\ IF s = "results" THEN l \in DOMAIN links ELSE l = 0
  BY DEF Go, hist
<1>3. PageOK'
  BY <1>1, <1>2 DEF PageOK, NoDialog
<1>4. Observed' = Shown(s, l)
  BY <1>2 DEF Observed, Shown
<1>5. /\ DOMAIN query' = Views
      /\ \A v \in Views : query'[v] = IF v \in Shown(s, l) THEN Mounted(query[v], v, old) ELSE query[v]
  BY DEF Go
<1>6. \A v \in Views : query'[v] = query[v] \/ (query'[v] = Asked(query[v]) /\ v \in Observed')
  BY <1>4, <1>5 DEF Mounted
<1>7. ASSUME NEW v \in Views \ {Home}, query'[v] = query[v]
      PROVE  Fresh(v)'
  <2>1. Fresh(v) /\ query[v] \in Entry(v)
    BY <1>1 DEF ViewsOK
  <2>2. CASE v \notin Shown(s, l)
    BY <1>2, <1>4, <1>7, <2>1, <2>2 DEF Fresh
  <2>3. CASE v \in Shown(s, l)
    <3>1. query[v].read = "idle" => query[v].data # None /\ ~query[v].stale
      <4>1. Asked(query[v]).read = "asked"
        BY <2>1, AskedFits
      <4> QED BY <1>5, <1>7, <2>3, <4>1 DEF Mounted
    <3> QED BY <1>2, <1>7, <2>1, <3>1 DEF Fresh
  <2> QED BY <2>2, <2>3
<1> QED BY <1>2, <1>3, <1>5, <1>6, <1>7, AskingKeeps

\* The server sweeps the links the view is of and answers of them.
LEMMA ServeReadKeeps ==
    ASSUME SInv, NEW v \in Views, ServeRead(v)
    PROVE  SInv'
<1>1. CallsOK /\ PageOK /\ ViewsOK /\ links \in Seq(Link) /\ Len(links) \in 0 .. MaxLinks
  BY Parts DEF CallsOK
<1>0. PICK now \in Now, C \in Contents(v, links') :
         /\ links' = SweptFor(v, now)
         /\ query' = [query EXCEPT ![v].read = "back", ![v].got = C, ![v].gotAt = writes]
  BY DEF ServeRead
<1>2. /\ query[v].read = "asked" /\ links' = SweptFor(v, now)
      /\ UNCHANGED <<page, calls, hist>>
      /\ writes' = writes /\ own' = own /\ screen' = screen /\ viewed' = viewed
  BY <1>0 DEF ServeRead, page, hist
<1>3. Onward(links, links') /\ Len(links') = Len(links) /\ links' \in Seq(Link) /\ DOMAIN links' = DOMAIN links
  BY <1>1, <1>2, AllOnward DEF Onward
<1>4. CallsOK' /\ PageOK'
  BY <1>1, <1>2, <1>3, CallsStay, PageStays DEF CallsOK
<1>5. query' = [query EXCEPT ![v] = [query[v] EXCEPT !.read = "back", !.got = C, !.gotAt = writes]]
  BY <1>0
<1>6. \A i \in Ids : v = Detail(i) => i \in DOMAIN links /\ i \in DOMAIN links'
  BY <1>1, <1>2, <1>3 DEF ViewsOK, ReadsOfLinks
<1>7. /\ C \in Data(v) /\ C # None /\ Still(links', v, C)
      /\ \A d : Still(links', v, d) => Kept(links', v, d, C)
  BY <1>1, <1>3, <1>6, ContentFits
<1>8. query[v] \in Entry(v) /\ EntryTrue(links, v, query[v]) /\ writes \in Nat /\ own <= writes
  BY <1>1 DEF ViewsOK, CacheTrue, CallsOK
<1> DEFINE r == [query[v] EXCEPT !.read = "back", !.got = C, !.gotAt = writes]
<1>9. /\ r \in Entry(v) /\ r.data = query[v].data /\ r.at = query[v].at /\ r.gotAt = writes
      /\ r.read = "back" /\ r.got = C /\ r.crossed = query[v].crossed
  BY <1>7, <1>8 DEF Entry
<1>10. DOMAIN query' = Views /\ query'[v] = r /\ \A w \in Views \ {v} : query'[w] = query[w]
  BY <1>1, <1>5 DEF ViewsOK
<1> HIDE DEF r
<1>11. query[v].data # None => Still(links', v, query[v].data)
  <2>1. query[v].data \in Data(v) \cup {None}
    BY <1>8 DEF Entry
  <2> QED BY <1>1, <1>3, <1>6, <1>8, <2>1, StillOnward DEF EntryTrue
<1>12. EntryTrue(links', v, r)
  BY <1>7, <1>9, <1>11 DEF EntryTrue
<1>13. ASSUME NEW w \in Views \ {v}
       PROVE  EntryTrue(links', w, query[w])
  <2> DEFINE q == query[w]
  <2>1. q \in Entry(w) /\ EntryTrue(links, w, q)
    BY <1>1 DEF ViewsOK, CacheTrue
  <2>2. q.data \in Data(w) \cup {None} /\ q.got \in Data(w) \cup {None}
    BY <2>1 DEF Entry
  <2>3. q.data # None \/ q.read # "idle" => \A i \in Ids : w = Detail(i) => i \in DOMAIN links
    BY <1>1 DEF ViewsOK, ReadsOfLinks
  <2> HIDE DEF q
  <2>4. EntryTrue(links', w, q)
    <3>1. q.data # None => Still(links', w, q.data)
      BY <1>1, <1>3, <2>1, <2>2, <2>3, StillOnward DEF EntryTrue
    <3>2. q.read = "back" => q.got # None /\ Still(links', w, q.got)
      BY <1>1, <1>3, <2>1, <2>2, <2>3, StillOnward DEF EntryTrue
    <3>3. q.read = "back" /\ q.data # None => Kept(links', w, q.data, q.got)
      BY <1>3, <2>1, KeptOnward DEF EntryTrue
    <3> QED BY <3>1, <3>2, <3>3 DEF EntryTrue
  <2> QED BY <2>4 DEF q
<1>14. CacheTrue'
  BY <1>10, <1>12, <1>13 DEF CacheTrue
<1>15. ReadsOfLinks'
  BY <1>1, <1>2, <1>3, <1>6, <1>10, ViewNames DEF ViewsOK, ReadsOfLinks
<1>16. \A w \in Views \ {Home} : Fresh(w)'
  <2> SUFFICES ASSUME NEW w \in Views \ {Home}
               PROVE  Fresh(w)'
    OBVIOUS
  <2>1. Observed' = Observed /\ Fresh(w)
    BY <1>1, <1>2 DEF Observed, ViewsOK
  <2>2. CASE w = v
    BY <1>2, <1>8, <1>9, <1>10, <2>2 DEF Fresh
  <2>3. CASE w # v
    BY <1>2, <1>10, <2>1, <2>3 DEF Fresh
  <2> QED BY <2>2, <2>3
<1>17. \A w \in Views : query'[w] \in Entry(w) /\ query'[w].at <= writes' /\ query'[w].gotAt <= writes'
  BY <1>1, <1>2, <1>8, <1>9, <1>10 DEF ViewsOK
<1>18. ViewsOK'
  BY <1>10, <1>14, <1>15, <1>16, <1>17 DEF ViewsOK
<1> QED BY <1>4, <1>18, WholeNext

LEMMA TakeReadKeeps ==
    ASSUME SInv, NEW v \in Views, TakeRead(v)
    PROVE  SInv'
<1>1. CallsOK /\ PageOK /\ ViewsOK /\ links \in Seq(Link) /\ writes \in Nat
  BY Parts DEF CallsOK
<1>2. /\ query[v].read = "back" /\ UNCHANGED <<links, page, calls, hist>>
      /\ links' = links /\ writes' = writes /\ own' = own /\ screen' = screen /\ viewed' = viewed
  BY DEF TakeRead, page, hist
<1>3. Onward(links, links')
  BY <1>1, <1>2, OnwardSelf
<1>4. CallsOK' /\ PageOK'
  BY <1>1, <1>2, <1>3, CallsStay, PageStays DEF CallsOK
<1> DEFINE q == query[v]
           r == [NoEntry EXCEPT !.data = q.got, !.at = q.gotAt, !.crossed = q.crossed]
<1>5. /\ q \in Entry(v) /\ EntryTrue(links, v, q) /\ q.at <= writes /\ q.gotAt <= writes
      /\ v # Home => Fresh(v)
  BY <1>1 DEF ViewsOK, CacheTrue
<1>6. /\ r \in Entry(v) /\ r.data = q.got /\ r.at = q.gotAt /\ r.gotAt = 0 /\ r.read = "idle"
      /\ r.crossed = q.crossed
  BY <1>5 DEF Entry, NoEntry
<1>7. DOMAIN query' = Views /\ query'[v] = r /\ \A w \in Views \ {v} : query'[w] = query[w]
  BY <1>1 DEF TakeRead, ViewsOK
<1> HIDE DEF r
<1>8. EntryTrue(links', v, r)
  BY <1>2, <1>5, <1>6 DEF EntryTrue
<1>9. CacheTrue'
  BY <1>1, <1>2, <1>7, <1>8 DEF CacheTrue, ViewsOK
<1>10. ReadsOfLinks'
  <2> SUFFICES ASSUME NEW i \in Ids, query'[Detail(i)].data # None \/ query'[Detail(i)].read # "idle"
               PROVE  i \in DOMAIN links
    BY <1>2 DEF ReadsOfLinks
  <2>1. Detail(i) \in Views
    BY ViewNames
  <2>2. query[Detail(i)].data # None \/ query[Detail(i)].read # "idle"
    BY <1>1, <1>2, <1>7, <2>1
  <2> QED BY <1>1, <2>2 DEF ReadsOfLinks, ViewsOK
<1>11. \A w \in Views \ {Home} : Fresh(w)'
  <2> SUFFICES ASSUME NEW w \in Views \ {Home}
               PROVE  Fresh(w)'
    OBVIOUS
  <2>1. Observed' = Observed /\ Fresh(w)
    BY <1>1, <1>2 DEF Observed, ViewsOK
  <2>2. CASE w = v
    BY <1>2, <1>5, <1>6, <1>7, <2>2 DEF Fresh
  <2>3. CASE w # v
    BY <1>2, <1>7, <2>1, <2>3 DEF Fresh
  <2> QED BY <2>2, <2>3
<1>12. \A w \in Views : query'[w] \in Entry(w) /\ query'[w].at <= writes' /\ query'[w].gotAt <= writes'
  BY <1>1, <1>2, <1>5, <1>6, <1>7 DEF ViewsOK
<1>13. ViewsOK'
  BY <1>7, <1>9, <1>10, <1>11, <1>12 DEF ViewsOK
<1> QED BY <1>4, <1>13, WholeNext

LEMMA FailReadKeeps ==
    ASSUME SInv, NEW v \in Views, FailRead(v)
    PROVE  SInv'
<1>1. CallsOK /\ PageOK /\ ViewsOK /\ links \in Seq(Link) /\ writes \in Nat /\ calls \in Seq(CallShape)
  BY Parts DEF CallsOK
<1>2. /\ query[v].read # "idle" /\ UNCHANGED <<links, calls, hist>>
      /\ links' = links /\ writes' = writes /\ own' = own /\ screen' = screen /\ viewed' = viewed
      /\ revoking' = revoking
  BY DEF FailRead, hist
<1>3. Onward(links, links')
  BY <1>1, <1>2, OnwardSelf
<1>4. CallsOK'
  BY <1>1, <1>2, <1>3, CallsStay
<1>5. PageOK'
  <2>1. dialog' = dialog \/ dialog' = [dialog EXCEPT !.call = 0, !.done = FALSE]
    BY DEF FailRead
  <2>2. /\ dialog \in [kind : {"none", "send", "resend", "revoke"}, link : Nat, call : Nat, done : BOOLEAN]
        /\ dialog.call \in 0 .. Len(calls) /\ 0 \in 0 .. Len(calls)
    BY <1>1 DEF PageOK
  <2>3. /\ dialog' \in [kind : {"none", "send", "resend", "revoke"}, link : Nat, call : Nat, done : BOOLEAN]
        /\ dialog'.kind = dialog.kind /\ dialog'.link = dialog.link /\ dialog'.call \in 0 .. Len(calls)
    <3>1. CASE dialog' = dialog
      BY <2>2, <3>1
    <3>2. CASE dialog' = [dialog EXCEPT !.call = 0, !.done = FALSE]
      <4> DEFINE d == [dialog EXCEPT !.call = 0]
      <4>1. /\ d \in [kind : {"none", "send", "resend", "revoke"}, link : Nat, call : Nat, done : BOOLEAN]
            /\ d.kind = dialog.kind /\ d.link = dialog.link /\ d.call = 0
        BY <2>2
      <4>2. dialog' = [d EXCEPT !.done = FALSE]
        BY <2>2, <3>2
      <4> HIDE DEF d
      <4> QED BY <2>2, <4>1, <4>2
    <3> QED BY <2>1, <3>1, <3>2
  <2> QED BY <1>1, <1>2, <2>3 DEF PageOK
<1> DEFINE q == query[v]
           r == [q EXCEPT !.read = "idle", !.got = None, !.gotAt = 0, !.failed = TRUE]
<1>6. q \in Entry(v) /\ EntryTrue(links, v, q) /\ q.at <= writes
  BY <1>1 DEF ViewsOK, CacheTrue
<1>7. r \in Entry(v) /\ r.data = q.data /\ r.at = q.at /\ r.gotAt = 0 /\ r.read = "idle" /\ r.failed
  BY <1>6 DEF Entry
<1>8. DOMAIN query' = Views /\ query'[v] = r /\ \A w \in Views \ {v} : query'[w] = query[w]
  BY <1>1 DEF FailRead, ViewsOK
<1> HIDE DEF r
<1>9. Quiet
  BY <1>7, <1>8 DEF Quiet
<1>10. CacheTrue'
  BY <1>1, <1>3, <1>9, CacheStays
<1>11. ReadsOfLinks'
  <2> SUFFICES ASSUME NEW i \in Ids, query'[Detail(i)].data # None \/ query'[Detail(i)].read # "idle"
               PROVE  i \in DOMAIN links
    BY <1>2 DEF ReadsOfLinks
  <2>1. Detail(i) \in Views
    BY ViewNames
  <2>2. query[Detail(i)].data # None \/ query[Detail(i)].read # "idle"
    BY <1>1, <1>2, <1>7, <1>8, <2>1
  <2> QED BY <1>1, <2>2 DEF ReadsOfLinks, ViewsOK
<1>12. \A w \in Views \ {Home} : Fresh(w)'
  <2> SUFFICES ASSUME NEW w \in Views \ {Home}
               PROVE  Fresh(w)'
    OBVIOUS
  <2>1. Observed' = Observed /\ Fresh(w)
    BY <1>1, <1>2 DEF Observed, ViewsOK
  <2>2. CASE w = v
    BY <1>7, <1>8, <2>2 DEF Fresh
  <2>3. CASE w # v
    BY <1>2, <1>8, <2>1, <2>3 DEF Fresh
  <2> QED BY <2>2, <2>3
<1>13. \A w \in Views : query'[w] \in Entry(w) /\ query'[w].at <= writes' /\ query'[w].gotAt <= writes'
  BY <1>1, <1>2, <1>6, <1>7, <1>8 DEF ViewsOK
<1>14. ViewsOK'
  BY <1>8, <1>10, <1>11, <1>12, <1>13 DEF ViewsOK
<1> QED BY <1>4, <1>5, <1>14, WholeNext

-----------------------------------------------------------------------------
(* The theorems.                                                            *)

LEMMA InitHolds == Init => SInv
<1> SUFFICES ASSUME Init
             PROVE  SInv
  OBVIOUS
<1>1. links \in Seq(Link) /\ Len(links) <= MaxLinks
  BY ErrandsAssumption DEF Init
<1>2. calls = <<>> /\ Sending = {} /\ writes = 0 /\ own = 0
  BY DEF Init, Sending
<1>3. CallsOK
  BY <1>1, <1>2, FS_EmptySet, SentPageAssumption DEF CallsOK
<1>4. PageOK
  <2>1. viewed = 0 /\ screen # "results" /\ dialog = NoDialog /\ revoking = 0
    BY DEF Init
  <2>2. screen \in {"home", "library", "sent"}
    BY ErrandsAssumption DEF Init
  <2> QED BY <1>1, <1>2, <2>1, <2>2 DEF PageOK, NoDialog
<1>5. DOMAIN query = Views /\ \A v \in Views :
         /\ query[v] \in Entry(v) /\ query[v].at = 0 /\ query[v].gotAt = 0
         /\ query[v].data = None /\ query[v].read # "back"
         /\ query[v].read # "idle" <=> v \in Observed
  <2>1. DOMAIN query = Views /\ \A v \in Views :
           query[v] = IF v \in Observed THEN Asked(NoEntry) ELSE NoEntry
    BY DEF Init, Observed
  <2> QED BY <2>1, NoEntryFits, AskedFits
<1>6. ReadsOfLinks
  <2>1. \A i : Detail(i) \notin Observed
    BY ViewNames DEF Init, Observed, Shown
  <2> QED BY <1>5, <2>1, ViewNames DEF ReadsOfLinks
<1>7. CacheTrue
  BY <1>5 DEF CacheTrue, EntryTrue
<1>8. \A v \in Views \ {Home} : Fresh(v)
  BY <1>2, <1>5 DEF Fresh
<1>9. ViewsOK
  BY <1>2, <1>5, <1>6, <1>7, <1>8 DEF ViewsOK
<1> QED BY <1>3, <1>4, <1>9, Whole

LEMMA Unmoved ==
    ASSUME SInv, UNCHANGED vars
    PROVE  SInv'
BY DEF vars, page, hist, SInv, TypeOK, Shapes, CallTrue, Sending, ReadsOfLinks, CacheTrue, Fresh, Observed

\* A step is one of these.
LEMMA NextCases ==
    ASSUME Next
    PROVE  \/ \E s \in {"home", "library", "sent", "results"}, l \in 0 .. MaxLinks, old \in BOOLEAN : Go(s, l, old)
           \/ \E v \in Views : Ask(v)
           \/ (\/ OpenSend \/ SendAnother \/ Resend \/ Revoke \/ Dismiss
               \/ \E p \in People, ts \in SUBSET Tests : Send(p, ts)
               \/ \E i \in DOMAIN links : OpenResend(i) \/ OpenRevoke(i))
           \/ \E v \in Views : ServeRead(v) \/ TakeRead(v) \/ FailRead(v)
           \/ \E n \in DOMAIN calls : Server(n) \/ Succeed(n) \/ Fail(n) \/ Lose(n)
           \/ \E i \in DOMAIN links : Others(i)
<1>1. Refetch \/ Poll => \E v \in Views : Ask(v)
  BY DEF Refetch, Poll, Ask, Observed, Shown
<1> QED BY <1>1 DEF Next, Person, Answer

LEMMA StepKeeps == SInv /\ [Next]_vars => SInv'
<1> SUFFICES ASSUME SInv, [Next]_vars
             PROVE  SInv'
  OBVIOUS
<1>1. CASE UNCHANGED vars
  BY <1>1, Unmoved
<1>2. CASE Next
  <2>1. ASSUME NEW s \in {"home", "library", "sent", "results"}, NEW l \in 0 .. MaxLinks, NEW old \in BOOLEAN,
               Go(s, l, old)
        PROVE  SInv'
    BY <2>1, GoKeeps
  <2>2. ASSUME NEW v \in Views, Ask(v) \/ ServeRead(v) \/ TakeRead(v) \/ FailRead(v)
        PROVE  SInv'
    BY <2>2, AskKeeps, ServeReadKeeps, TakeReadKeeps, FailReadKeeps
  <2>3. ASSUME NEW n \in DOMAIN calls, Server(n) \/ Succeed(n) \/ Fail(n) \/ Lose(n)
        PROVE  SInv'
    BY <2>3, ServerKeeps, SucceedKeeps, FailKeeps
  <2>4. ASSUME NEW i \in DOMAIN links, Others(i)
        PROVE  SInv'
    BY <2>4, OthersKeep
  <2> QED BY <1>2, <2>1, <2>2, <2>3, <2>4, NextCases, DialogsKeep
<1> QED BY <1>1, <1>2

\* The inductive invariant holds in every state: what the views show was true
\* of the links and still is as far as it tells of what has ended.
THEOREM Invariance == Spec => []SInv
<1>1. Spec => Init /\ [][Next]_vars
  BY DEF Spec
<1> QED BY <1>1, InitHolds, StepKeeps, PTL

\* The server's links, the cache and the dialogs stay well formed, for any
\* number of links, reads and calls under way.
THEOREM TypeCorrect == Spec => []TypeOK
<1>1. SInv => TypeOK
  BY DEF SInv
<1> QED BY <1>1, Invariance, PTL

\* A staff member's own calls show: a list or results page that has been read
\* again, and whose read didn't fail, is from after every call they had an
\* answer to.
THEOREM OwnShow == Spec => []OwnCallsShow
<1>1. SInv => OwnCallsShow
  <2> SUFFICES ASSUME SInv, NEW v \in Observed \ {Home},
                      query[v].read = "idle", ~query[v].failed, ~query[v].crossed
               PROVE  query[v].at >= own
    BY DEF OwnCallsShow
  <2>1. v \in Views \ {Home}
    BY DEF Observed, Shown
  <2>2. Fresh(v)
    BY <2>1 DEF SInv
  <2> QED BY <2>2 DEF Fresh
<1> QED BY <1>1, Invariance, PTL

\* A view shows what it showed, or what was read for it.
LEMMA DataMoves ==
    ASSUME SInv, Next, NEW v \in Views
    PROVE  \/ query'[v].data = query[v].data
           \/ query[v].read = "back" /\ query'[v].data = query[v].got /\ links' = links
<1>1. DOMAIN query = Views /\ \A w \in Views : query[w] \in Entry(w)
  BY Parts DEF ViewsOK
<1>2. Asked(query[v]).data = query[v].data
  BY <1>1, AskedFits
<1>3. CASE query' = query
  BY <1>3
<1>4. ASSUME NEW s, NEW l, NEW old, Go(s, l, old)
      PROVE  query'[v].data = query[v].data
  BY <1>2, <1>4 DEF Go, Mounted
<1>5. ASSUME NEW w \in Views, Ask(w)
      PROVE  query'[v].data = query[v].data
  BY <1>1, <1>2, <1>5 DEF Ask
<1>6. ASSUME NEW w \in Views, ServeRead(w)
      PROVE  query'[v].data = query[v].data
  <2>1. PICK C : query' = [query EXCEPT ![w].read = "back", ![w].got = C, ![w].gotAt = writes]
    BY <1>6 DEF ServeRead
  <2>2. query' = [query EXCEPT ![w] = [query[w] EXCEPT !.read = "back", !.got = C, !.gotAt = writes]]
    BY <1>1, <2>1
  <2>3. [query[w] EXCEPT !.read = "back", !.got = C, !.gotAt = writes].data = query[w].data
    BY <1>1 DEF Entry
  <2> QED BY <1>1, <2>2, <2>3
<1>7. ASSUME NEW w \in Views, FailRead(w)
      PROVE  query'[v].data = query[v].data
  <2>1. query' = [query EXCEPT ![w] = [query[w] EXCEPT !.read = "idle", !.got = None, !.gotAt = 0, !.failed = TRUE]]
    BY <1>1, <1>7 DEF FailRead
  <2>2. [query[w] EXCEPT !.read = "idle", !.got = None, !.gotAt = 0, !.failed = TRUE].data = query[w].data
    BY <1>1 DEF Entry
  <2> QED BY <1>1, <2>1, <2>2
<1>8. ASSUME NEW w \in Views, TakeRead(w)
      PROVE  \/ query'[v].data = query[v].data
             \/ query[v].read = "back" /\ query'[v].data = query[v].got /\ links' = links
  <2>1. /\ query[w].read = "back" /\ links' = links
        /\ query' = [query EXCEPT ![w] = [NoEntry EXCEPT !.data = query[w].got, !.at = query[w].gotAt,
                                                         !.crossed = query[w].crossed]]
    BY <1>8 DEF TakeRead
  <2>2. [NoEntry EXCEPT !.data = query[w].got, !.at = query[w].gotAt, !.crossed = query[w].crossed].data = query[w].got
    BY DEF NoEntry
  <2> QED BY <1>1, <2>1, <2>2
<1>9. ASSUME NEW n, Succeed(n)
      PROVE  query'[v].data = query[v].data
  <2>1. query'[v] = query[v] \/ query'[v] = Invalidated(query[v], v \in Observed)
    BY <1>9 DEF Succeed, InvalidateInvitations
  <2> DEFINE seen == v \in Observed
  <2>2. seen \in BOOLEAN
    OBVIOUS
  <2> HIDE DEF seen
  <2>3. Invalidated(query[v], seen).data = query[v].data
    BY <1>1, <2>2, InvalidatedFits
  <2> QED BY <2>1, <2>3 DEF seen
<1>10. ASSUME NEW n, Server(n) \/ Fail(n) \/ Lose(n)
       PROVE  query' = query
  BY <1>10 DEF Server, ServeRevoke, ServeSend, ServeResend, CarryOut, Refuse, Fail, Lose
<1>11. ASSUME NEW i, Others(i)
       PROVE  query' = query
  BY <1>11 DEF Others, Start, HandIn, TimeOut, Moves, Look, Expire, OtherAdmin, Changes
<1>12. ASSUME \/ OpenSend \/ SendAnother \/ Resend \/ Revoke \/ Dismiss
              \/ \E p \in People, ts \in SUBSET Tests : Send(p, ts)
              \/ \E i \in DOMAIN links : OpenResend(i) \/ OpenRevoke(i)
       PROVE  query' = query
  BY <1>12 DEF OpenSend, SendAnother, Resend, Revoke, Dismiss, Send, OpenResend, OpenRevoke
<1> QED BY <1>3, <1>4, <1>5, <1>6, <1>7, <1>8, <1>9, <1>10, <1>11, <1>12, NextCases

LEMMA ShownStays ==
    ASSUME SInv, Next, NEW i \in Ids, NEW v \in Views
    PROVE  /\ Shows(v, i) = "REVOKED" => Shows(v, i)' = "REVOKED"
           /\ Shows(v, i) = "COMPLETED" => Shows(v, i)' \in {"COMPLETED", "REVOKED"}
<1>1. CASE query'[v].data = query[v].data
  BY <1>1 DEF Shows
<1>2. CASE query[v].read = "back" /\ query'[v].data = query[v].got
  <2> SUFFICES ASSUME Shows(v, i) \in {"REVOKED", "COMPLETED"}
               PROVE  /\ Shows(v, i) = "REVOKED" => Shows(v, i)' = "REVOKED"
                      /\ Shows(v, i) = "COMPLETED" => Shows(v, i)' \in {"COMPLETED", "REVOKED"}
    OBVIOUS
  <2> DEFINE d == query[v].data  e == query[v].got
  <2>1. d # None /\ v \in {List, Detail(i)}
    BY NoneAssumption DEF Shows
  <2>2. e # None /\ Kept(links, v, d, e) /\ query[v] \in Entry(v)
    BY <1>2, <2>1, Parts DEF ViewsOK, CacheTrue, EntryTrue
  <2>3. CASE v = List
    <3>1. v # Home /\ d \in Seq(Rows) /\ e \in Seq(Rows)
      BY <2>1, <2>2, <2>3, ViewNames, RowsBounded DEF Data, Entry
    <3>2. Len(d) <= Len(e) /\ \A k \in DOMAIN d : RowKept(d[k], e[k])
      BY <2>2, <2>3, <3>1 DEF Kept
    <3>3. i \in DOMAIN d /\ Shows(v, i) = d[i].status
      BY <2>1, <2>3, NoneAssumption DEF Shows
    <3>4. i \in DOMAIN e
      BY <3>1, <3>2, <3>3
    <3>5. Shows(v, i)' = e[i].status
      BY <1>2, <2>2, <2>3, <3>4 DEF Shows
    <3> QED BY <3>2, <3>3, <3>5 DEF RowKept
  <2>4. CASE v = Detail(i)
    <3>1. v # Home /\ v # List
      BY <2>4, ViewNames
    <3>2. Shows(v, i) = d.status /\ Shows(v, i)' = e.status
      BY <1>2, <2>1, <2>2, <2>4, <3>1 DEF Shows
    <3> QED BY <2>2, <3>1, <3>2 DEF Kept, RowKept
  <2> QED BY <2>1, <2>3, <2>4
<1> QED BY <1>1, <1>2, DataMoves

LEMMA ListedStays ==
    ASSUME SInv, Next, NEW r \in Recent
    PROVE  \/ links[r.link].revoked
           \/ \E s \in Recent' : s.link = r.link /\ r.done \subseteq s.done
           \/ Full(r.at)'
<1>1. query[Home].data # None /\ r \in query[Home].data.recent
  BY DEF Recent
<1>2. CASE query'[Home].data = query[Home].data
  BY <1>1, <1>2 DEF Recent
<1>3. CASE query[Home].read = "back" /\ query'[Home].data = query[Home].got
  <2>1. query[Home].got # None /\ Kept(links, Home, query[Home].data, query[Home].got)
    BY <1>1, <1>3, ViewNames, Parts DEF ViewsOK, CacheTrue, EntryTrue
  <2>2. Recent' = query[Home].got.recent
    BY <1>3, <2>1 DEF Recent
  <2> QED BY <1>1, <2>1, <2>2 DEF Kept, Full
<1> QED BY <1>2, <1>3, ViewNames, DataMoves

\* No read takes back what was shown as ended: not the one that overtook
\* another, nor one that was under way while the link was resent, and not
\* after a failure either.
THEOREM EndedStays == Spec => EndedStaysShown
<1>1. SInv /\ [Next]_vars =>
         [/\ \A i \in Ids, v \in Views :
                /\ Shows(v, i) = "REVOKED" => Shows(v, i)' = "REVOKED"
                /\ Shows(v, i) = "COMPLETED" => Shows(v, i)' \in {"COMPLETED", "REVOKED"}
          /\ \A r \in Recent :
                \/ links[r.link].revoked
                \/ \E s \in Recent' : s.link = r.link /\ r.done \subseteq s.done
                \/ Full(r.at)']_vars
  BY ShownStays, ListedStays
<1>2. Spec => [][Next]_vars
  BY DEF Spec
<1> QED BY <1>1, <1>2, Invariance, PTL DEF EndedStaysShown

=============================================================================
