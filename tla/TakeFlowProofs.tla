--------------------------- MODULE TakeFlowProofs ---------------------------
(***************************************************************************)
(* FInv is an invariant of TakeFlow, for any number of tests, questions,   *)
(* options, tries, saves and hand-ins, and what follows from it.           *)
(***************************************************************************)
EXTENDS TakeFlowInv, FunctionTheorems, FiniteSetTheorems, SequenceTheorems, TLAPS

-----------------------------------------------------------------------------
(* A set in some order, and the saves of a set of answers.                  *)

LEMMA OrderOfSet ==
    ASSUME NEW S, IsFiniteSet(S)
    PROVE  /\ SetToSeq(S) \in Seq(S)
           /\ \A x \in S : \E k \in DOMAIN SetToSeq(S) : SetToSeq(S)[k] = x
           /\ \A j, k \in DOMAIN SetToSeq(S) : SetToSeq(S)[j] = SetToSeq(S)[k] => j = k
<1> DEFINE n == Cardinality(S)
           f == SetToSeq(S)
<1>1. n \in Nat /\ ExistsBijection(1..n, S)
  BY FS_CardinalityType
<1>2. PICK g : g \in Bijection(1..n, S)
  BY <1>1, Fun_ExistsBij
<1>3. g \in [1..n -> S] /\ IsInjective(g)
  <2>1. g \in [1..n -> S] /\ \A a, b \in 1..n : g[a] = g[b] => a = b
    BY <1>2, Fun_BijectionProperties, Zenon
  <2> QED BY <2>1 DEF IsInjective
<1>4. f \in [1..n -> S] /\ IsInjective(f)
  BY <1>3 DEF SetToSeq
<1>5. f \in Injection(1..n, S)
  BY <1>4, Fun_IsInj DEF IsInjective
<1>6. IsFiniteSet(1..n) /\ Cardinality(1..n) = n
  BY <1>1, FS_Interval
<1>7. f \in Surjection(1..n, S)
  BY <1>5, <1>6, FS_Injection
<1>8. \A x \in S : \E k \in 1..n : f[k] = x
  BY <1>7 DEF Surjection
<1>9. f \in Seq(S)
  BY <1>1, <1>4
<1> QED BY <1>4, <1>8, <1>9 DEF IsInjective

LEMMA IdsFinite == IsFiniteSet(Ids)
  BY TakeFlowAssumption, FS_Product DEF Ids

Answers == [Ids -> Options \cup {None}]

\* persist(): one new save for each answer, last in its question's chain.
LEMMA PersistMakes ==
    ASSUME TypeOK, NEW t \in Tests, NEW answers \in Answers, Persist(t, answers)
    PROVE  /\ saves' \in Seq(Saves) /\ Len(saves') \in Nat /\ Len(saves) <= Len(saves')
           /\ DOMAIN saves = 1 .. Len(saves) /\ DOMAIN saves' = 1 .. Len(saves')
           /\ \A n \in DOMAIN saves : saves'[n] = saves[n]
           /\ \A n \in DOMAIN saves' \ DOMAIN saves :
                 \E i \in Ids : answers[i] # None /\ chains'[i] = n
           /\ \A i \in Ids :
                 /\ answers[i] # None =>
                       /\ chains'[i] \in DOMAIN saves' \ DOMAIN saves
                       /\ saves'[chains'[i]] = NewSave(t, i, answers[i])
                 /\ answers[i] = None => chains'[i] = chains[i]
           /\ chains' \in [Ids -> 0 .. Len(saves')]
<1> DEFINE ids == {i \in Ids : answers[i] # None}
           order == SetToSeq(ids)
           new == [k \in DOMAIN order |-> NewSave(t, order[k], answers[order[k]])]
           place(i) == CHOOSE k \in DOMAIN order : order[k] = i
<1>1. IsFiniteSet(ids)
  BY IdsFinite, FS_Subset
<1> HIDE DEF ids
<1>2. /\ order \in Seq(ids) /\ DOMAIN order = 1 .. Len(order) /\ Len(order) \in Nat
      /\ \A i \in ids : \E k \in DOMAIN order : order[k] = i
      /\ \A k \in DOMAIN order : order[k] \in ids
      /\ \A j, k \in DOMAIN order : order[j] = order[k] => j = k
  BY <1>1, OrderOfSet
<1>3. \A i \in ids : i \in Ids /\ answers[i] \in Options /\ answers[i] # None
  BY DEF ids, Answers
<1>4. saves \in Seq(Saves) /\ chains \in [Ids -> 0 .. Len(saves)] /\ Len(saves) \in Nat
      /\ DOMAIN saves = 1 .. Len(saves)
  BY DEF TypeOK
<1>5. \A i \in ids : NewSave(t, i, answers[i]) \in Saves
  <2>1. 0 \in 0 .. Tries - 1
    BY TakeFlowAssumption
  <2>2. \A i \in Ids : chains[i] \in Nat
    BY <1>4
  <2> QED BY <1>3, <2>1, <2>2 DEF NewSave, Saves
<1>6. saves' = saves \o new /\ chains' = [i \in Ids |->
          IF i \in ids THEN Len(saves) + place(i) ELSE chains[i]]
  BY DEF Persist, ids
<1> HIDE DEF order
<1>7. \A k \in DOMAIN order : new[k] \in Saves
  BY <1>2, <1>5
<1>8. new \in Seq(Saves) /\ Len(new) = Len(order)
  BY <1>2, <1>7
<1>9. \A i \in ids : place(i) \in DOMAIN order /\ order[place(i)] = i
  BY <1>2
<1>10. \A k \in DOMAIN order : new[k] = NewSave(t, order[k], answers[order[k]])
  OBVIOUS
<1> HIDE DEF new, place
<1>11. /\ saves' \in Seq(Saves) /\ Len(saves') = Len(saves) + Len(order)
       /\ \A n \in 1 .. Len(saves) + Len(order) :
             saves'[n] = IF n <= Len(saves) THEN saves[n] ELSE new[n - Len(saves)]
  <2>1. /\ saves \o new \in Seq(Saves) /\ Len(saves \o new) = Len(saves) + Len(new)
        /\ \A n \in 1 .. Len(saves) + Len(new) :
              (saves \o new)[n] = IF n <= Len(saves) THEN saves[n] ELSE new[n - Len(saves)]
    BY <1>4, <1>8, ConcatProperties, Zenon
  <2> QED BY <1>6, <1>8, <2>1, Zenon
<1>12. DOMAIN saves' = 1 .. Len(saves')
  BY <1>11
<1>13. \A i \in ids : /\ chains'[i] \in DOMAIN saves' \ DOMAIN saves
                      /\ saves'[chains'[i]] = NewSave(t, i, answers[i])
  <2> TAKE i \in ids
  <2>1. chains'[i] = Len(saves) + place(i) /\ place(i) \in 1 .. Len(order)
    BY <1>2, <1>3, <1>6, <1>9
  <2>2. chains'[i] \in DOMAIN saves' \ DOMAIN saves /\ chains'[i] - Len(saves) = place(i)
    BY <1>2, <1>4, <1>11, <1>12, <2>1
  <2>3. saves'[chains'[i]] = new[place(i)]
    BY <1>2, <1>4, <1>11, <2>1, <2>2
  <2> QED BY <1>9, <1>10, <2>2, <2>3
<1>14. \A n \in DOMAIN saves' \ DOMAIN saves : \E i \in ids : chains'[i] = n
  <2> TAKE n \in DOMAIN saves' \ DOMAIN saves
  <2> DEFINE k == n - Len(saves)
  <2>1. k \in DOMAIN order /\ n = Len(saves) + k
    <3>1. Len(saves') = Len(saves) + Len(order)
      BY <1>11
    <3>2. n \in 1 .. Len(saves') /\ n \notin 1 .. Len(saves)
      BY <1>4, <1>12
    <3> QED BY <1>2, <1>4, <3>1, <3>2
  <2> HIDE DEF k
  <2>2. order[k] \in ids /\ place(order[k]) = k
    <3>1. order[k] \in ids
      BY <1>2, <2>1
    <3>2. place(order[k]) \in DOMAIN order /\ order[place(order[k])] = order[k]
      BY <1>9, <3>1
    <3> QED BY <1>2, <2>1, <3>1, <3>2
  <2> QED BY <1>3, <1>6, <2>1, <2>2
<1>15. \A i \in Ids : i \in ids <=> answers[i] # None
  BY DEF ids
<1>16. \A i \in Ids : i \notin ids => chains'[i] = chains[i]
  BY <1>6
<1>17. chains' \in [Ids -> 0 .. Len(saves')]
  <2>1. Len(saves') = Len(saves) + Len(order)
    BY <1>11
  <2>2. ASSUME NEW i \in Ids PROVE chains'[i] \in 0 .. Len(saves')
    <3>1. CASE i \in ids
      BY <1>12, <1>13, <1>2, <1>4, <2>1, <3>1
    <3>2. CASE i \notin ids
      BY <1>16, <1>4, <1>2, <2>1, <3>2
    <3> QED BY <3>1, <3>2
  <2>3. DOMAIN chains' = Ids /\ chains' = [i \in Ids |-> chains'[i]]
    BY <1>6
  <2> QED BY <2>2, <2>3
<1>18. Len(saves') = Len(saves) + Len(order) /\ saves' \in Seq(Saves)
  BY <1>11
<1>19. Len(saves') \in Nat /\ Len(saves) <= Len(saves')
  BY <1>2, <1>4, <1>18
<1>20. \A n \in DOMAIN saves : saves'[n] = saves[n]
  BY <1>2, <1>4, <1>11
<1> QED BY <1>3, <1>4, <1>12, <1>13, <1>14, <1>15, <1>16, <1>17, <1>18, <1>19, <1>20

-----------------------------------------------------------------------------
(* What the steps of one save leave alone.                                  *)

\* Save n has changed its state and no other save has changed.
Moved(n) ==
    /\ saves' \in Seq(Saves) /\ Len(saves') = Len(saves) /\ DOMAIN saves' = DOMAIN saves
    /\ \A m \in DOMAIN saves : m # n => saves'[m] = saves[m]
    /\ saves'[n].id = saves[n].id /\ saves'[n].test = saves[n].test

LEMMA SavesTyped ==
    ASSUME TypeOK
    PROVE  /\ Len(saves) \in Nat /\ DOMAIN saves = 1 .. Len(saves)
           /\ \A n \in DOMAIN saves :
                 /\ saves[n] \in Saves
                 /\ saves[n].id \in Ids /\ saves[n].test \in Tests
                 /\ saves[n].option \in Options \cup {None} /\ saves[n].after \in Nat
                 /\ saves[n].tries \in 0 .. Tries - 1
                 /\ saves[n].stale \in BOOLEAN
<1>1. saves \in Seq(Saves)
  BY DEF TypeOK
<1>2. \A n \in DOMAIN saves : saves[n] \in Saves
  BY <1>1
<1>3. Len(saves) \in Nat /\ DOMAIN saves = 1 .. Len(saves)
  BY <1>1
<1>4. \A r \in Saves : /\ r.id \in Ids /\ r.test \in Tests
                       /\ r.option \in Options \cup {None} /\ r.after \in Nat
                       /\ r.tries \in 0 .. Tries - 1 /\ r.stale \in BOOLEAN
  BY DEF Saves
<1> QED BY <1>2, <1>3, <1>4

LEMMA Replaced ==
    ASSUME TypeOK, NEW n \in DOMAIN saves, NEW r \in Saves,
           saves' = [saves EXCEPT ![n] = r],
           r.id = saves[n].id, r.test = saves[n].test
    PROVE  Moved(n) /\ saves'[n] = r
<1>1. saves \in Seq(Saves)
  BY DEF TypeOK
<1>2. saves' \in Seq(Saves) /\ Len(saves') = Len(saves)
  BY <1>1, ExceptSeq
<1>3. DOMAIN saves' = DOMAIN saves /\ saves'[n] = r
      /\ \A m \in DOMAIN saves : m # n => saves'[m] = saves[m]
  BY <1>1
<1> QED BY <1>2, <1>3 DEF Moved

States == {"ready", "sent", "saved", "time up", "refused", "no link", "settled"}

LEMMA SetSaveMoves ==
    ASSUME TypeOK, NEW n \in DOMAIN saves, NEW s \in States, SetSave(n, s)
    PROVE  /\ Moved(n)
           /\ saves'[n].state = s /\ saves'[n].option = saves[n].option
           /\ saves'[n].after = saves[n].after /\ saves'[n].tries = saves[n].tries
           /\ saves'[n].stale = saves[n].stale
<1> DEFINE r == [saves[n] EXCEPT !.state = s]
<1>1. saves[n] \in Saves
  BY SavesTyped
<1>2. /\ r \in Saves /\ r.id = saves[n].id /\ r.test = saves[n].test
      /\ r.state = s /\ r.option = saves[n].option
      /\ r.after = saves[n].after /\ r.tries = saves[n].tries
      /\ r.stale = saves[n].stale
  BY <1>1 DEF Saves, States
<1>3. saves' = [saves EXCEPT ![n] = r]
  BY DEF SetSave
<1> HIDE DEF r
<1> QED BY <1>2, <1>3, Replaced

LEMMA SettleMoves ==
    ASSUME TypeOK, NEW n \in DOMAIN saves, Settle(n)
    PROVE  Moved(n) /\ saves'[n].state = "settled"
<1> DEFINE r == [saves[n] EXCEPT !.state = "settled", !.option = None, !.after = 0,
                                 !.tries = 0, !.stale = FALSE]
<1>1. saves[n] \in Saves
  BY SavesTyped
<1>2. 0 \in 0 .. Tries - 1
  BY TakeFlowAssumption
<1>3. /\ r \in Saves /\ r.id = saves[n].id /\ r.test = saves[n].test
      /\ r.state = "settled"
  BY <1>1, <1>2 DEF Saves
<1>4. saves' = [saves EXCEPT ![n] = r]
  BY DEF Settle
<1> HIDE DEF r
<1> QED BY <1>3, <1>4, Replaced

\* saveWithRetry() before its last try.
LEMMA RetryMoves ==
    ASSUME TypeOK, NEW n \in DOMAIN saves, SaveFails(n), ~GivesUp(n)
    PROVE  /\ Moved(n)
           /\ saves'[n].state = "ready" /\ saves'[n].option = saves[n].option
           /\ saves'[n].after = saves[n].after /\ saves'[n].stale = saves[n].stale
<1> DEFINE r == [saves[n] EXCEPT !.tries = saves[n].tries + 1, !.state = "ready"]
<1>1. saves[n] \in Saves
  BY SavesTyped
<1>2. saves[n].tries + 1 \in 0 .. Tries - 1
  BY SavesTyped, TakeFlowAssumption DEF GivesUp
<1>3. /\ r \in Saves /\ r.id = saves[n].id /\ r.test = saves[n].test
      /\ r.state = "ready" /\ r.option = saves[n].option
      /\ r.after = saves[n].after /\ r.stale = saves[n].stale
  BY <1>1, <1>2 DEF Saves
<1>4. saves' = [saves EXCEPT ![n] = r]
  BY DEF SaveFails
<1> HIDE DEF r
<1> QED BY <1>3, <1>4, Replaced

\* The test starts: every save under way is stale from now on.
LEMMA StartMakesStale ==
    ASSUME TypeOK, NEW t \in Tests, StartReplies(t)
    PROVE  /\ saves' \in Seq(Saves) /\ Len(saves') = Len(saves) /\ DOMAIN saves' = DOMAIN saves
           /\ \A n \in DOMAIN saves :
                 /\ saves'[n].id = saves[n].id /\ saves'[n].test = saves[n].test
                 /\ saves'[n].state = saves[n].state
                 /\ saves[n].state # "settled" => saves'[n].stale
<1>1. \A n \in DOMAIN saves :
         /\ [saves[n] EXCEPT !.stale = TRUE] \in Saves
         /\ [saves[n] EXCEPT !.stale = TRUE].id = saves[n].id
         /\ [saves[n] EXCEPT !.stale = TRUE].test = saves[n].test
         /\ [saves[n] EXCEPT !.stale = TRUE].state = saves[n].state
         /\ [saves[n] EXCEPT !.stale = TRUE].stale
  BY SavesTyped DEF Saves
<1>2. saves' = [n \in DOMAIN saves |->
                   IF Unsettled(n) THEN [saves[n] EXCEPT !.stale = TRUE] ELSE saves[n]]
  BY DEF StartReplies
<1>3. \A n \in DOMAIN saves :
         saves'[n] = IF saves[n].state # "settled" THEN [saves[n] EXCEPT !.stale = TRUE]
                     ELSE saves[n]
  BY <1>2 DEF Unsettled
<1>4. DOMAIN saves' = 1 .. Len(saves) /\ Len(saves) \in Nat
  BY <1>2, SavesTyped
<1>5. \A n \in DOMAIN saves : saves'[n] \in Saves
  BY <1>1, <1>3, SavesTyped
<1>6. saves' \in [1 .. Len(saves) -> Saves]
  BY <1>2, <1>4, <1>5, SavesTyped
<1>7. saves' \in Seq(Saves) /\ Len(saves') = Len(saves)
  BY <1>4, <1>6
<1> QED BY <1>1, <1>3, <1>4, <1>7, SavesTyped

-----------------------------------------------------------------------------
(* The saves of a question stay in line.                                    *)

\* A save moves on that is not behind a live one.
LEMMA LineAfterMove ==
    ASSUME TypeOK, InLine, ChainsTrue, NEW n \in DOMAIN saves, Moved(n),
           UNCHANGED chains,
           \A k \in DOMAIN saves : k < n /\ saves[k].id = saves[n].id => ~Live(k),
           Live(n)' => Live(n)
    PROVE  InLine' /\ ChainsTrue'
<1>1. DOMAIN saves' = DOMAIN saves /\ DOMAIN saves = 1 .. Len(saves) /\ Len(saves) \in Nat
  BY SavesTyped DEF Moved
<1>2. \A m \in DOMAIN saves : saves'[m].id = saves[m].id /\ (m # n => saves'[m] = saves[m])
  BY DEF Moved
<1>3. ASSUME NEW k \in DOMAIN saves, Live(k)'
      PROVE  /\ chains'[saves'[k].id] >= k
             /\ \A m \in DOMAIN saves : m > k /\ saves'[m].id = saves'[k].id => Behind(m, k)'
  <2>1. Live(k)
    BY <1>2, <1>3 DEF Live, Unsettled
  <2>2. chains[saves[k].id] >= k
        /\ \A m \in DOMAIN saves : m > k /\ saves[m].id = saves[k].id => Behind(m, k)
    BY <2>1 DEF InLine
  <2>3. ASSUME NEW m \in DOMAIN saves, m > k, saves'[m].id = saves'[k].id
        PROVE  Behind(m, k)'
    <3>1. Behind(m, k)
      BY <1>2, <2>2, <2>3
    <3>2. m # n
      BY <1>2, <2>1, <2>3
    <3>3. saves[m].after \in DOMAIN saves
      BY <1>1, <3>1 DEF Behind
    <3> QED BY <1>2, <3>1, <3>2, <3>3 DEF Behind
  <2> QED BY <1>2, <2>2, <2>3
<1>4. InLine'
  BY <1>1, <1>3 DEF InLine
<1>5. ChainsTrue'
  <2>1. \A i \in Ids : chains[i] # 0 => chains[i] \in DOMAIN saves
    BY <1>1 DEF TypeOK
  <2> QED BY <1>2, <2>1 DEF ChainsTrue
<1> QED BY <1>4, <1>5

\* Turn(n): whoever may be sent is behind nobody.
LEMMA TurnIsFirst ==
    ASSUME TypeOK, InLine, NEW n \in DOMAIN saves,
           saves[n].state = "ready" => Turn(n)
    PROVE  \A k \in DOMAIN saves : k < n /\ saves[k].id = saves[n].id => ~Live(k)
<1> SUFFICES ASSUME NEW k \in DOMAIN saves, k < n, saves[k].id = saves[n].id, Live(k)
             PROVE  FALSE
  OBVIOUS
<1>0. DOMAIN saves = 1 .. Len(saves) /\ Len(saves) \in Nat
  BY SavesTyped
<1>1. Behind(n, k)
  BY <1>0 DEF InLine
<1> DEFINE a == saves[n].after
<1>2. a \in DOMAIN saves /\ a >= k /\ a < n /\ saves[a].id = saves[k].id /\ a # 0
  BY <1>0, <1>1 DEF Behind
<1>3. ~Unsettled(a)
  BY <1>1, <1>2 DEF Behind, Turn
<1>4. CASE a = k
  BY <1>3, <1>4 DEF Live
<1>5. CASE a > k
  <2>1. Behind(a, k)
    BY <1>2, <1>5 DEF InLine
  <2> QED BY <1>3, <2>1 DEF Behind, Unsettled
<1> QED BY <1>0, <1>2, <1>4, <1>5

LEMMA LineAfterPersist ==
    ASSUME TypeOK, InLine, ChainsTrue, NEW t \in Tests, NEW answers \in Answers,
           Persist(t, answers)
    PROVE  InLine' /\ ChainsTrue'
<1>1. /\ Len(saves) \in Nat /\ Len(saves') \in Nat /\ Len(saves) <= Len(saves')
      /\ DOMAIN saves = 1 .. Len(saves) /\ DOMAIN saves' = 1 .. Len(saves')
      /\ \A n \in DOMAIN saves : saves'[n] = saves[n]
      /\ chains \in [Ids -> 0 .. Len(saves)]
  BY PersistMakes, SavesTyped DEF TypeOK
<1>2. \A n \in DOMAIN saves' \ DOMAIN saves : \E i \in Ids : answers[i] # None /\ chains'[i] = n
  BY PersistMakes
<1>3. \A i \in Ids :
         /\ answers[i] # None =>
               /\ chains'[i] \in DOMAIN saves' \ DOMAIN saves
               /\ saves'[chains'[i]] = NewSave(t, i, answers[i])
         /\ answers[i] = None => chains'[i] = chains[i]
  BY PersistMakes
<1>4. \A i \in Ids : answers[i] # None =>
         /\ saves'[chains'[i]].id = i /\ saves'[chains'[i]].state = "ready"
         /\ saves'[chains'[i]].tries = 0 /\ saves'[chains'[i]].after = chains[i]
  <2> TAKE i \in Ids
  <2>1. /\ NewSave(t, i, answers[i]).id = i /\ NewSave(t, i, answers[i]).state = "ready"
        /\ NewSave(t, i, answers[i]).tries = 0
        /\ NewSave(t, i, answers[i]).after = chains[i]
    BY DEF NewSave
  <2> QED BY <1>3, <2>1
<1>5. \A i \in Ids : chains'[i] >= chains[i]
  <2> SUFFICES ASSUME NEW i \in Ids PROVE chains'[i] >= chains[i]
    OBVIOUS
  <2>1. chains[i] \in 0 .. Len(saves)
    BY <1>1
  <2> QED BY <1>1, <1>3, <2>1
<1>6. ASSUME NEW k \in DOMAIN saves', Live(k)'
      PROVE  /\ chains'[saves'[k].id] >= k
             /\ \A m \in DOMAIN saves' : m > k /\ saves'[m].id = saves'[k].id => Behind(m, k)'
  <2>1. CASE k \in DOMAIN saves
    <3> DEFINE i == saves[k].id
    <3>1. Live(k) /\ saves'[k].id = i /\ i \in Ids
      BY <1>1, <1>6, <2>1, SavesTyped DEF Live, Unsettled
    <3>2. chains[i] >= k
          /\ \A m \in DOMAIN saves : m > k /\ saves[m].id = i => Behind(m, k)
      BY <2>1, <3>1 DEF InLine
    <3>3. chains[i] \in 0 .. Len(saves) /\ chains'[i] \in Int
      <4>1. chains[i] \in 0 .. Len(saves)
        BY <1>1, <3>1
      <4> QED BY <1>1, <1>3, <3>1, <4>1
    <3> HIDE DEF i
    <3>4. chains'[i] >= k
      BY <1>1, <1>5, <2>1, <3>1, <3>2, <3>3
    <3>5. ASSUME NEW m \in DOMAIN saves', m > k, saves'[m].id = i
          PROVE  Behind(m, k)'
      <4>1. CASE m \in DOMAIN saves
        <5>1. Behind(m, k)
          BY <1>1, <3>2, <3>5, <4>1
        <5>2. saves[m].after \in DOMAIN saves
          BY <1>1, <2>1, <4>1, <5>1 DEF Behind
        <5> QED BY <1>1, <2>1, <4>1, <5>1, <5>2 DEF Behind
      <4>2. CASE m \notin DOMAIN saves
        <5>1. PICK j \in Ids : answers[j] # None /\ chains'[j] = m
          BY <1>2, <4>2
        <5>2. j = i
          BY <1>4, <3>5, <5>1
        <5>3. /\ saves'[m].state = "ready" /\ saves'[m].tries = 0
              /\ saves'[m].after = chains[i]
          BY <1>4, <5>1, <5>2
        <5>4. chains[i] \in DOMAIN saves /\ chains[i] \in k .. (m - 1) /\ chains[i] # 0
          BY <1>1, <2>1, <3>2, <3>3, <4>2
        <5>5. saves[chains[i]].id = i
          BY <3>1, <5>4 DEF ChainsTrue
        <5> QED BY <1>1, <3>1, <5>3, <5>4, <5>5 DEF Behind
      <4> QED BY <4>1, <4>2
    <3> QED BY <3>1, <3>4, <3>5
  <2>2. CASE k \notin DOMAIN saves
    <3>1. PICK i \in Ids : answers[i] # None /\ chains'[i] = k
      BY <1>2, <2>2
    <3>2. saves'[k].id = i
      BY <1>4, <3>1
    <3>3. ASSUME NEW m \in DOMAIN saves', m > k, saves'[m].id = i
          PROVE  FALSE
      <4>1. m \notin DOMAIN saves
        BY <1>1, <2>2, <3>3
      <4>2. PICK j \in Ids : answers[j] # None /\ chains'[j] = m
        BY <1>2, <4>1
      <4>3. j = i
        BY <1>4, <3>3, <4>2
      <4> QED BY <1>1, <3>1, <3>3, <4>2, <4>3
    <3> QED BY <1>1, <3>1, <3>2, <3>3
  <2> QED BY <2>1, <2>2
<1>7. InLine'
  BY <1>6 DEF InLine
<1>8. ChainsTrue'
  <2> SUFFICES ASSUME NEW i \in Ids, chains'[i] # 0
               PROVE  saves'[chains'[i]].id = i
    BY DEF ChainsTrue
  <2>1. CASE answers[i] # None
    BY <1>4, <2>1
  <2>2. CASE answers[i] = None
    <3>1. chains'[i] = chains[i] /\ chains[i] \in DOMAIN saves
      BY <1>1, <1>3, <2>2
    <3> QED BY <1>1, <3>1 DEF ChainsTrue
  <2> QED BY <2>1, <2>2
<1> QED BY <1>7, <1>8

LEMMA LineAfterStart ==
    ASSUME TypeOK, NEW t \in Tests, StartReplies(t)
    PROVE  InLine' /\ ChainsTrue'
<1>1. \A n \in DOMAIN saves' : ~Live(n)'
  BY StartMakesStale DEF Live, Unsettled
<1>2. \A i \in Ids : chains'[i] = 0
  BY DEF StartReplies
<1> QED BY <1>1, <1>2 DEF InLine, ChainsTrue

-----------------------------------------------------------------------------
(* A calm question stays calm.                                              *)

\* Nothing has settled and nothing was made; the runner may have closed.
LEMMA CalmStays ==
    ASSUME NEW i \in Ids, CalmQuestion(i),
           Pending(i)' = Pending(i),
           \A n \in Pending(i) :
              /\ saves'[n].option = saves[n].option
              /\ saves'[n].state = "saved" => stored'[i] = saves[n].option,
           unsaved'[i] = unsaved[i],
           \/ stored'[i] = stored[i]
           \/ \E n \in Pending(i) : stored'[i] = saves[n].option,
           given'[i] = given[i] \/ given'[i] = None,
           IsClosed(i[1]) => IsClosed(i[1])', linkOpen' => linkOpen
    PROVE  CalmQuestion(i)'
<1>1. \A m, n \in Pending(i)' : m = n
  BY DEF CalmQuestion
<1>2. unsaved'[i] # None => Pending(i)' = {}
  BY DEF CalmQuestion
<1>3. \A n \in Pending(i)' :
         /\ saves'[n].state = "saved" => stored'[i] = saves'[n].option
         /\ given'[i] # None => saves'[n].option = given'[i]
  BY DEF CalmQuestion
<1>4. given'[i] # None /\ unsaved'[i] # None => unsaved'[i] = given'[i]
  BY DEF CalmQuestion
<1>5. ASSUME given'[i] # None, ~IsClosed(i[1])', linkOpen'
      PROVE  \/ stored'[i] = given'[i]
             \/ unsaved'[i] = given'[i]
             \/ \E n \in Pending(i)' : saves'[n].option = given'[i]
  <2>1. given'[i] = given[i] /\ given[i] # None /\ ~IsClosed(i[1]) /\ linkOpen
    BY <1>5
  <2>2. \/ stored[i] = given[i]
        \/ unsaved[i] = given[i]
        \/ \E n \in Pending(i) : saves[n].option = given[i]
    BY <2>1 DEF CalmQuestion
  <2>3. \A n \in Pending(i) : saves[n].option = given[i]
    BY <2>1 DEF CalmQuestion
  <2> QED BY <2>1, <2>2, <2>3
<1> QED BY <1>1, <1>2, <1>3, <1>4, <1>5 DEF CalmQuestion

LEMMA PendingAfterMove ==
    ASSUME NEW n \in DOMAIN saves, Moved(n), Unsettled(n), NEW i \in Ids
    PROVE  /\ i # saves[n].id => Pending(i)' = Pending(i)
           /\ i = saves[n].id /\ saves'[n].state # "settled" => Pending(i)' = Pending(i)
           /\ i = saves[n].id /\ saves'[n].state = "settled" => Pending(i)' = Pending(i) \ {n}
           /\ i = saves[n].id => n \in Pending(i)
           /\ \A m \in Pending(i) : m # n => saves'[m] = saves[m]
<1>1. /\ DOMAIN saves' = DOMAIN saves
      /\ \A m \in DOMAIN saves : m # n => saves'[m] = saves[m]
      /\ saves'[n].id = saves[n].id
  BY DEF Moved
<1>2. Pending(i) = {m \in DOMAIN saves : saves[m].id = i /\ saves[m].state # "settled"}
  BY DEF Pending, Unsettled
<1>3. Pending(i)' = {m \in DOMAIN saves : saves'[m].id = i /\ saves'[m].state # "settled"}
  BY <1>1 DEF Pending, Unsettled
<1>4. saves[n].state # "settled"
  BY DEF Unsettled
<1> QED BY <1>1, <1>2, <1>3, <1>4

\* The one save of a calm question is answered or given up.
LEMMA CalmSettles ==
    ASSUME NEW n \in DOMAIN saves, NEW i \in Ids, i = saves[n].id, CalmQuestion(i),
           Unsettled(n), Moved(n), saves'[n].state = "settled",
           stored'[i] = stored[i],
           \/ saves[n].state = "saved" /\ unsaved'[i] = unsaved[i] /\ given'[i] = given[i]
           \/ unsaved'[i] = unsaved[i] /\ given'[i] = None
           \/ unsaved'[i] = unsaved[i] /\ given'[i] = given[i] /\ ~linkOpen'
           \/ unsaved'[i] = saves[n].option /\ given'[i] = given[i]
    PROVE  CalmQuestion(i)'
<1>1. n \in Pending(i) /\ Pending(i)' = {}
  BY PendingAfterMove DEF CalmQuestion
<1>2. /\ unsaved[i] = None
      /\ saves[n].state = "saved" => stored[i] = saves[n].option
      /\ given[i] # None => saves[n].option = given[i]
  BY <1>1 DEF CalmQuestion
<1> QED BY <1>1, <1>2 DEF CalmQuestion

\* persist() of what was kept: those questions have no save under way.
LEMMA CalmAfterPersist ==
    ASSUME TypeOK, NEW i \in Ids, CalmQuestion(i), NEW t \in Tests,
           Persist(t, unsaved), unsaved' = NoAnswers,
           UNCHANGED <<given, status, stored, linkOpen>>
    PROVE  CalmQuestion(i)'
<1>1. unsaved \in Answers
  BY DEF TypeOK, Answers
<1>2. /\ \A n \in DOMAIN saves : n \in DOMAIN saves' /\ saves'[n] = saves[n]
      /\ \A n \in DOMAIN saves' \ DOMAIN saves :
            \E j \in Ids : unsaved[j] # None /\ chains'[j] = n
      /\ \A j \in Ids : unsaved[j] # None =>
               /\ chains'[j] \in DOMAIN saves' \ DOMAIN saves
               /\ saves'[chains'[j]] = NewSave(t, j, unsaved[j])
  BY <1>1, PersistMakes
<1>3. \A j \in Ids : unsaved[j] # None =>
         /\ saves'[chains'[j]].id = j /\ saves'[chains'[j]].state = "ready"
         /\ saves'[chains'[j]].option = unsaved[j]
  <2> TAKE j \in Ids
  <2>1. /\ NewSave(t, j, unsaved[j]).id = j /\ NewSave(t, j, unsaved[j]).state = "ready"
        /\ NewSave(t, j, unsaved[j]).option = unsaved[j]
    BY DEF NewSave
  <2> QED BY <1>2, <2>1
<1>4. unsaved'[i] = None
  BY DEF NoAnswers
<1>5. Pending(i) = {m \in DOMAIN saves : saves[m].id = i /\ saves[m].state # "settled"}
      /\ Pending(i)' = {m \in DOMAIN saves' : saves'[m].id = i /\ saves'[m].state # "settled"}
  BY DEF Pending, Unsettled
<1>6. IsClosed(i[1])' <=> IsClosed(i[1])
  BY DEF IsClosed
<1>7. CASE unsaved[i] = None
  <2>1. \A n \in DOMAIN saves' \ DOMAIN saves : saves'[n].id # i
    BY <1>2, <1>3, <1>7
  <2>2. Pending(i)' = Pending(i)
    BY <1>2, <1>5, <2>1
  <2>3. \A n \in Pending(i) : saves'[n] = saves[n]
    BY <1>2, <1>5
  <2>4. \A n \in Pending(i) :
           /\ saves'[n].option = saves[n].option
           /\ saves'[n].state = "saved" => stored'[i] = saves[n].option
    BY <2>3 DEF CalmQuestion
  <2> QED BY <1>4, <1>6, <1>7, <2>2, <2>4, CalmStays
<1>8. CASE unsaved[i] # None
  <2>1. Pending(i) = {}
    BY <1>8 DEF CalmQuestion
  <2>2. Pending(i)' = {chains'[i]}
    <3>1. ASSUME NEW n \in Pending(i)' PROVE n = chains'[i]
      <4>1. n \in DOMAIN saves' \ DOMAIN saves /\ saves'[n].id = i
        BY <1>2, <1>5, <2>1
      <4>2. PICK j \in Ids : unsaved[j] # None /\ chains'[j] = n
        BY <1>2, <4>1
      <4> QED BY <1>3, <4>1, <4>2
    <3>2. chains'[i] \in Pending(i)'
      BY <1>2, <1>3, <1>5, <1>8
    <3> QED BY <3>1, <3>2
  <2>3. saves'[chains'[i]].state = "ready" /\ saves'[chains'[i]].option = unsaved[i]
    BY <1>3, <1>8
  <2>4. given'[i] # None => unsaved[i] = given'[i]
    BY <1>8 DEF CalmQuestion
  <2> QED BY <1>4, <2>2, <2>3, <2>4 DEF CalmQuestion
<1> QED BY <1>7, <1>8

\* choose(): the other questions keep their saves; this one has the new save,
\* and counts as calm only if it had none under way.
LEMMA CalmAfterChoose ==
    ASSUME TypeOK, NEW i \in Ids, NEW o \in Options, Choose(i, o),
           NEW j \in Ids \ hasty', CalmQuestion(j)
    PROVE  CalmQuestion(j)'
<1> DEFINE answers == [NoAnswers EXCEPT ![i] = o]
<1>1. answers \in Answers /\ answers[i] = o /\ o # None
      /\ \A k \in Ids : k # i => answers[k] = None
  BY TakeFlowAssumption DEF NoAnswers, Answers
<1>2. i[1] \in Tests /\ Persist(i[1], answers)
  BY DEF Choose, Ids
<1> HIDE DEF answers
<1>3. /\ \A n \in DOMAIN saves : n \in DOMAIN saves' /\ saves'[n] = saves[n]
      /\ \A n \in DOMAIN saves' \ DOMAIN saves :
            \E k \in Ids : answers[k] # None /\ chains'[k] = n
      /\ chains'[i] \in DOMAIN saves' \ DOMAIN saves
      /\ saves'[chains'[i]] = NewSave(i[1], i, o)
  BY <1>1, <1>2, PersistMakes
<1>4. /\ saves'[chains'[i]].id = i /\ saves'[chains'[i]].state = "ready"
      /\ saves'[chains'[i]].option = o
  <2>1. /\ NewSave(i[1], i, o).id = i /\ NewSave(i[1], i, o).state = "ready"
        /\ NewSave(i[1], i, o).option = o
    BY DEF NewSave
  <2> QED BY <1>3, <2>1
<1>5. \A n \in DOMAIN saves' \ DOMAIN saves : n = chains'[i]
  BY <1>1, <1>3
<1>6. Pending(j) = {m \in DOMAIN saves : saves[m].id = j /\ saves[m].state # "settled"}
      /\ Pending(j)' = {m \in DOMAIN saves' : saves'[m].id = j /\ saves'[m].state # "settled"}
  BY DEF Pending, Unsettled
<1>7. /\ given' = [given EXCEPT ![i] = o] /\ unsaved' = [unsaved EXCEPT ![i] = None]
      /\ UNCHANGED <<status, stored, linkOpen>>
      /\ given \in [Ids -> Options \cup {None}] /\ unsaved \in [Ids -> Options \cup {None}]
  BY DEF Choose, server, TypeOK
<1>8. CASE j = i
  <2>1. Pending(i) = {}
    <3>1. ~\E n \in DOMAIN saves : saves[n].id = i /\ Unsettled(n)
      BY <1>8 DEF Choose
    <3> QED BY <3>1 DEF Pending
  <2>2. Pending(i)' = {chains'[i]}
    BY <1>3, <1>4, <1>5, <1>6, <1>8, <2>1
  <2>3. given'[i] = o /\ unsaved'[i] = None
    BY <1>7
  <2> QED BY <1>1, <1>4, <1>8, <2>2, <2>3 DEF CalmQuestion
<1>9. CASE j # i
  <2>1. Pending(j)' = Pending(j)
    BY <1>3, <1>4, <1>5, <1>6, <1>9
  <2>2. \A n \in Pending(j) : saves'[n] = saves[n]
    BY <1>3, <1>6
  <2>3. \A n \in Pending(j) :
           /\ saves'[n].option = saves[n].option
           /\ saves'[n].state = "saved" => stored'[j] = saves[n].option
    BY <1>7, <2>2 DEF CalmQuestion
  <2>4. given'[j] = given[j] /\ unsaved'[j] = unsaved[j]
    BY <1>7, <1>9
  <2>5. IsClosed(j[1])' <=> IsClosed(j[1])
    BY <1>7 DEF IsClosed
  <2> QED BY <1>7, <2>1, <2>3, <2>4, <2>5, CalmStays
<1> QED BY <1>8, <1>9

\* The test is opened anew: what was under way then makes its question hasty.
LEMMA CalmAfterStart ==
    ASSUME TypeOK, NEW t \in Tests, StartReplies(t), NEW i \in Ids \ hasty'
    PROVE  CalmQuestion(i)'
<1>1. \A n \in DOMAIN saves : saves[n].state # "settled" => saves[n].id \in hasty'
  BY DEF StartReplies, Unsettled
<1>2. Pending(i)' = {}
  BY <1>1, StartMakesStale DEF Pending, Unsettled
<1>3. /\ unsaved'[i] = None
      /\ given'[i] # None => given'[i] = stored'[i]
  BY DEF StartReplies, NoAnswers
<1> QED BY <1>2, <1>3 DEF CalmQuestion

-----------------------------------------------------------------------------
(* TypeOK.                                                                  *)

LEMMA HandInsTyped ==
    ASSUME TypeOK
    PROVE  /\ Len(handIns) \in Nat /\ DOMAIN handIns = 1 .. Len(handIns)
           /\ \A h \in DOMAIN handIns :
                 /\ handIns[h] \in HandIns
                 /\ handIns[h].test \in Tests /\ handIns[h].timedOut \in BOOLEAN
                 /\ handIns[h].waits \in SUBSET Nat
<1>1. handIns \in Seq(HandIns)
  BY DEF TypeOK
<1>2. \A h \in DOMAIN handIns : handIns[h] \in HandIns
  BY <1>1
<1>3. Len(handIns) \in Nat /\ DOMAIN handIns = 1 .. Len(handIns)
  BY <1>1
<1>4. \A r \in HandIns : /\ r.test \in Tests /\ r.timedOut \in BOOLEAN
                         /\ r.waits \in SUBSET Nat
  BY DEF HandIns
<1> QED BY <1>2, <1>3, <1>4

HandInStates == {"waiting", "paused", "sent", "SUBMITTED", "EXPIRED", "no link", "settled", "failed"}

\* Hand-in h has gone on and no other has changed.
HandInMoved(h) ==
    /\ handIns' \in Seq(HandIns) /\ Len(handIns') = Len(handIns)
    /\ DOMAIN handIns' = DOMAIN handIns
    /\ \A g \in DOMAIN handIns : g # h => handIns'[g] = handIns[g]
    /\ handIns'[h].test = handIns[h].test
    /\ handIns'[h].timedOut => handIns[h].timedOut

LEMMA HandInReplaced ==
    ASSUME TypeOK, NEW h \in DOMAIN handIns, NEW r \in HandIns,
           handIns' = [handIns EXCEPT ![h] = r],
           r.test = handIns[h].test, r.timedOut => handIns[h].timedOut
    PROVE  HandInMoved(h) /\ handIns'[h] = r
<1>1. handIns \in Seq(HandIns)
  BY DEF TypeOK
<1>2. handIns' \in Seq(HandIns) /\ Len(handIns') = Len(handIns)
  BY <1>1, ExceptSeq
<1>3. DOMAIN handIns' = DOMAIN handIns /\ handIns'[h] = r
      /\ \A g \in DOMAIN handIns : g # h => handIns'[g] = handIns[g]
  BY <1>1
<1> QED BY <1>2, <1>3 DEF HandInMoved

LEMMA SetHandInMoves ==
    ASSUME TypeOK, NEW h \in DOMAIN handIns, NEW s \in HandInStates, SetHandIn(h, s)
    PROVE  /\ HandInMoved(h)
           /\ handIns'[h].state = s /\ handIns'[h].waits = handIns[h].waits
<1> DEFINE r == [handIns[h] EXCEPT !.state = s]
<1>1. handIns[h] \in HandIns
  BY HandInsTyped
<1>2. /\ r \in HandIns /\ r.test = handIns[h].test /\ r.timedOut = handIns[h].timedOut
      /\ r.state = s /\ r.waits = handIns[h].waits
  BY <1>1 DEF HandIns, HandInStates
<1>3. handIns' = [handIns EXCEPT ![h] = r]
  BY DEF SetHandIn
<1> HIDE DEF r
<1> QED BY <1>2, <1>3, HandInReplaced

LEMMA EndHandInMoves ==
    ASSUME TypeOK, NEW h \in DOMAIN handIns, NEW s \in HandInStates, EndHandIn(h, s)
    PROVE  /\ HandInMoved(h) /\ submitting' \in 0 .. Len(handIns')
           /\ handIns'[h].state = s /\ handIns'[h].waits = {}
<1> DEFINE r == [handIns[h] EXCEPT !.state = s, !.waits = {}, !.timedOut = FALSE]
<1>1. handIns[h] \in HandIns
  BY HandInsTyped
<1>2. /\ r \in HandIns /\ r.test = handIns[h].test /\ r.timedOut = FALSE
      /\ r.state = s /\ r.waits = {}
  BY <1>1 DEF HandIns, HandInStates
<1>3. handIns' = [handIns EXCEPT ![h] = r]
  BY DEF EndHandIn
<1> HIDE DEF r
<1>4. HandInMoved(h) /\ handIns'[h] = r
  BY <1>2, <1>3, HandInReplaced
<1>5. submitting' \in 0 .. Len(handIns')
  BY <1>4, HandInsTyped DEF EndHandIn, HandInMoved, TypeOK
<1> QED BY <1>2, <1>4, <1>5

\* handleSubmit(): one new hand-in, which waits for the last save of each question.
LEMMA HandInMakes ==
    ASSUME TypeOK, NEW t \in Tests, NEW late \in BOOLEAN, HandIn(t, late)
    PROVE  /\ Persist(t, unsaved) /\ unsaved \in Answers
           /\ handIns' \in Seq(HandIns) /\ Len(handIns') = Len(handIns) + 1
           /\ DOMAIN handIns' = 1 .. Len(handIns) + 1
           /\ \A h \in DOMAIN handIns : handIns'[h] = handIns[h]
           /\ handIns'[Len(handIns) + 1].test = t
           /\ handIns'[Len(handIns) + 1].timedOut = late
           /\ handIns'[Len(handIns) + 1].state = "waiting"
           /\ handIns'[Len(handIns) + 1].waits \in SUBSET DOMAIN saves'
<1> DEFINE waits == {chains'[i] : i \in Ids} \ {0}
           r == [test |-> t, timedOut |-> late, state |-> "waiting", waits |-> waits]
<1>1. Persist(t, unsaved) /\ unsaved \in Answers
  BY DEF HandIn, TypeOK, Answers
<1>2. chains' \in [Ids -> 0 .. Len(saves')] /\ Len(saves') \in Nat
      /\ DOMAIN saves' = 1 .. Len(saves')
  BY <1>1, PersistMakes
<1>3. waits \in SUBSET DOMAIN saves' /\ waits \in SUBSET Nat
  BY <1>2
<1>4. handIns' = Append(handIns, r)
  BY DEF HandIn
<1> HIDE DEF waits
<1>5. /\ r \in HandIns /\ r.test = t /\ r.timedOut = late
      /\ r.state = "waiting" /\ r.waits = waits
  BY <1>3 DEF HandIns
<1> HIDE DEF r
<1>6. handIns \in Seq(HandIns)
  BY DEF TypeOK
<1>7. /\ handIns' \in Seq(HandIns) /\ Len(handIns') = Len(handIns) + 1
      /\ \A h \in 1 .. Len(handIns) : handIns'[h] = handIns[h]
      /\ handIns'[Len(handIns) + 1] = r
  BY <1>4, <1>5, <1>6, AppendProperties
<1>8. Len(handIns) \in Nat /\ DOMAIN handIns = 1 .. Len(handIns)
  BY HandInsTyped
<1>9. DOMAIN handIns' = 1 .. Len(handIns) + 1
  BY <1>7, <1>8
<1> QED BY <1>1, <1>3, <1>5, <1>7, <1>8, <1>9

\* The browser is back online: what was paused is sent.
LEMMA PausedResume ==
    ASSUME TypeOK, BackOnline
    PROVE  /\ handIns' \in Seq(HandIns) /\ Len(handIns') = Len(handIns)
           /\ DOMAIN handIns' = DOMAIN handIns
           /\ \A h \in DOMAIN handIns :
                 /\ handIns[h].state # "paused" => handIns'[h] = handIns[h]
                 /\ handIns[h].state = "paused" =>
                       /\ handIns'[h].test = handIns[h].test
                       /\ handIns'[h].timedOut = handIns[h].timedOut
                       /\ handIns'[h].waits = handIns[h].waits
                       /\ handIns'[h].state = "sent"
<1>1. /\ handIns \in Seq(HandIns) /\ Len(handIns) \in Nat /\ DOMAIN handIns = 1 .. Len(handIns)
      /\ \A h \in DOMAIN handIns : handIns[h] \in HandIns
  BY HandInsTyped DEF TypeOK
<1>2. \A h \in DOMAIN handIns :
         /\ [handIns[h] EXCEPT !.state = "sent"] \in HandIns
         /\ [handIns[h] EXCEPT !.state = "sent"].test = handIns[h].test
         /\ [handIns[h] EXCEPT !.state = "sent"].timedOut = handIns[h].timedOut
         /\ [handIns[h] EXCEPT !.state = "sent"].waits = handIns[h].waits
         /\ [handIns[h] EXCEPT !.state = "sent"].state = "sent"
  BY <1>1 DEF HandIns
<1>3. /\ DOMAIN handIns' = DOMAIN handIns
      /\ \A h \in DOMAIN handIns :
            handIns'[h] = IF handIns[h].state = "paused" THEN [handIns[h] EXCEPT !.state = "sent"]
                          ELSE handIns[h]
      /\ handIns' = [h \in DOMAIN handIns |-> handIns'[h]]
  BY DEF BackOnline
<1>4. \A h \in DOMAIN handIns : handIns'[h] \in HandIns
  BY <1>1, <1>2, <1>3
<1>5. handIns' \in [1 .. Len(handIns) -> HandIns]
  BY <1>1, <1>3, <1>4
<1>6. handIns' \in Seq(HandIns) /\ Len(handIns') = Len(handIns)
  BY <1>1, <1>5
<1> QED BY <1>2, <1>3, <1>6

-----------------------------------------------------------------------------
(* What only ever goes one way.                                             *)

Forward ==
    /\ DOMAIN saves \subseteq DOMAIN saves'
    /\ \A n \in DOMAIN saves : saves[n].state = "settled" => saves'[n].state = "settled"
    /\ \A t \in Tests :
          /\ IsClosed(t) => status'[t] = status[t]
          /\ time[t] # "left" => time'[t] # "left"
          /\ time[t] = "over" => time'[t] = "over"
    /\ linkOpen' => linkOpen

LEMMA ServerForward ==
    ASSUME TypeOK,
           \/ UNCHANGED status
           \/ \E t \in Tests, s \in {"IN_PROGRESS", "SUBMITTED", "EXPIRED"} :
                 (IsClosed(t) => s = status[t]) /\ status' = [status EXCEPT ![t] = s],
           \/ UNCHANGED time
           \/ \E t \in Tests : Pass(t),
           linkOpen' => linkOpen
    PROVE  /\ \A t \in Tests :
                 /\ IsClosed(t) => status'[t] = status[t]
                 /\ time[t] # "left" => time'[t] # "left"
                 /\ time[t] = "over" => time'[t] = "over"
           /\ linkOpen' => linkOpen
           /\ status' \in [Tests -> {"NOT_STARTED", "IN_PROGRESS", "SUBMITTED", "EXPIRED"}]
           /\ time' \in [Tests -> {"left", "up", "over"}]
<1>1. /\ status \in [Tests -> {"NOT_STARTED", "IN_PROGRESS", "SUBMITTED", "EXPIRED"}]
      /\ time \in [Tests -> {"left", "up", "over"}]
  BY DEF TypeOK
<1>2. /\ \A t \in Tests : IsClosed(t) => status'[t] = status[t]
      /\ status' \in [Tests -> {"NOT_STARTED", "IN_PROGRESS", "SUBMITTED", "EXPIRED"}]
  BY <1>1 DEF IsClosed
<1>3. /\ \A t \in Tests : /\ time[t] # "left" => time'[t] # "left"
                          /\ time[t] = "over" => time'[t] = "over"
      /\ time' \in [Tests -> {"left", "up", "over"}]
  BY <1>1 DEF Pass
<1> QED BY <1>2, <1>3

\* The server's rows in every step.
LEMMA ServerSteps ==
    ASSUME TypeOK, Next
    PROVE  /\ \A t \in Tests :
                 /\ IsClosed(t) => status'[t] = status[t]
                 /\ time[t] # "left" => time'[t] # "left"
                 /\ time[t] = "over" => time'[t] = "over"
           /\ linkOpen' => linkOpen
           /\ status' \in [Tests -> {"NOT_STARTED", "IN_PROGRESS", "SUBMITTED", "EXPIRED"}]
           /\ time' \in [Tests -> {"left", "up", "over"}]
<1> DEFINE Changes == \/ UNCHANGED status
                      \/ \E t \in Tests, s \in {"IN_PROGRESS", "SUBMITTED", "EXPIRED"} :
                            /\ IsClosed(t) => s = status[t]
                            /\ status' = [status EXCEPT ![t] = s]
           Passes  == UNCHANGED time \/ \E t \in Tests : Pass(t)
<1> SUFFICES Changes /\ Passes /\ (linkOpen' => linkOpen)
  BY ServerForward
<1>1. ASSUME UNCHANGED server PROVE Changes /\ Passes /\ (linkOpen' => linkOpen)
  BY <1>1 DEF server
<1>2. ASSUME NEW t \in Tests, StartReplies(t)
      PROVE  Changes /\ Passes /\ (linkOpen' => linkOpen)
  BY <1>2 DEF StartReplies, IsClosed
<1>3. ASSUME NEW t \in Tests, StartFails(t)
      PROVE  Changes /\ Passes /\ (linkOpen' => linkOpen)
  BY <1>3 DEF StartFails, IsClosed
<1>4. ASSUME NEW n \in DOMAIN saves, ServeSave(n)
      PROVE  Changes /\ Passes /\ (linkOpen' => linkOpen)
  <2>1. saves[n].test \in Tests
    BY SavesTyped
  <2> QED BY <1>4, <2>1 DEF ServeSave, IsClosed
<1>5. ASSUME NEW h \in DOMAIN handIns, ServeHandIn(h)
      PROVE  Changes /\ Passes /\ (linkOpen' => linkOpen)
  <2>1. handIns[h].test \in Tests
    BY HandInsTyped
  <2>2. \/ UNCHANGED status
        \/ \E s \in {"IN_PROGRESS", "SUBMITTED", "EXPIRED"} :
              /\ IsClosed(handIns[h].test) => s = status[handIns[h].test]
              /\ status' = [status EXCEPT ![handIns[h].test] = s]
    BY <1>5 DEF ServeHandIn, IsClosed
  <2>3. UNCHANGED <<time, linkOpen>>
    BY <1>5 DEF ServeHandIn
  <2> QED BY <2>1, <2>2, <2>3
<1>6. ASSUME NEW t \in Tests, Pass(t) PROVE Changes /\ Passes /\ (linkOpen' => linkOpen)
  BY <1>6 DEF Pass
<1>7. ASSUME NEW t \in Tests, Sweep(t) PROVE Changes /\ Passes /\ (linkOpen' => linkOpen)
  BY <1>7 DEF Sweep, IsClosed
<1>8. ASSUME CloseLink PROVE Changes /\ Passes /\ (linkOpen' => linkOpen)
  BY <1>8 DEF CloseLink
<1>9. \/ UNCHANGED server
      \/ \E t \in Tests : StartReplies(t) \/ StartFails(t) \/ Pass(t) \/ Sweep(t)
      \/ \E n \in DOMAIN saves : ServeSave(n)
      \/ \E h \in DOMAIN handIns : ServeHandIn(h)
      \/ CloseLink
  BY DEF Next, Work, Open, Back, ClickStart, TimesUp, Confirm, HandIn, Choose, BackOnline,
         OverviewFails, OverviewComes, SendSave, SaveReplies, SaveFails, SendHandIn, HandInReplies, HandInFails
<1> HIDE DEF Changes, Passes
<1> QED BY <1>1, <1>2, <1>3, <1>4, <1>5, <1>6, <1>7, <1>8, <1>9

PageTyped ==
    /\ screen \in Screens /\ problem \in BOOLEAN /\ starting \in SUBSET Tests
    /\ shown \in [Ids -> Options \cup {None}] /\ timedOut \in BOOLEAN /\ failed \in BOOLEAN
    /\ opened \in [Ids -> Options \cup {None}] /\ given \in [Ids -> Options \cup {None}]

QueueTyped ==
    /\ saves \in Seq(Saves) /\ chains \in [Ids -> 0 .. Len(saves)]
    /\ unsaved \in [Ids -> Options \cup {None}]

FinalsTyped == handIns \in Seq(HandIns) /\ submitting \in 0 .. Len(handIns)

RowsTyped ==
    visit \in Visits /\ stored \in [Ids -> Options \cup {None}] /\ linkOpen \in BOOLEAN

SavesForward ==
    /\ DOMAIN saves \subseteq DOMAIN saves'
    /\ \A n \in DOMAIN saves : saves[n].state = "settled" => saves'[n].state = "settled"

LEMMA PartsOfType ==
    TypeOK => PageTyped /\ QueueTyped /\ FinalsTyped /\ RowsTyped /\ hasty \in SUBSET Ids
  BY DEF TypeOK, PageTyped, QueueTyped, FinalsTyped, RowsTyped

LEMMA TypeOfParts ==
    ASSUME TypeOK, Next, PageTyped', QueueTyped', FinalsTyped', RowsTyped',
           hasty' \in SUBSET Ids, SavesForward
    PROVE  TypeOK' /\ Forward
<1>1. TypeOK'
  BY ServerSteps DEF TypeOK, PageTyped, QueueTyped, FinalsTyped, RowsTyped
<1>2. Forward
  BY ServerSteps DEF Forward, SavesForward
<1> QED BY <1>1, <1>2

\* What an action leaves alone keeps its type.
LEMMA TypesKept ==
    /\ PageTyped /\ UNCHANGED page => PageTyped'
    /\ QueueTyped /\ UNCHANGED queue => QueueTyped' /\ SavesForward
    /\ FinalsTyped /\ UNCHANGED finals => FinalsTyped'
    /\ RowsTyped /\ UNCHANGED server => RowsTyped'
  BY DEF PageTyped, QueueTyped, FinalsTyped, RowsTyped, page, runner, queue, finals, server,
         SavesForward

LEMMA FinishTyped ==
    ASSUME NEW t \in Tests, NEW late \in BOOLEAN, Finish(t, late)
    PROVE  /\ screen' \in Screens /\ timedOut' \in BOOLEAN
           /\ shown' \in [Ids -> Options \cup {None}]
           /\ opened' \in [Ids -> Options \cup {None}]
           /\ given' \in [Ids -> Options \cup {None}]
  BY DEF Finish, Screens, NoAnswers

\* One save goes on.
LEMMA MoveTyped ==
    ASSUME QueueTyped, NEW n \in DOMAIN saves, Moved(n), saves[n].state # "settled",
           UNCHANGED chains, unsaved' \in [Ids -> Options \cup {None}]
    PROVE  QueueTyped' /\ SavesForward
  BY DEF QueueTyped, SavesForward, Moved

LEMMA PersistTyped ==
    ASSUME TypeOK, NEW t \in Tests, Persist(t, unsaved), unsaved' = NoAnswers
    PROVE  QueueTyped' /\ SavesForward
<1>1. unsaved \in Answers
  BY DEF TypeOK, Answers
<1>2. /\ saves' \in Seq(Saves) /\ chains' \in [Ids -> 0 .. Len(saves')]
      /\ \A n \in DOMAIN saves : n \in DOMAIN saves' /\ saves'[n] = saves[n]
  BY <1>1, PersistMakes
<1>3. unsaved' \in [Ids -> Options \cup {None}]
  BY DEF NoAnswers, TypeOK
<1>4. QueueTyped'
  BY <1>2, <1>3 DEF QueueTyped
<1>5. SavesForward
  BY <1>2 DEF SavesForward
<1> QED BY <1>4, <1>5

LEMMA KeepTyped ==
    ASSUME TypeOK, NEW n \in DOMAIN saves
    PROVE  Keep(n) \in [Ids -> Options \cup {None}]
<1>1. saves[n].id \in Ids /\ saves[n].option \in Options \cup {None}
  BY SavesTyped
<1> QED BY <1>1 DEF Keep, TypeOK

LEMMA TypeStep ==
    ASSUME TypeOK, Next
    PROVE  TypeOK' /\ Forward
<1> DEFINE Typed == /\ PageTyped' /\ QueueTyped' /\ FinalsTyped' /\ RowsTyped'
                    /\ hasty' \in SUBSET Ids /\ SavesForward
<1>0. PageTyped /\ QueueTyped /\ FinalsTyped /\ RowsTyped /\ hasty \in SUBSET Ids
  BY PartsOfType
<1> SUFFICES Typed
  BY TypeOfParts
<1>1. ASSUME NEW t \in Tests, StartReplies(t) PROVE Typed
  <2>1. PageTyped'
    <3>1. screen' \in Screens /\ problem' \in BOOLEAN /\ timedOut' \in BOOLEAN
          /\ starting' \in SUBSET Tests
      BY <1>0, <1>1 DEF StartReplies, Screens, PageTyped
    <3>2. opened' \in [Ids -> Options \cup {None}]
      BY <1>0, <1>1 DEF StartReplies, RowsTyped
    <3>3. shown' = opened' /\ given' = opened' /\ failed' = failed
      BY <1>1 DEF StartReplies
    <3> QED BY <1>0, <3>1, <3>2, <3>3 DEF PageTyped
  <2>2. QueueTyped' /\ SavesForward
    <3>1. /\ saves' \in Seq(Saves) /\ Len(saves') = Len(saves) /\ Len(saves) \in Nat
          /\ \A n \in DOMAIN saves : n \in DOMAIN saves' /\ saves'[n].state = saves[n].state
      BY <1>1, StartMakesStale, SavesTyped
    <3>2. chains' \in [Ids -> 0 .. Len(saves')]
      BY <1>1, <3>1 DEF StartReplies
    <3>3. unsaved' \in [Ids -> Options \cup {None}]
      BY <1>1 DEF StartReplies, NoAnswers
    <3>4. QueueTyped'
      BY <3>1, <3>2, <3>3 DEF QueueTyped
    <3> QED BY <3>1, <3>4 DEF SavesForward
  <2>3. RowsTyped' /\ FinalsTyped'
    BY <1>0, <1>1, TypesKept DEF StartReplies, RowsTyped
  <2>4. hasty' \in SUBSET Ids
    BY <1>0, <1>1, SavesTyped DEF StartReplies
  <2> QED BY <2>1, <2>2, <2>3, <2>4
<1>2. ASSUME NEW t \in Tests, StartFails(t) PROVE Typed
  <2>1. PageTyped' /\ RowsTyped'
    BY <1>0, <1>2 DEF StartFails, PageTyped, RowsTyped, runner
  <2> QED BY <1>0, <1>2, <2>1, TypesKept DEF StartFails
<1>3. ASSUME NEW t \in Tests, TimesUp(t) PROVE Typed
  <2>1. HandIn(t, TRUE) /\ UNCHANGED <<submitting, server, hasty>>
        /\ unsaved' = NoAnswers
    BY <1>3 DEF TimesUp, HandIn
  <2>2. QueueTyped' /\ SavesForward
    BY <2>1, HandInMakes, PersistTyped
  <2>3. FinalsTyped'
    <3>1. handIns' \in Seq(HandIns) /\ Len(handIns') = Len(handIns) + 1 /\ Len(handIns) \in Nat
      BY <2>1, HandInMakes, HandInsTyped
    <3>2. submitting' = submitting /\ submitting \in 0 .. Len(handIns)
      BY <1>0, <2>1 DEF FinalsTyped
    <3> QED BY <3>1, <3>2 DEF FinalsTyped
  <2>4. PageTyped'
    BY <1>0, <1>3 DEF TimesUp, PageTyped
  <2> QED BY <1>0, <2>1, <2>2, <2>3, <2>4, TypesKept
<1>4. ASSUME NEW t \in Tests, Confirm(t) PROVE Typed
  <2>1. HandIn(t, FALSE) /\ UNCHANGED <<submitting, server, hasty>>
        /\ unsaved' = NoAnswers /\ UNCHANGED page
    BY <1>4 DEF Confirm, HandIn
  <2>2. QueueTyped' /\ SavesForward
    BY <2>1, HandInMakes, PersistTyped
  <2>3. FinalsTyped'
    <3>1. handIns' \in Seq(HandIns) /\ Len(handIns') = Len(handIns) + 1 /\ Len(handIns) \in Nat
      BY <2>1, HandInMakes, HandInsTyped
    <3>2. submitting' = submitting /\ submitting \in 0 .. Len(handIns)
      BY <1>0, <2>1 DEF FinalsTyped
    <3> QED BY <3>1, <3>2 DEF FinalsTyped
  <2> QED BY <1>0, <2>1, <2>2, <2>3, TypesKept
<1>5. ASSUME NEW n \in DOMAIN saves, SendSave(n) PROVE Typed
  <2>1. Moved(n) /\ saves[n].state # "settled"
    BY <1>5, SetSaveMoves DEF SendSave, States
  <2>2. QueueTyped' /\ SavesForward
    BY <1>0, <1>5, <2>1, MoveTyped DEF SendSave, QueueTyped
  <2> QED BY <1>0, <1>5, <2>2, TypesKept DEF SendSave
<1>6. ASSUME NEW n \in DOMAIN saves, ServeSave(n) PROVE Typed
  <2>1. Moved(n) /\ saves[n].state # "settled"
    BY <1>6, SetSaveMoves DEF ServeSave, States
  <2>2. QueueTyped' /\ SavesForward
    BY <1>0, <1>6, <2>1, MoveTyped DEF ServeSave, QueueTyped
  <2>3. RowsTyped'
    BY <1>0, <1>6, SavesTyped DEF ServeSave, RowsTyped
  <2> QED BY <1>0, <1>6, <2>2, <2>3, TypesKept DEF ServeSave
<1>7. ASSUME NEW n \in DOMAIN saves, SaveReplies(n) PROVE Typed
  <2>1. Moved(n) /\ saves[n].state # "settled"
    BY <1>7, SettleMoves DEF SaveReplies
  <2>2. QueueTyped' /\ SavesForward
    BY <1>0, <1>7, <2>1, MoveTyped, KeepTyped DEF SaveReplies, QueueTyped
  <2>3. PageTyped'
    <3>1. CASE UNCHANGED page
      BY <1>0, <3>1, TypesKept
    <3>2. CASE /\ Finish(saves[n].test, TRUE)
               /\ UNCHANGED <<problem, failed, starting, unsaved>>
      BY <1>0, <3>2, FinishTyped, SavesTyped DEF PageTyped
    <3>3. CASE problem' = TRUE /\ UNCHANGED <<screen, starting, failed, runner, unsaved>>
      BY <1>0, <3>3 DEF PageTyped, runner
    <3> QED BY <1>7, <3>1, <3>2, <3>3 DEF SaveReplies
  <2> QED BY <1>0, <1>7, <2>2, <2>3, TypesKept DEF SaveReplies
<1>8. ASSUME NEW n \in DOMAIN saves, SaveFails(n) PROVE Typed
  <2>1. Moved(n) /\ saves[n].state # "settled"
    BY <1>8, SettleMoves, RetryMoves DEF SaveFails
  <2>2. QueueTyped' /\ SavesForward
    BY <1>0, <1>8, <2>1, MoveTyped, KeepTyped DEF SaveFails, QueueTyped
  <2> QED BY <1>0, <1>8, <2>2, TypesKept DEF SaveFails
<1>9. ASSUME NEW h \in DOMAIN handIns, SendHandIn(h) PROVE Typed
  <2>1. HandInMoved(h) /\ submitting' = h
    BY <1>9, SetHandInMoves DEF SendHandIn, HandInStates
  <2>2. FinalsTyped'
    BY <2>1, HandInsTyped DEF FinalsTyped, HandInMoved
  <2> QED BY <1>0, <1>9, <2>2, TypesKept DEF SendHandIn
<1>10. ASSUME NEW h \in DOMAIN handIns, ServeHandIn(h) PROVE Typed
  <2>1. handIns[h].test \in Tests
    BY HandInsTyped
  <2>2. \E s \in HandInStates : SetHandIn(h, s)
    BY <1>10, <2>1 DEF ServeHandIn, IsClosed, HandInStates
  <2>3. HandInMoved(h) /\ UNCHANGED submitting
    BY <1>10, <2>2, SetHandInMoves DEF ServeHandIn
  <2>4. FinalsTyped' /\ RowsTyped'
    BY <1>0, <1>10, <2>3 DEF FinalsTyped, RowsTyped, HandInMoved, ServeHandIn
  <2> QED BY <1>0, <1>10, <2>4, TypesKept DEF ServeHandIn
<1>11. ASSUME NEW h \in DOMAIN handIns, HandInReplies(h) PROVE Typed
  <2>1. HandInMoved(h) /\ submitting' \in 0 .. Len(handIns')
    BY <1>11, EndHandInMoves DEF HandInReplies, HandInStates
  <2>2. FinalsTyped'
    BY <2>1 DEF FinalsTyped, HandInMoved
  <2>3. handIns[h].test \in Tests /\ Late(h) \in BOOLEAN
    BY HandInsTyped DEF Late
  <2>4. PageTyped'
    <3>1. CASE Finish(handIns[h].test, Late(h)) /\ UNCHANGED <<problem, failed>>
      BY <1>0, <1>11, <2>3, <3>1, FinishTyped DEF PageTyped, HandInReplies
    <3>2. CASE problem' = TRUE /\ UNCHANGED <<screen, failed, runner>>
      BY <1>0, <1>11, <3>2 DEF PageTyped, HandInReplies, runner
    <3> QED BY <1>11, <3>1, <3>2 DEF HandInReplies
  <2> QED BY <1>0, <1>11, <2>2, <2>4, TypesKept DEF HandInReplies
<1>12. ASSUME NEW h \in DOMAIN handIns, HandInFails(h) PROVE Typed
  <2>1. HandInMoved(h) /\ submitting' \in 0 .. Len(handIns')
    BY <1>12, EndHandInMoves DEF HandInFails, HandInStates
  <2>2. FinalsTyped'
    BY <2>1 DEF FinalsTyped, HandInMoved
  <2> QED BY <1>0, <1>12, <2>2, TypesKept DEF HandInFails
<1>13. ASSUME Back PROVE Typed
  <2>1. PageTyped'
    BY <1>0, <1>13 DEF Back, PageTyped, runner, Screens
  <2> QED BY <1>0, <1>13, <2>1, TypesKept DEF Back
<1>14. ASSUME BackOnline PROVE Typed
  <2>1. QueueTyped' /\ SavesForward
    <3>1. CASE screen.kind = "running"
      <4>1. screen.test \in Tests
        BY <1>0, <3>1 DEF PageTyped, Screens, Overview
      <4>2. Persist(screen.test, unsaved) /\ unsaved' = NoAnswers
        BY <1>14, <3>1 DEF BackOnline
      <4> QED BY <4>1, <4>2, PersistTyped
    <3>2. CASE screen.kind # "running"
      BY <1>0, <1>14, <3>2, TypesKept DEF BackOnline, queue
    <3> QED BY <3>1, <3>2
  <2>2. FinalsTyped'
    BY <1>0, <1>14, PausedResume DEF BackOnline, FinalsTyped
  <2> QED BY <1>0, <1>14, <2>1, <2>2, TypesKept DEF BackOnline
<1>15. ASSUME CloseLink PROVE Typed
  <2>1. RowsTyped'
    BY <1>0, <1>15 DEF CloseLink, RowsTyped
  <2> QED BY <1>0, <1>15, <2>1, TypesKept DEF CloseLink
<1>16. ASSUME NEW t \in Tests, Open(t) PROVE Typed
  <2>1. PageTyped'
    BY <1>0, <1>16 DEF Open, PageTyped, runner, Screens
  <2> QED BY <1>0, <1>16, <2>1, TypesKept DEF Open
<1>17. ASSUME NEW t \in Tests, ClickStart(t) PROVE Typed
  <2>1. PageTyped'
    BY <1>0, <1>17 DEF ClickStart, PageTyped, runner
  <2> QED BY <1>0, <1>17, <2>1, TypesKept DEF ClickStart
<1>18. ASSUME NEW t \in Tests, Pass(t) PROVE Typed
  <2>1. RowsTyped'
    BY <1>0, <1>18 DEF Pass, RowsTyped
  <2> QED BY <1>0, <1>18, <2>1, TypesKept DEF Pass
<1>19. ASSUME NEW t \in Tests, Sweep(t) PROVE Typed
  <2>1. RowsTyped'
    BY <1>0, <1>19 DEF Sweep, RowsTyped
  <2> QED BY <1>0, <1>19, <2>1, TypesKept DEF Sweep
<1>20. ASSUME NEW i \in Ids, NEW o \in Options, Choose(i, o) PROVE Typed
  <2> DEFINE answers == [NoAnswers EXCEPT ![i] = o]
  <2>1. answers \in Answers /\ i[1] \in Tests /\ Persist(i[1], answers)
    BY <1>20 DEF Choose, Ids, NoAnswers, Answers
  <2> HIDE DEF answers
  <2>2. /\ saves' \in Seq(Saves) /\ chains' \in [Ids -> 0 .. Len(saves')]
        /\ \A n \in DOMAIN saves : n \in DOMAIN saves' /\ saves'[n] = saves[n]
    BY <2>1, PersistMakes
  <2>3. unsaved' \in [Ids -> Options \cup {None}]
    BY <1>0, <1>20 DEF Choose, QueueTyped
  <2>4. QueueTyped'
    BY <2>2, <2>3 DEF QueueTyped
  <2>5. SavesForward
    BY <2>2 DEF SavesForward
  <2>6. PageTyped' /\ hasty' \in SUBSET Ids
    BY <1>0, <1>20 DEF Choose, PageTyped
  <2> QED BY <1>0, <1>20, <2>4, <2>5, <2>6, TypesKept DEF Choose
<1>21. ASSUME OverviewFails \/ OverviewComes PROVE Typed
  <2>1. PageTyped'
    BY <1>0, <1>21 DEF OverviewFails, OverviewComes, PageTyped, runner
  <2> QED BY <1>0, <1>21, <2>1, TypesKept DEF OverviewFails, OverviewComes
<1> HIDE DEF Typed
<1> QED BY <1>1, <1>2, <1>3, <1>4, <1>5, <1>6, <1>7, <1>8, <1>9, <1>10, <1>11, <1>12, <1>13,
           <1>14, <1>15, <1>16, <1>17, <1>18, <1>19, <1>20, <1>21 DEF Next, Work

-----------------------------------------------------------------------------
(* What the server has said stays true.                                     *)

LEMMA ReplyStaysTrue ==
    ASSUME TypeOK, Forward, NEW n \in DOMAIN saves, SaveReplyTrue(n),
           saves'[n].state \in {saves[n].state, "ready", "sent", "saved", "refused", "settled"},
           saves'[n].test = saves[n].test
    PROVE  SaveReplyTrue(n)'
<1>1. saves[n].test \in Tests
  BY SavesTyped
<1>2. \A t \in Tests : status[t] = "EXPIRED" => status'[t] = "EXPIRED"
  BY DEF Forward, IsClosed
<1> QED BY <1>1, <1>2 DEF SaveReplyTrue, Forward

LEMMA HandInStaysTrue ==
    ASSUME TypeOK, Forward, NEW h \in DOMAIN handIns, HandInTrue(h),
           handIns'[h] = handIns[h]
    PROVE  HandInTrue(h)'
<1>1. handIns[h].test \in Tests
  BY HandInsTyped
<1>2. \A t \in Tests : /\ status[t] \in {"SUBMITTED", "EXPIRED"} => status'[t] = status[t]
                       /\ time[t] # "left" => time'[t] # "left"
  BY DEF Forward, IsClosed
<1>3. \A n \in DOMAIN saves : ~Unsettled(n) => n \in DOMAIN saves' /\ ~Unsettled(n)'
  BY DEF Forward, Unsettled
<1>4. DOMAIN saves \subseteq DOMAIN saves'
  BY DEF Forward
<1> QED BY <1>1, <1>2, <1>3, <1>4 DEF HandInTrue

LEMMA HandInsSame ==
    ASSUME TypeOK, Forward, HandInsInv, UNCHANGED handIns
    PROVE  HandInsInv'
  BY HandInStaysTrue DEF HandInsInv

LEMMA DoneStaysTrue ==
    ASSUME TypeOK, Forward, DoneIsTrue, UNCHANGED screen
    PROVE  DoneIsTrue'
<1> SUFFICES ASSUME screen.kind = "done"
             PROVE  /\ IsClosed(screen.test)'
                    /\ screen.timedOut => time'[screen.test] # "left"
                    /\ status'[screen.test] = "EXPIRED" => screen.timedOut
  BY DEF DoneIsTrue
<1>1. screen.test \in Tests
  BY DEF TypeOK, Screens, Overview
<1> QED BY <1>1 DEF DoneIsTrue, Forward, IsClosed

\* Nothing is saved, answered, chosen or kept.
LEMMA QueueStays ==
    ASSUME TypeOK, Forward, QueueInv, UNCHANGED <<saves, chains, unsaved, stored, hasty>>,
           given' = given \/ given' = NoAnswers
    PROVE  QueueInv'
<1>1. InLine' /\ ChainsTrue'
  BY DEF QueueInv, InLine, ChainsTrue, Live, Behind, Unsettled
<1>2. ASSUME NEW i \in Ids \ hasty' PROVE CalmQuestion(i)'
  <2>1. CalmQuestion(i) /\ i[1] \in Tests
    BY <1>2 DEF QueueInv, Ids
  <2>2. Pending(i)' = Pending(i)
    BY DEF Pending, Unsettled
  <2>3. \A n \in Pending(i) : saves[n].state = "saved" => stored[i] = saves[n].option
    BY <2>1 DEF CalmQuestion
  <2>4. (IsClosed(i[1]) => IsClosed(i[1])') /\ (linkOpen' => linkOpen)
    BY <2>1 DEF Forward, IsClosed
  <2>5. given'[i] = given[i] \/ given'[i] = None
    BY DEF NoAnswers
  <2> QED BY <2>1, <2>2, <2>3, <2>4, <2>5, CalmStays
<1>3. \A n \in DOMAIN saves' : SaveReplyTrue(n)'
  BY ReplyStaysTrue DEF QueueInv
<1> QED BY <1>1, <1>2, <1>3 DEF QueueInv

\* One save goes on, and its own question has been looked at.
LEMMA QueueMoves ==
    ASSUME TypeOK, Forward, QueueInv, NEW n \in DOMAIN saves, Moved(n), Unsettled(n),
           UNCHANGED <<chains, hasty>>,
           saves[n].state = "ready" => Turn(n), Live(n)' => Live(n),
           SaveReplyTrue(n)',
           NEW q \in Ids, q = saves[n].id,
           q \notin hasty => CalmQuestion(q)',
           \A i \in Ids : i # q => unsaved'[i] = unsaved[i] /\ stored'[i] = stored[i],
           given' = given \/ given' = NoAnswers
    PROVE  QueueInv'
<1>1. InLine' /\ ChainsTrue'
  BY LineAfterMove, TurnIsFirst DEF QueueInv
<1>2. ASSUME NEW i \in Ids \ hasty', i # q PROVE CalmQuestion(i)'
  <2>1. CalmQuestion(i) /\ i[1] \in Tests
    BY <1>2 DEF QueueInv, Ids
  <2>2. Pending(i)' = Pending(i)
    BY <1>2, PendingAfterMove
  <2>3. \A m \in Pending(i) : m \in DOMAIN saves /\ saves[m].id = i
    BY DEF Pending
  <2>4. \A m \in Pending(i) : saves'[m] = saves[m]
    BY <1>2, <2>3 DEF Moved
  <2>5. \A m \in Pending(i) :
           /\ saves'[m].option = saves[m].option
           /\ saves'[m].state = "saved" => stored'[i] = saves[m].option
    BY <1>2, <2>1, <2>4 DEF CalmQuestion
  <2>6. (IsClosed(i[1]) => IsClosed(i[1])') /\ (linkOpen' => linkOpen)
    BY <2>1 DEF Forward, IsClosed
  <2>7. given'[i] = given[i] \/ given'[i] = None
    BY DEF NoAnswers
  <2>8. unsaved'[i] = unsaved[i] /\ stored'[i] = stored[i]
    BY <1>2
  <2> QED BY <2>1, <2>2, <2>5, <2>6, <2>7, <2>8, CalmStays
<1>3. \A m \in DOMAIN saves' : SaveReplyTrue(m)'
  <2> SUFFICES ASSUME NEW m \in DOMAIN saves, m # n PROVE SaveReplyTrue(m)'
    BY DEF Moved
  <2>1. SaveReplyTrue(m) /\ saves'[m] = saves[m]
    BY DEF Moved, QueueInv
  <2> QED BY <2>1, ReplyStaysTrue
<1>4. \A i \in Ids \ hasty' : CalmQuestion(i)'
  BY <1>2
<1> QED BY <1>1, <1>3, <1>4 DEF QueueInv

\* persist() of what was kept.
LEMMA QueuePersists ==
    ASSUME TypeOK, Forward, QueueInv, NEW t \in Tests, Persist(t, unsaved),
           unsaved' = NoAnswers, UNCHANGED <<given, status, stored, linkOpen, hasty>>
    PROVE  QueueInv'
<1>0. unsaved \in Answers
  BY DEF TypeOK, Answers
<1>1. InLine' /\ ChainsTrue'
  BY <1>0, LineAfterPersist DEF QueueInv
<1>2. \A i \in Ids \ hasty' : CalmQuestion(i)'
  BY CalmAfterPersist DEF QueueInv
<1>3. ASSUME NEW n \in DOMAIN saves' PROVE SaveReplyTrue(n)'
  <2>1. CASE n \in DOMAIN saves
    <3>1. saves'[n] = saves[n] /\ SaveReplyTrue(n)
      BY <1>0, <2>1, PersistMakes DEF QueueInv
    <3> QED BY <2>1, <3>1, ReplyStaysTrue
  <2>2. CASE n \notin DOMAIN saves
    <3>1. PICK i \in Ids : chains'[i] = n /\ unsaved[i] # None
      BY <1>0, <2>2, PersistMakes
    <3>2. saves'[n] = NewSave(t, i, unsaved[i])
      BY <1>0, <3>1, PersistMakes
    <3>3. NewSave(t, i, unsaved[i]).state = "ready"
      BY DEF NewSave
    <3> QED BY <3>2, <3>3 DEF SaveReplyTrue
  <2> QED BY <2>1, <2>2
<1> QED BY <1>1, <1>2, <1>3 DEF QueueInv

-----------------------------------------------------------------------------
(* FInv, action by action.                                                  *)

LEMMA ServerInvStep ==
    ASSUME TypeOK, ServerInv, QueueInv, Next
    PROVE  ServerInv'
<1>1. CASE UNCHANGED server
  BY <1>1 DEF ServerInv, server
<1>2. ASSUME NEW t \in Tests, StartReplies(t) \/ StartFails(t) \/ Pass(t) \/ Sweep(t)
      PROVE  ServerInv'
  BY <1>2 DEF StartReplies, StartFails, Pass, Sweep, ServerInv, TypeOK
<1>3. ASSUME NEW n \in DOMAIN saves, ServeSave(n) PROVE ServerInv'
  <2>1. saves[n].test \in Tests
    BY SavesTyped
  <2> QED BY <1>3, <2>1 DEF ServeSave, ServerInv, TypeOK
<1>4. ASSUME NEW h \in DOMAIN handIns, ServeHandIn(h) PROVE ServerInv'
  <2>1. handIns[h].test \in Tests
    BY HandInsTyped
  <2> QED BY <1>4, <2>1 DEF ServeHandIn, ServerInv, TypeOK, IsClosed
<1>5. CASE CloseLink
  BY <1>5 DEF CloseLink, ServerInv
<1>6. \/ UNCHANGED server
      \/ \E t \in Tests : StartReplies(t) \/ StartFails(t) \/ Pass(t) \/ Sweep(t)
      \/ \E n \in DOMAIN saves : ServeSave(n)
      \/ \E h \in DOMAIN handIns : ServeHandIn(h)
      \/ CloseLink
  BY DEF Next, Work, Open, Back, ClickStart, TimesUp, Confirm, HandIn, Choose, BackOnline,
         OverviewFails, OverviewComes, SendSave, SaveReplies, SaveFails, SendHandIn, HandInReplies, HandInFails
<1> QED BY <1>1, <1>2, <1>3, <1>4, <1>5, <1>6

LEMMA StartStep ==
    ASSUME FInv, Next, NEW t \in Tests, StartReplies(t)
    PROVE  QueueInv' /\ HandInsInv' /\ DoneIsTrue'
<1>1. TypeOK /\ QueueInv /\ HandInsInv /\ Forward
  BY TypeStep DEF FInv
<1>2. InLine' /\ ChainsTrue'
  BY <1>1, LineAfterStart
<1>3. \A i \in Ids \ hasty' : CalmQuestion(i)'
  BY <1>1, CalmAfterStart
<1>4. ASSUME NEW n \in DOMAIN saves' PROVE SaveReplyTrue(n)'
  <2>1. n \in DOMAIN saves /\ saves'[n].state = saves[n].state /\ saves'[n].test = saves[n].test
    BY <1>1, StartMakesStale
  <2>2. SaveReplyTrue(n)
    BY <1>1, <2>1 DEF QueueInv
  <2> QED BY <1>1, <2>1, <2>2, ReplyStaysTrue
<1>5. QueueInv'
  BY <1>2, <1>3, <1>4 DEF QueueInv
<1>6. HandInsInv'
  BY <1>1, HandInsSame DEF StartReplies, finals
<1>7. DoneIsTrue'
  BY DEF StartReplies, DoneIsTrue
<1> QED BY <1>5, <1>6, <1>7

\* The browser's part of a save: it sends one, hears of one, or gives one up.
LEMMA SendSaveStep ==
    ASSUME FInv, Next, NEW n \in DOMAIN saves, SendSave(n)
    PROVE  QueueInv' /\ HandInsInv' /\ DoneIsTrue'
<1>1. TypeOK /\ QueueInv /\ HandInsInv /\ DoneIsTrue /\ Forward
  BY TypeStep DEF FInv
<1>2. PICK q \in Ids : q = saves[n].id
  BY <1>1, SavesTyped
<1>3. /\ Moved(n) /\ saves'[n].state = "sent" /\ saves'[n].option = saves[n].option
      /\ saves'[n].stale = saves[n].stale
  BY <1>1, SetSaveMoves DEF SendSave, States
<1>4. UNCHANGED <<page, chains, unsaved, finals, server, hasty>>
      /\ Turn(n) /\ saves[n].state = "ready"
  BY DEF SendSave
<1>5. Unsettled(n) /\ (Live(n)' => Live(n))
  BY <1>3, <1>4 DEF Live, Unsettled
<1>6. ASSUME CalmQuestion(q) PROVE CalmQuestion(q)'
  <2>1. Pending(q)' = Pending(q) /\ \A m \in Pending(q) : m = n
    BY <1>2, <1>3, <1>5, <1>6, PendingAfterMove DEF CalmQuestion
  <2>2. (IsClosed(q[1]) => IsClosed(q[1])') /\ (linkOpen' => linkOpen)
    BY <1>4 DEF IsClosed, server
  <2> QED BY <1>3, <1>4, <1>6, <2>1, <2>2, CalmStays DEF page, runner, server
<1>7. SaveReplyTrue(n)'
  BY <1>3 DEF SaveReplyTrue
<1>8. q \notin hasty => CalmQuestion(q)'
  BY <1>1, <1>6 DEF QueueInv
<1>9. QueueInv'
  BY <1>1, <1>2, <1>3, <1>4, <1>5, <1>7, <1>8, QueueMoves DEF page, runner, server
<1> QED BY <1>1, <1>4, <1>9, HandInsSame, DoneStaysTrue DEF finals, page

LEMMA ServeSaveStep ==
    ASSUME FInv, Next, NEW n \in DOMAIN saves, ServeSave(n)
    PROVE  QueueInv' /\ HandInsInv' /\ DoneIsTrue'
<1>1. TypeOK /\ QueueInv /\ HandInsInv /\ DoneIsTrue /\ Forward
  BY TypeStep DEF FInv
<1>2. PICK q \in Ids : q = saves[n].id
  BY <1>1, SavesTyped
<1>3. /\ Moved(n) /\ saves'[n].option = saves[n].option
      /\ saves'[n].stale = saves[n].stale
      /\ saves'[n].state \in {"no link", "time up", "saved", "refused"}
      /\ saves'[n].state = "no link" => ~linkOpen'
      /\ saves'[n].state = "time up" => status'[saves[n].test] = "EXPIRED"
      /\ IF saves'[n].state = "saved" THEN stored' = [stored EXCEPT ![q] = saves[n].option]
         ELSE UNCHANGED stored
  BY <1>1, <1>2, SetSaveMoves, SavesTyped DEF ServeSave, States, TypeOK
<1>4. UNCHANGED <<page, chains, unsaved, finals, time, linkOpen, hasty>>
      /\ saves[n].state = "sent"
  BY DEF ServeSave
<1>5. Unsettled(n) /\ (Live(n)' => Live(n))
  BY <1>3, <1>4 DEF Live, Unsettled
<1>6. ASSUME CalmQuestion(q) PROVE CalmQuestion(q)'
  <2>1. Pending(q)' = Pending(q) /\ n \in Pending(q) /\ \A m \in Pending(q) : m = n
    BY <1>2, <1>3, <1>5, <1>6, PendingAfterMove DEF CalmQuestion
  <2>2. (IsClosed(q[1]) => IsClosed(q[1])') /\ (linkOpen' => linkOpen)
    BY <1>1, <1>4 DEF IsClosed, Forward, Ids
  <2>3. /\ saves'[n].state = "saved" => stored'[q] = saves[n].option
        /\ stored'[q] = stored[q] \/ stored'[q] = saves[n].option
    BY <1>1, <1>3 DEF TypeOK
  <2>4. \A m \in Pending(q) :
           /\ saves'[m].option = saves[m].option
           /\ saves'[m].state = "saved" => stored'[q] = saves[m].option
    BY <1>3, <2>1, <2>3
  <2>5. stored'[q] = stored[q] \/ \E m \in Pending(q) : stored'[q] = saves[m].option
    BY <2>1, <2>3
  <2> QED BY <1>4, <1>6, <2>1, <2>2, <2>4, <2>5, CalmStays DEF page, runner
<1>7. SaveReplyTrue(n)'
  BY <1>3 DEF SaveReplyTrue, Moved
<1>8. q \notin hasty => CalmQuestion(q)'
  BY <1>1, <1>6 DEF QueueInv
<1>9. \A i \in Ids : i # q => unsaved'[i] = unsaved[i] /\ stored'[i] = stored[i]
  BY <1>1, <1>3, <1>4 DEF TypeOK
<1>10. QueueInv'
  BY <1>1, <1>2, <1>3, <1>4, <1>5, <1>7, <1>8, <1>9, QueueMoves DEF page, runner
<1> QED BY <1>1, <1>4, <1>10, HandInsSame, DoneStaysTrue DEF finals, page

LEMMA SaveRepliesStep ==
    ASSUME FInv, Next, NEW n \in DOMAIN saves, SaveReplies(n)
    PROVE  QueueInv' /\ HandInsInv' /\ DoneIsTrue'
<1>1. TypeOK /\ QueueInv /\ HandInsInv /\ ServerInv /\ DoneIsTrue /\ Forward
  BY TypeStep DEF FInv
<1>2. PICK q \in Ids : q = saves[n].id
  BY <1>1, SavesTyped
<1>3. Moved(n) /\ saves'[n].state = "settled"
  BY <1>1, SettleMoves DEF SaveReplies
<1>4. UNCHANGED <<chains, finals, server, hasty>>
      /\ saves[n].state \in {"saved", "time up", "no link", "refused"}
  BY DEF SaveReplies
<1>5. Unsettled(n) /\ ~Live(n)' /\ SaveReplyTrue(n)'
  BY <1>3, <1>4 DEF Live, Unsettled, SaveReplyTrue
<1>6. SaveReplyTrue(n)
  BY <1>1 DEF QueueInv
<1>7. \/ saves[n].state = "saved" /\ unsaved' = unsaved /\ given' = given
      \/ unsaved' = unsaved /\ given' = NoAnswers
      \/ unsaved' = unsaved /\ given' = given /\ ~linkOpen'
      \/ unsaved' = [unsaved EXCEPT ![q] = saves[n].option] /\ given' = given
  <2>1. CASE saves[n].state = "saved"
    BY <2>1 DEF SaveReplies, page, runner
  <2>2. CASE saves[n].state = "time up"
    BY <2>2 DEF SaveReplies, Finish
  <2>3. CASE saves[n].state = "no link"
    <3>1. ~linkOpen /\ linkOpen' = linkOpen
      BY <1>4, <1>6, <2>3 DEF SaveReplyTrue, server
    <3>2. unsaved' = unsaved /\ given' = given
      BY <2>3 DEF SaveReplies, runner
    <3> QED BY <3>1, <3>2
  <2>4. CASE saves[n].state = "refused"
    BY <1>2, <2>4 DEF SaveReplies, Keep, page, runner
  <2> QED BY <1>4, <2>1, <2>2, <2>3, <2>4
<1>8. /\ \/ saves[n].state = "saved" /\ unsaved'[q] = unsaved[q] /\ given'[q] = given[q]
         \/ unsaved'[q] = unsaved[q] /\ given'[q] = None
         \/ unsaved'[q] = unsaved[q] /\ given'[q] = given[q] /\ ~linkOpen'
         \/ unsaved'[q] = saves[n].option /\ given'[q] = given[q]
      /\ \A i \in Ids : i # q => unsaved'[i] = unsaved[i]
  BY <1>1, <1>7 DEF TypeOK, NoAnswers
<1>9. q \notin hasty => CalmQuestion(q)'
  <2> SUFFICES ASSUME q \notin hasty PROVE CalmQuestion(q)'
    OBVIOUS
  <2>1. CalmQuestion(q) /\ stored'[q] = stored[q]
    BY <1>1, <1>4 DEF QueueInv, server
  <2> QED BY <1>2, <1>3, <1>5, <1>8, <2>1, CalmSettles
<1>10. QueueInv'
  <2>1. given' = given \/ given' = NoAnswers
    BY <1>7
  <2>2. \A i \in Ids : i # q => unsaved'[i] = unsaved[i] /\ stored'[i] = stored[i]
    BY <1>4, <1>8 DEF server
  <2>3. saves[n].state # "ready"
    BY <1>4
  <2> QED BY <1>1, <1>2, <1>3, <1>4, <1>5, <1>9, <2>1, <2>2, <2>3, QueueMoves
<1>11. DoneIsTrue'
  <2>1. CASE screen' = screen
    BY <1>1, <2>1, DoneStaysTrue
  <2>2. CASE saves[n].state = "time up" /\ Finish(saves[n].test, TRUE)
    <3>1. saves[n].test \in Tests /\ status[saves[n].test] = "EXPIRED"
      BY <1>1, <1>6, <2>2, SavesTyped DEF SaveReplyTrue
    <3>2. time[saves[n].test] = "over"
      BY <1>1, <3>1 DEF ServerInv
    <3>3. screen'.test = saves[n].test /\ screen'.timedOut = TRUE
      BY <2>2 DEF Finish
    <3> QED BY <1>4, <3>1, <3>2, <3>3 DEF DoneIsTrue, IsClosed, server
  <2> QED BY <2>1, <2>2 DEF SaveReplies, page
<1> QED BY <1>1, <1>4, <1>10, <1>11, HandInsSame DEF finals

LEMMA SaveFailsStep ==
    ASSUME FInv, Next, NEW n \in DOMAIN saves, SaveFails(n)
    PROVE  QueueInv' /\ HandInsInv' /\ DoneIsTrue'
<1>1. TypeOK /\ QueueInv /\ HandInsInv /\ DoneIsTrue /\ Forward
  BY TypeStep DEF FInv
<1>2. PICK q \in Ids : q = saves[n].id
  BY <1>1, SavesTyped
<1>3. /\ UNCHANGED <<page, chains, finals, server, hasty>>
      /\ saves[n].state \notin {"ready", "settled"}
  BY DEF SaveFails
<1>4. UNCHANGED <<given, screen, handIns, stored, status, linkOpen>>
  BY <1>3 DEF page, runner, finals, server
<1>5. Unsettled(n)
  BY <1>3 DEF Unsettled
<1>6. CASE GivesUp(n)
  <2>1. Moved(n) /\ saves'[n].state = "settled"
    BY <1>1, <1>6, SettleMoves DEF SaveFails
  <2>2. unsaved' = [unsaved EXCEPT ![q] = saves[n].option]
    BY <1>2, <1>6 DEF SaveFails, Keep
  <2>3. /\ unsaved'[q] = saves[n].option
        /\ \A i \in Ids : i # q => unsaved'[i] = unsaved[i] /\ stored'[i] = stored[i]
    BY <1>1, <1>4, <2>2 DEF TypeOK
  <2>4. q \notin hasty => CalmQuestion(q)'
    <3> SUFFICES ASSUME q \notin hasty PROVE CalmQuestion(q)'
      OBVIOUS
    <3>1. CalmQuestion(q)
      BY <1>1 DEF QueueInv
    <3>2. stored'[q] = stored[q] /\ given'[q] = given[q]
      BY <1>4
    <3> QED BY <1>2, <1>5, <2>1, <2>3, <3>1, <3>2, CalmSettles
  <2>5. ~Live(n)' /\ SaveReplyTrue(n)'
    BY <2>1 DEF Live, Unsettled, SaveReplyTrue
  <2>6. QueueInv'
    BY <1>1, <1>2, <1>3, <1>4, <1>5, <2>1, <2>3, <2>4, <2>5, QueueMoves
  <2> QED BY <1>1, <1>4, <2>6, HandInsSame, DoneStaysTrue
<1>7. CASE ~GivesUp(n)
  <2>1. /\ Moved(n) /\ saves'[n].state = "ready" /\ saves'[n].option = saves[n].option
        /\ saves'[n].stale = saves[n].stale
    BY <1>1, <1>7, RetryMoves
  <2>2. unsaved' = unsaved
    BY <1>7 DEF SaveFails
  <2>3. q \notin hasty => CalmQuestion(q)'
    <3> SUFFICES ASSUME q \notin hasty PROVE CalmQuestion(q)'
      OBVIOUS
    <3>1. CalmQuestion(q)
      BY <1>1 DEF QueueInv
    <3>2. Pending(q)' = Pending(q) /\ \A m \in Pending(q) : m = n
      BY <1>2, <1>5, <2>1, <3>1, PendingAfterMove DEF CalmQuestion
    <3>3. (IsClosed(q[1]) => IsClosed(q[1])') /\ (linkOpen' => linkOpen)
      BY <1>4 DEF IsClosed
    <3> QED BY <1>4, <2>1, <2>2, <3>1, <3>2, <3>3, CalmStays
  <2>4. (Live(n)' => Live(n)) /\ SaveReplyTrue(n)'
    BY <1>5, <2>1 DEF Live, Unsettled, SaveReplyTrue
  <2>5. QueueInv'
    BY <1>1, <1>2, <1>3, <1>4, <1>5, <2>1, <2>2, <2>3, <2>4, QueueMoves
  <2> QED BY <1>1, <1>4, <2>5, HandInsSame, DoneStaysTrue
<1> QED BY <1>6, <1>7

\* handleSubmit(), of the candidate or of the timer.
LEMMA HandInStep ==
    ASSUME FInv, Next, NEW t \in Tests, NEW late \in BOOLEAN, HandIn(t, late),
           late => time[t] # "left", UNCHANGED <<screen, given>>
    PROVE  QueueInv' /\ HandInsInv' /\ DoneIsTrue'
<1>1. TypeOK /\ QueueInv /\ HandInsInv /\ DoneIsTrue /\ Forward
  BY TypeStep DEF FInv
<1>2. Persist(t, unsaved) /\ unsaved' = NoAnswers /\ UNCHANGED <<server, hasty>>
  BY DEF HandIn
<1>3. QueueInv'
  BY <1>1, <1>2, QueuePersists DEF server
<1>4. DOMAIN handIns' = 1 .. Len(handIns) + 1 /\ DOMAIN handIns = 1 .. Len(handIns)
      /\ Len(handIns) \in Nat
      /\ \A h \in DOMAIN handIns : handIns'[h] = handIns[h]
  BY <1>1, HandInMakes, HandInsTyped
<1>5. ASSUME NEW h \in DOMAIN handIns' PROVE HandInTrue(h)'
  <2>1. CASE h \in DOMAIN handIns
    BY <1>1, <1>4, <2>1, HandInStaysTrue DEF HandInsInv
  <2>2. CASE h \notin DOMAIN handIns
    <3>1. h = Len(handIns) + 1
      BY <1>4, <2>2
    <3>2. /\ handIns'[h].test = t /\ handIns'[h].timedOut = late
          /\ handIns'[h].state = "waiting" /\ handIns'[h].waits \in SUBSET DOMAIN saves'
      BY <1>1, <3>1, HandInMakes
    <3>3. late => time'[t] # "left"
      BY <1>2 DEF server
    <3> QED BY <3>2, <3>3 DEF HandInTrue
  <2> QED BY <2>1, <2>2
<1> QED BY <1>1, <1>3, <1>5, DoneStaysTrue DEF HandInsInv

LEMMA ChooseStep ==
    ASSUME FInv, Next, NEW i \in Ids, NEW o \in Options, Choose(i, o)
    PROVE  QueueInv' /\ HandInsInv' /\ DoneIsTrue'
<1>1. TypeOK /\ QueueInv /\ HandInsInv /\ DoneIsTrue /\ Forward
  BY TypeStep DEF FInv
<1> DEFINE answers == [NoAnswers EXCEPT ![i] = o]
<1>2. answers \in Answers /\ i[1] \in Tests /\ Persist(i[1], answers)
  BY DEF Choose, Ids, NoAnswers, Answers
<1> HIDE DEF answers
<1>3. InLine' /\ ChainsTrue'
  BY <1>1, <1>2, LineAfterPersist DEF QueueInv
<1>4. \A j \in Ids \ hasty' : CalmQuestion(j)'
  <2>1. hasty \subseteq hasty'
    BY DEF Choose
  <2> QED BY <1>1, <2>1, CalmAfterChoose DEF QueueInv
<1>5. ASSUME NEW n \in DOMAIN saves' PROVE SaveReplyTrue(n)'
  <2>1. CASE n \in DOMAIN saves
    <3>1. saves'[n] = saves[n] /\ SaveReplyTrue(n)
      BY <1>1, <1>2, <2>1, PersistMakes DEF QueueInv
    <3> QED BY <1>1, <2>1, <3>1, ReplyStaysTrue
  <2>2. CASE n \notin DOMAIN saves
    <3>1. PICK j \in Ids : chains'[j] = n /\ answers[j] # None
      BY <1>1, <1>2, <2>2, PersistMakes
    <3>2. saves'[n] = NewSave(i[1], j, answers[j])
      BY <1>1, <1>2, <3>1, PersistMakes
    <3>3. NewSave(i[1], j, answers[j]).state = "ready"
      BY DEF NewSave
    <3> QED BY <3>2, <3>3 DEF SaveReplyTrue
  <2> QED BY <2>1, <2>2
<1>6. QueueInv'
  BY <1>3, <1>4, <1>5 DEF QueueInv
<1>7. UNCHANGED <<screen, handIns>>
  BY DEF Choose, finals
<1> QED BY <1>1, <1>6, <1>7, HandInsSame, DoneStaysTrue

\* The hand-ins' own steps.
LEMMA HandInMovesStep ==
    ASSUME FInv, Next, NEW h \in DOMAIN handIns,
           SendHandIn(h) \/ ServeHandIn(h) \/ HandInReplies(h) \/ HandInFails(h)
    PROVE  QueueInv' /\ HandInsInv' /\ DoneIsTrue'
<1>1. TypeOK /\ QueueInv /\ HandInsInv /\ ServerInv /\ DoneIsTrue /\ Forward
  BY TypeStep DEF FInv
<1>2. HandInTrue(h) /\ handIns[h].test \in Tests /\ handIns[h].timedOut \in BOOLEAN
  BY <1>1, HandInsTyped DEF HandInsInv
<1>3. /\ UNCHANGED <<saves, chains, unsaved, stored, hasty>>
      /\ given' = given \/ given' = NoAnswers
  BY DEF SendHandIn, ServeHandIn, HandInReplies, HandInFails, Finish, page, runner, queue, server
<1>4. QueueInv'
  BY <1>1, <1>3, QueueStays
<1>5. HandInMoved(h) /\ HandInTrue(h)'
  <2>1. CASE SendHandIn(h)
    <3>1. /\ HandInMoved(h) /\ handIns'[h].state \in {"sent", "paused"}
          /\ handIns'[h].waits = handIns[h].waits
      <4>1. PICK s \in {"sent", "paused"} : SetHandIn(h, s)
        BY <2>1 DEF SendHandIn
      <4>2. s \in HandInStates
        BY DEF HandInStates
      <4> QED BY <1>1, <4>1, <4>2, SetHandInMoves
    <3>2. \A n \in handIns[h].waits : n \in DOMAIN saves /\ ~Unsettled(n)
      BY <1>2, <2>1 DEF SendHandIn, WaitedFor, HandInTrue
    <3>3. handIns'[h].timedOut => time'[handIns'[h].test] # "left"
      BY <1>2, <2>1, <3>1 DEF HandInMoved, HandInTrue, SendHandIn, server
    <3> QED BY <1>3, <3>1, <3>2, <3>3 DEF HandInTrue, Unsettled
  <2>2. CASE ServeHandIn(h)
    <3>1. PICK s \in {"SUBMITTED", "EXPIRED", "no link"} :
             /\ SetHandIn(h, s)
             /\ s # "no link" => status' = [status EXCEPT ![handIns[h].test] = s]
      <4>1. CASE ~linkOpen
        BY <2>2, <4>1 DEF ServeHandIn
      <4>2. CASE linkOpen /\ IsClosed(handIns[h].test)
        BY <2>2, <4>2 DEF ServeHandIn, IsClosed
      <4>3. CASE linkOpen /\ ~IsClosed(handIns[h].test)
        BY <2>2, <4>3 DEF ServeHandIn
      <4> QED BY <4>1, <4>2, <4>3
    <3>2. HandInMoved(h) /\ handIns'[h].state = s /\ handIns'[h].waits = handIns[h].waits
      BY <1>1, <3>1, SetHandInMoves DEF HandInStates
    <3>3. /\ handIns[h].waits \subseteq DOMAIN saves
          /\ \A n \in handIns[h].waits : ~Unsettled(n)
      BY <1>2, <2>2 DEF ServeHandIn, HandInTrue
    <3>4. s # "no link" => status'[handIns[h].test] = s
      BY <1>1, <1>2, <3>1 DEF TypeOK
    <3>5. handIns[h].timedOut => time'[handIns[h].test] # "left"
      BY <1>2, <2>2 DEF HandInTrue, ServeHandIn
    <3>6. handIns'[h].state \in {"SUBMITTED", "EXPIRED"}
          => status'[handIns'[h].test] = handIns'[h].state
      <4>1. handIns'[h].test = handIns[h].test
        BY <3>2 DEF HandInMoved
      <4>2. s \in {"SUBMITTED", "EXPIRED"} => status'[handIns[h].test] = s
        BY <3>4
      <4>3. handIns'[h].state = s
        BY <3>2
      <4>4. CASE s \in {"SUBMITTED", "EXPIRED"}
        <5>1. status'[handIns[h].test] = s
          BY <4>2, <4>4
        <5>2. status'[handIns'[h].test] = status'[handIns[h].test]
          BY <4>1
        <5> QED BY <4>3, <5>1, <5>2
      <4>5. CASE s \notin {"SUBMITTED", "EXPIRED"}
        BY <4>3, <4>5
      <4> QED BY <4>4, <4>5
    <3>7. handIns'[h].timedOut => time'[handIns'[h].test] # "left"
      BY <3>2, <3>5 DEF HandInMoved
    <3>8. /\ handIns'[h].waits \subseteq DOMAIN saves'
          /\ \A n \in handIns'[h].waits : ~Unsettled(n)'
      BY <1>3, <3>2, <3>3 DEF Unsettled
    <3> QED BY <3>2, <3>6, <3>7, <3>8 DEF HandInTrue
  <2>3. CASE HandInReplies(h) \/ HandInFails(h)
    <3>1. /\ HandInMoved(h) /\ handIns'[h].state \in {"settled", "failed"}
          /\ handIns'[h].waits = {}
      BY <1>1, <2>3, EndHandInMoves DEF HandInReplies, HandInFails, HandInStates
    <3>2. handIns'[h].timedOut => time'[handIns'[h].test] # "left"
      BY <1>1, <1>2, <3>1 DEF HandInMoved, HandInTrue, Forward
    <3> QED BY <3>1, <3>2 DEF HandInTrue
  <2> QED BY <2>1, <2>2, <2>3
<1>6. HandInsInv'
  <2> SUFFICES ASSUME NEW g \in DOMAIN handIns, g # h PROVE HandInTrue(g)'
    BY <1>5 DEF HandInsInv, HandInMoved
  <2>1. handIns'[g] = handIns[g] /\ HandInTrue(g)
    BY <1>1, <1>5 DEF HandInMoved, HandInsInv
  <2> QED BY <1>1, <2>1, HandInStaysTrue
<1>7. DoneIsTrue'
  <2>1. CASE screen' = screen
    BY <1>1, <2>1, DoneStaysTrue
  <2>2. CASE /\ HandInReplies(h) /\ handIns[h].state \in {"SUBMITTED", "EXPIRED"}
             /\ Finish(handIns[h].test, Late(h))
    <3> DEFINE t == handIns[h].test
    <3>1. /\ status[t] = handIns[h].state
          /\ handIns[h].timedOut => time[t] # "left"
      BY <1>2, <2>2 DEF HandInTrue
    <3>2. status[t] = "EXPIRED" => time[t] = "over"
      BY <1>1, <1>2 DEF ServerInv
    <3>3. screen'.test = t /\ screen'.timedOut = Late(h)
      BY <2>2 DEF Finish
    <3>4. UNCHANGED <<status, time>>
      BY <2>2 DEF HandInReplies, server
    <3> QED BY <2>2, <3>1, <3>2, <3>3, <3>4 DEF DoneIsTrue, IsClosed, Late
  <2> QED BY <2>1, <2>2 DEF SendHandIn, ServeHandIn, HandInReplies, HandInFails, page
<1> QED BY <1>4, <1>6, <1>7

\* The screens, the overview, the clock, the sweep and the link.
LEMMA OtherSteps ==
    ASSUME FInv, Next,
           \/ Back \/ CloseLink \/ OverviewFails \/ OverviewComes
           \/ \E t \in Tests : Open(t) \/ ClickStart(t) \/ StartFails(t) \/ Pass(t) \/ Sweep(t)
    PROVE  QueueInv' /\ HandInsInv' /\ DoneIsTrue'
<1>1. TypeOK /\ QueueInv /\ HandInsInv /\ DoneIsTrue /\ Forward
  BY TypeStep DEF FInv
<1>2. UNCHANGED <<saves, chains, unsaved, stored, hasty, given, handIns>>
  BY DEF Back, CloseLink, OverviewFails, OverviewComes, Open, ClickStart, StartFails, Pass, Sweep,
         page, runner, queue, finals, server
<1>3. DoneIsTrue'
  <2>1. CASE screen' = screen
    BY <1>1, <2>1, DoneStaysTrue
  <2>2. CASE screen'.kind # "done"
    BY <2>2 DEF DoneIsTrue
  <2>3. screen' = screen \/ screen'.kind # "done"
    BY DEF Back, CloseLink, OverviewFails, OverviewComes, Open, ClickStart, StartFails, Pass,
           Sweep, page, Overview
  <2> QED BY <2>1, <2>2, <2>3
<1> QED BY <1>1, <1>2, <1>3, QueueStays, HandInsSame

\* Back online: the paused hand-ins go on, and what was kept is saved.
LEMMA BackOnlineStep ==
    ASSUME FInv, Next, BackOnline
    PROVE  QueueInv' /\ HandInsInv' /\ DoneIsTrue'
<1>1. TypeOK /\ QueueInv /\ HandInsInv /\ DoneIsTrue /\ Forward
  BY TypeStep DEF FInv
<1>2. UNCHANGED <<given, status, time, stored, linkOpen, hasty, screen>>
  BY DEF BackOnline, page, runner, server
<1>3. QueueInv'
  <2>1. CASE screen.kind = "running"
    <3>1. screen.test \in Tests
      BY <1>1, <2>1 DEF TypeOK, Screens, Overview
    <3>2. Persist(screen.test, unsaved) /\ unsaved' = NoAnswers
      BY <2>1 DEF BackOnline
    <3> QED BY <1>1, <1>2, <3>1, <3>2, QueuePersists
  <2>2. CASE screen.kind # "running"
    <3>1. UNCHANGED <<saves, chains, unsaved>>
      BY <2>2 DEF BackOnline
    <3> QED BY <1>1, <1>2, <3>1, QueueStays
  <2> QED BY <2>1, <2>2
<1>4. ASSUME NEW h \in DOMAIN handIns PROVE HandInTrue(h)'
  <2>1. HandInTrue(h) /\ handIns[h].test \in Tests
    BY <1>1, HandInsTyped DEF HandInsInv
  <2>2. CASE handIns[h].state # "paused"
    <3>1. handIns'[h] = handIns[h]
      BY <1>1, <2>2, PausedResume
    <3> QED BY <1>1, <2>1, <3>1, HandInStaysTrue
  <2>3. CASE handIns[h].state = "paused"
    <3>1. /\ handIns'[h].test = handIns[h].test /\ handIns'[h].timedOut = handIns[h].timedOut
          /\ handIns'[h].waits = handIns[h].waits /\ handIns'[h].state = "sent"
      BY <1>1, <2>3, PausedResume
    <3>2. /\ handIns[h].timedOut => time[handIns[h].test] # "left"
          /\ handIns[h].waits \subseteq DOMAIN saves
          /\ \A n \in handIns[h].waits : ~Unsettled(n)
      BY <2>1, <2>3 DEF HandInTrue
    <3>3. \A n \in DOMAIN saves : ~Unsettled(n) => n \in DOMAIN saves' /\ ~Unsettled(n)'
      BY <1>1 DEF Forward, Unsettled
    <3> QED BY <1>2, <3>1, <3>2, <3>3 DEF HandInTrue
  <2> QED BY <2>2, <2>3
<1>5. HandInsInv'
  BY <1>1, <1>4, PausedResume DEF HandInsInv
<1> QED BY <1>1, <1>2, <1>3, <1>5, DoneStaysTrue

\* A choice shows what was chosen; a runner that is mounted shows what the test
\* was opened with.
LEMMA ShownStep ==
    ASSUME FInv, Next
    PROVE  ShownTrue'
<1>1. \A i \in Ids : shown[i] \in {given[i], opened[i]}
  BY DEF FInv, ShownTrue
<1>2. \/ UNCHANGED runner
      \/ \E t \in Tests : StartReplies(t) \/ TimesUp(t)
      \/ \E n \in DOMAIN saves : Finish(saves[n].test, TRUE)
      \/ \E h \in DOMAIN handIns : Finish(handIns[h].test, Late(h))
      \/ \E i \in Ids, o \in Options : Choose(i, o)
      \/ OverviewFails
  BY DEF Next, Work, Open, Back, ClickStart, StartFails, Confirm, BackOnline, OverviewComes, Pass,
         Sweep, CloseLink, SendSave, ServeSave, SaveReplies, SaveFails, SendHandIn, ServeHandIn,
         HandInReplies, HandInFails, page
<1>3. CASE UNCHANGED runner
  BY <1>1, <1>3 DEF runner, ShownTrue
<1>4. ASSUME NEW t \in Tests, StartReplies(t) PROVE ShownTrue'
  BY <1>4 DEF StartReplies, ShownTrue
<1>5. ASSUME NEW t \in Tests, TimesUp(t) PROVE ShownTrue'
  BY <1>1, <1>5 DEF TimesUp, ShownTrue
<1>6. ASSUME NEW t, NEW late, Finish(t, late) PROVE ShownTrue'
  BY <1>6 DEF Finish, ShownTrue
<1>7. ASSUME NEW j \in Ids, NEW o \in Options, Choose(j, o) PROVE ShownTrue'
  <2>1. /\ shown' = [shown EXCEPT ![j] = o] /\ given' = [given EXCEPT ![j] = o]
        /\ opened' = opened
        /\ shown \in [Ids -> Options \cup {None}] /\ given \in [Ids -> Options \cup {None}]
    BY <1>7 DEF Choose, FInv, TypeOK
  <2> QED BY <1>1, <2>1 DEF ShownTrue
<1>8. CASE OverviewFails
  BY <1>8 DEF OverviewFails, ShownTrue
<1> QED BY <1>2, <1>3, <1>4, <1>5, <1>6, <1>7, <1>8

LEMMA Step ==
    ASSUME FInv, [Next]_vars
    PROVE  FInv'
<1>1. CASE Next
  <2>1. TypeOK' /\ ServerInv' /\ ShownTrue'
    BY <1>1, TypeStep, ServerInvStep, ShownStep DEF FInv
  <2> SUFFICES QueueInv' /\ HandInsInv' /\ DoneIsTrue'
    BY <2>1 DEF FInv
  <2>2. ASSUME NEW t \in Tests, TimesUp(t) \/ Confirm(t)
        PROVE  QueueInv' /\ HandInsInv' /\ DoneIsTrue'
    <3>1. CASE TimesUp(t)
      <4>1. HandIn(t, TRUE) /\ time[t] # "left" /\ UNCHANGED <<screen, given>>
        BY <3>1 DEF TimesUp
      <4> QED BY <1>1, <4>1, HandInStep
    <3>2. CASE Confirm(t)
      <4>1. HandIn(t, FALSE) /\ UNCHANGED <<screen, given>>
        BY <3>2 DEF Confirm, page, runner
      <4> QED BY <1>1, <4>1, HandInStep
    <3> QED BY <2>2, <3>1, <3>2
  <2>3. \/ \E t \in Tests : StartReplies(t)
        \/ \E t \in Tests : TimesUp(t) \/ Confirm(t)
        \/ \E n \in DOMAIN saves : SendSave(n) \/ ServeSave(n) \/ SaveReplies(n) \/ SaveFails(n)
        \/ \E h \in DOMAIN handIns :
              SendHandIn(h) \/ ServeHandIn(h) \/ HandInReplies(h) \/ HandInFails(h)
        \/ BackOnline
        \/ \E i \in Ids, o \in Options : Choose(i, o)
        \/ \/ Back \/ CloseLink \/ OverviewFails \/ OverviewComes
           \/ \E t \in Tests : Open(t) \/ ClickStart(t) \/ StartFails(t) \/ Pass(t) \/ Sweep(t)
    BY <1>1 DEF Next, Work
  <2> QED BY <1>1, <2>2, <2>3, StartStep, SendSaveStep, ServeSaveStep, SaveRepliesStep,
             SaveFailsStep, HandInMovesStep, BackOnlineStep, ChooseStep, OtherSteps
<1>2. CASE UNCHANGED vars
  <2>1. UNCHANGED <<screen, problem, starting, failed, shown, timedOut, opened, given, saves,
                    chains, unsaved, handIns, submitting, visit, status, time, stored, linkOpen,
                    hasty>>
    BY <1>2 DEF vars, page, runner, queue, finals, server
  <2>2. TypeOK'
    BY <2>1 DEF FInv, TypeOK
  <2>3. Forward
    BY <2>1 DEF Forward
  <2>4. QueueInv' /\ HandInsInv' /\ DoneIsTrue'
    BY <2>1, <2>3, QueueStays, HandInsSame, DoneStaysTrue DEF FInv
  <2> QED BY <2>1, <2>2, <2>4 DEF FInv, ServerInv, ShownTrue
<1> QED BY <1>1, <1>2

LEMMA Start ==
    ASSUME Init
    PROVE  FInv
<1>1. saves = <<>> /\ handIns = <<>> /\ DOMAIN saves = {} /\ DOMAIN handIns = {}
      /\ saves \in Seq(Saves) /\ handIns \in Seq(HandIns) /\ Len(saves) = 0 /\ Len(handIns) = 0
  BY DEF Init
<1>2. TypeOK
  <2>1. /\ chains \in [Ids -> 0 .. Len(saves)] /\ submitting \in 0 .. Len(handIns)
        /\ unsaved \in [Ids -> Options \cup {None}]
        /\ {shown, opened, given} \subseteq [Ids -> Options \cup {None}]
    BY <1>1 DEF Init, NoAnswers
  <2>2. screen \in Screens
    BY DEF Init, Screens
  <2>3. visit \in Visits /\ stored \in [Ids -> Options \cup {None}]
    BY TakeFlowAssumption DEF Init, Ids
  <2> QED BY <1>1, <2>1, <2>2, <2>3 DEF Init, TypeOK
<1>3. QueueInv
  <2>1. InLine /\ ChainsTrue /\ \A n \in DOMAIN saves : SaveReplyTrue(n)
    BY <1>1 DEF Init, InLine, ChainsTrue
  <2>2. \A i \in Ids : Pending(i) = {} /\ given[i] = None /\ unsaved[i] = None
    BY <1>1 DEF Init, Pending, NoAnswers
  <2>3. \A i \in Ids : CalmQuestion(i)
    BY <2>2 DEF CalmQuestion
  <2> QED BY <2>1, <2>3 DEF QueueInv
<1>4. HandInsInv /\ ServerInv /\ DoneIsTrue /\ ShownTrue
  BY <1>1 DEF Init, HandInsInv, ServerInv, DoneIsTrue, ShownTrue, Overview
<1> QED BY <1>2, <1>3, <1>4 DEF FInv

-----------------------------------------------------------------------------
(* The theorems.                                                            *)

\* What TakeFlowInv says holds in every state.
THEOREM Invariance == Spec => []FInv
<1>1. Init => FInv
  BY Start
<1>2. FInv /\ [Next]_vars => FInv'
  BY Step
<1> QED BY <1>1, <1>2, PTL DEF Spec

\* The page, its saves and the server's rows are well formed.
THEOREM TypeCorrect == Spec => []TypeOK
<1>1. FInv => TypeOK
  BY DEF FInv
<1> QED BY <1>1, Invariance, PTL

\* However often the network loses a request or a reply, what the candidate chose
\* last is stored, under way or kept to be tried again, for any number of tests
\* taken on one link, even while the overview's error has taken the runner away;
\* and a runner shows that choice or what its test was opened with (take-flow.tsx:
\* persist, retryUnsaved, handleSubmit, and what it renders on overview.isError).
THEOREM NoAnswerIsDropped == Spec => []NothingDropped
<1>1. FInv => NothingDropped
  <2> SUFFICES ASSUME FInv, NEW i \in Ids
               PROVE  /\ (given[i] # None /\ i \notin hasty /\ ~IsClosed(i[1]) /\ linkOpen)
                         => \/ stored[i] = given[i]
                            \/ unsaved[i] = given[i]
                            \/ \E n \in DOMAIN saves :
                                  saves[n].id = i /\ saves[n].option = given[i] /\ Unsettled(n)
                      /\ shown[i] \in {given[i], opened[i]}
    BY DEF NothingDropped
  <2>1. shown[i] \in {given[i], opened[i]}
    BY DEF FInv, ShownTrue
  <2>2. i \notin hasty => CalmQuestion(i)
    BY DEF FInv, QueueInv
  <2> QED BY <2>1, <2>2 DEF CalmQuestion, Pending
<1> QED BY <1>1, Invariance, PTL

\* The finish screen tells the truth about the test the server has closed.
THEOREM FinishScreenIsTrue == Spec => []DoneIsTrue
<1>1. FInv => DoneIsTrue
  BY DEF FInv
<1> QED BY <1>1, Invariance, PTL

\* "A quick change of mind can't arrive first": no save overtakes an earlier
\* one of its question (take-flow.tsx: persist's chains).
THEOREM SavesKeepOrder == Spec => SavesInOrder
<1>1. FInv => \A n \in DOMAIN saves :
          (saves[n].state = "sent" /\ saves'[n].state = "saved" /\ ~saves[n].stale)
          => \A m \in DOMAIN saves :
                (m > n /\ saves[m].id = saves[n].id)
                => saves[m].state = "ready" /\ saves[m].tries = 0
  BY DEF FInv, QueueInv, InLine, Live, Behind, Unsettled
<1> QED BY <1>1, Invariance, PTL DEF SavesInOrder

\* When the server closes a test for a hand-in, no save the page had made by
\* then is still under way (take-flow.tsx: handleSubmit awaits the chains).
THEOREM HandInWaitsForAll == Spec => HandInIsComplete
<1>1. FInv => \A h \in DOMAIN handIns :
          (handIns[h].state = "sent" /\ handIns'[h].state = "SUBMITTED")
          => \A m \in handIns[h].waits : \A n \in 1 .. m :
                saves[n].id = saves[m].id /\ ~saves[n].stale => ~Unsettled(n)
  <2> SUFFICES ASSUME FInv, NEW h \in DOMAIN handIns, handIns[h].state = "sent",
                      NEW m \in handIns[h].waits, NEW n \in 1 .. m,
                      saves[n].id = saves[m].id, ~saves[n].stale, Unsettled(n)
               PROVE  FALSE
    OBVIOUS
  <2>1. m \in DOMAIN saves /\ ~Unsettled(m)
    BY DEF FInv, HandInsInv, HandInTrue
  <2>2. n \in DOMAIN saves /\ m > n
    BY <2>1, SavesTyped DEF FInv
  <2>3. Behind(m, n)
    BY <2>1, <2>2 DEF FInv, QueueInv, InLine, Live
  <2> QED BY <2>1, <2>3 DEF Behind, Unsettled
<1> QED BY <1>1, Invariance, PTL DEF HandInIsComplete

=============================================================================
