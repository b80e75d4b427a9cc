----------------------------- MODULE TakeFlowInv -----------------------------
(***************************************************************************)
(* The inductive invariant of TakeFlow: how the saves of a question stand  *)
(* in line, what the page knows of a question, and what a reply that is on *)
(* its way may still say when it arrives.                                  *)
(***************************************************************************)
EXTENDS TakeFlow

\* A save under way, made since the test was opened.
Live(n) == Unsettled(n) /\ ~saves[n].stale

\* m is behind n: it waits, not yet sent, for n or for one that waits for n.
Behind(m, n) ==
    /\ saves[m].state = "ready" /\ saves[m].tries = 0
    /\ saves[m].after \in n .. (m - 1)
    /\ saves[saves[m].after].id = saves[n].id

\* Later saves of a question are behind a live one, and the next will be.
InLine ==
    \A n \in DOMAIN saves : Live(n) =>
        /\ chains[saves[n].id] >= n
        /\ \A m \in DOMAIN saves : m > n /\ saves[m].id = saves[n].id => Behind(m, n)

ChainsTrue ==
    \A i \in Ids : chains[i] # 0 => saves[chains[i]].id = i

Pending(i) == {n \in DOMAIN saves : saves[n].id = i /\ Unsettled(n)}

\* A question that was never answered anew during a save has one save at most,
\* or one answer kept, and it is what the candidate chose last.
CalmQuestion(i) ==
    /\ \A m, n \in Pending(i) : m = n
    /\ unsaved[i] # None => Pending(i) = {}
    /\ \A n \in Pending(i) :
          /\ saves[n].state = "saved" => stored[i] = saves[n].option
          /\ given[i] # None => saves[n].option = given[i]
    /\ given[i] # None /\ unsaved[i] # None => unsaved[i] = given[i]
    /\ given[i] # None /\ ~IsClosed(i[1]) /\ linkOpen =>
          \/ stored[i] = given[i]
          \/ unsaved[i] = given[i]
          \/ \E n \in Pending(i) : saves[n].option = given[i]

\* What the server said stays true while the reply is on its way.
SaveReplyTrue(n) ==
    /\ saves[n].state = "time up" => status[saves[n].test] = "EXPIRED"
    /\ saves[n].state = "no link" => ~linkOpen

HandInTrue(h) ==
    LET k == handIns[h] IN
    /\ k.state \in {"SUBMITTED", "EXPIRED"} => status[k.test] = k.state
    /\ k.timedOut => time[k.test] # "left"
    /\ k.waits \subseteq DOMAIN saves
    /\ k.state # "waiting" => \A n \in k.waits : ~Unsettled(n)

QueueInv ==
    /\ InLine /\ ChainsTrue
    /\ \A i \in Ids \ hasty : CalmQuestion(i)
    /\ \A n \in DOMAIN saves : SaveReplyTrue(n)

HandInsInv == \A h \in DOMAIN handIns : HandInTrue(h)

ServerInv == \A t \in Tests : status[t] = "EXPIRED" => time[t] = "over"

\* The runner shows the last choice, or what the test was opened with.
ShownTrue == \A i \in Ids : shown[i] \in {given[i], opened[i]}

FInv == TypeOK /\ ShownTrue /\ QueueInv /\ HandInsInv /\ ServerInv /\ DoneIsTrue

=============================================================================
