------------------------------ MODULE SentPage ------------------------------
(***************************************************************************)
(* A staff tab on the links that were sent: the home page, the Sent list   *)
(* and a link's results, over the browser's query cache, and the dialogs   *)
(* that send, resend and revoke.  Reads and calls are under way together;  *)
(* connections break; candidates, the clock and another admin move the     *)
(* links meanwhile.                                                        *)
(*                                                                         *)
(* Links models what the server does with a call in detail; here a request *)
(* is served in one step.                                                  *)
(***************************************************************************)
EXTENDS Integers, FiniteSets, SequencesExt

CONSTANTS
    Tests,
    People,
    MaxLinks,  \* bound: so many links
    RECENT_RESULTS,  \* how many finished candidates the home page lists
    Errands,   \* bound: what is done in one visit: its screens, operations,
               \* links sent before it, calls, failures, others' calls,
               \* and whether tests go on and links expire
    None

ASSUME SentPageAssumption ==
    /\ MaxLinks \in Nat /\ RECENT_RESULTS \in Nat
    /\ None \notin Tests \cup People

VARIABLES
    errand,
    links,     \* server
    screen,    \* "home", "library", "sent" or "results"
    viewed,    \* the link on the results page
    query,     \* the cache: an entry per view
    dialog,
    revoking,  \* the latest revoke of the page that is mounted
    calls,     \* every mutation of the tab
    writes,    \* history: calls the server has carried out
    own,       \* history: the latest of them the tab knows of
    count      \* of failures and of the other admin's calls

page == <<screen, viewed, dialog, revoking>>
hist == <<writes, own>>
vars == <<errand, links, page, query, calls, hist, count>>

Ids   == 1 .. MaxLinks

\* The query keys.
Home      == <<"dashboard">>
List      == <<"list">>
Detail(i) == <<"detail", i>>
Views     == {Home, List} \cup {Detail(i) : i \in Ids}

\* "overdue": still IN_PROGRESS in the database, its deadline and the grace passed.
Link == [person : People,
         tests : UNION {[ts -> {"NOT_STARTED", "IN_PROGRESS", "overdue", "SUBMITTED", "EXPIRED"}] :
                           ts \in (SUBSET Tests) \ {{}}},
         revoked : BOOLEAN, expired : BOOLEAN, sent : BOOLEAN,
         at : Nat]  \* when a test of it finished last

ASSUME ErrandsAssumption ==
    \A e \in Errands : /\ \A ls \in e.links : ls \in Seq(Link) /\ Len(ls) <= MaxLinks
                       /\ e.screens \subseteq {"home", "library", "sent", "results"}

NewLink(p, ts, mailed) ==
    [person |-> p, tests |-> [t \in ts |-> "NOT_STARTED"], revoked |-> FALSE, expired |-> FALSE, sent |-> mailed,
     at |-> 0]

-----------------------------------------------------------------------------
(* What the server answers.                                                 *)

Finished(l)   == {t \in DOMAIN l.tests : l.tests[t] \in {"SUBMITTED", "EXPIRED"}}
Unfinished(l) == DOMAIN l.tests \ Finished(l)
Running(l)    == \E t \in DOMAIN l.tests : l.tests[t] \in {"IN_PROGRESS", "overdue"}

\* Mutant: a link that ran out is EXPIRED before it is COMPLETED.
statusByExpiry(l) ==
    IF l.revoked THEN "REVOKED"
    ELSE IF l.expired /\ ~Running(l) THEN "EXPIRED"
    ELSE IF Unfinished(l) = {} THEN "COMPLETED"
    ELSE IF \A t \in DOMAIN l.tests : l.tests[t] = "NOT_STARTED" THEN "NOT_STARTED"
    ELSE "IN_PROGRESS"

invitationStatus(l) ==
    IF l.revoked THEN "REVOKED"
    ELSE IF Unfinished(l) = {} THEN "COMPLETED"
    ELSE IF l.expired /\ ~Running(l) THEN "EXPIRED"
    ELSE IF \A t \in DOMAIN l.tests : l.tests[t] = "NOT_STARTED" THEN "NOT_STARTED"
    ELSE "IN_PROGRESS"

\* The time by the tests that finished: later than every one of them.
Now == {n \in 1 .. MaxLinks * Cardinality(Tests) + 1 :
           /\ \A i \in DOMAIN links : links[i].at < n
           /\ n = 1 \/ \E i \in DOMAIN links : links[i].at = n - 1}

\* finalizeOverdue: what is overdue finishes when it is swept.
Swept(l, now) ==
    [l EXCEPT !.tests = [t \in DOMAIN @ |-> IF @[t] = "overdue" THEN "EXPIRED" ELSE @[t]],
              !.at = IF \E t \in DOMAIN l.tests : l.tests[t] = "overdue" THEN now ELSE @]

SweptFor(v, now) ==
    [i \in DOMAIN links |-> IF v \in {Home, List, Detail(i)} THEN Swept(links[i], now) ELSE links[i]]

\* Answers are shown of the finished tests only.
Row(l) == [status |-> invitationStatus(l), done |-> Finished(l), emailed |-> l.sent]

Rows == [status : {"NOT_STARTED", "IN_PROGRESS", "COMPLETED", "EXPIRED", "REVOKED"},
         done : SUBSET Tests, emailed : BOOLEAN]

\* Revoked links count nowhere.
countLinks(ls) ==
    [s \in {"NOT_STARTED", "IN_PROGRESS", "COMPLETED", "EXPIRED"} |->
        Cardinality({i \in DOMAIN ls : invitationStatus(ls[i]) = s})]

Results(ls) ==
    {[link |-> i, done |-> Finished(ls[i]), at |-> ls[i].at] :
        i \in {j \in DOMAIN ls : ~ls[j].revoked /\ Finished(ls[j]) # {}}}

\* The newest of them; which one of two of the same time is left open.
recentResults(ls) ==
    {rs \in SUBSET Results(ls) :
        /\ Cardinality(rs) = IF Cardinality(Results(ls)) > RECENT_RESULTS
                             THEN RECENT_RESULTS ELSE Cardinality(Results(ls))
        /\ \A r \in rs, s \in Results(ls) \ rs : r.at >= s.at}

Dashboard(ls, rs) == [counts |-> countLinks(ls), recent |-> rs]

Dashboards == [counts : [{"NOT_STARTED", "IN_PROGRESS", "COMPLETED", "EXPIRED"} -> 0 .. MaxLinks],
               recent : SUBSET [link : Ids, done : SUBSET Tests, at : Nat]]

ASSUME NoneAssumption ==
    /\ None \notin Dashboards \cup Rows \cup BoundedSeq(Rows, MaxLinks)
    /\ None \notin {"COMPLETED", "REVOKED"}

\* What a read of view v may find.
Contents(v, ls) ==
    IF v = Home THEN {Dashboard(ls, rs) : rs \in recentResults(ls)}
    ELSE IF v = List THEN {[i \in DOMAIN ls |-> Row(ls[i])]}
    ELSE {Row(ls[v[2]])}

-----------------------------------------------------------------------------

\* A view's cache entry: what is shown, whether it was invalidated, the read
\* under way, whether the last one failed; as of which write; and whether an
\* invalidation found a read under way that went on.
NoEntry == [data |-> None, stale |-> FALSE, read |-> "idle", got |-> None, gotAt |-> 0,
            failed |-> FALSE, at |-> 0, crossed |-> FALSE]

Asked(q) == [q EXCEPT !.read = "asked", !.got = None, !.gotAt = 0, !.crossed = FALSE]

NoDialog == [kind |-> "none", link |-> 0, call |-> 0, done |-> FALSE]

Call(op, l, p, ts) == [op |-> op, link |-> l, person |-> p, tests |-> ts, state |-> "sent", at |-> 0]

Over == [op |-> None, link |-> 0, person |-> None, tests |-> {}, state |-> "over", at |-> 0]

Pending(n) == n # 0 /\ calls[n].state # "over"

Shown(s, l) == {v \in Views : \/ s = "home" /\ v = Home
                              \/ s = "sent" /\ v = List
                              \/ s = "results" /\ v = Detail(l)}
Observed    == Shown(screen, viewed)

\* The results page is replaced when its read failed, the dialogs on it too.
PageThere == screen = "results" => query[Detail(viewed)].data # None /\ ~query[Detail(viewed)].failed

StatusOf(i) ==
    IF screen = "results" THEN query[Detail(i)].data.status ELSE query[List].data[i].status

\* Rows and the results page offer to resend and revoke.
Offered(i) ==
    /\ \/ screen = "results" /\ viewed = i
       \/ screen = "sent" /\ query[List].data # None /\ ~query[List].failed
          /\ i \in DOMAIN query[List].data
    /\ PageThere
    /\ StatusOf(i) \notin {"REVOKED", "COMPLETED"}

Init ==
    /\ errand \in Errands
    /\ links \in errand.links
    /\ screen \in errand.screens \ {"results"} /\ viewed = 0
    /\ query = [v \in Views |-> IF v \in Shown(screen, 0) THEN Asked(NoEntry) ELSE NoEntry]
    /\ dialog = NoDialog /\ revoking = 0 /\ calls = <<>>
    /\ writes = 0 /\ own = 0
    /\ count = [failures |-> 0, others |-> 0]

-----------------------------------------------------------------------------
(* Screens and reads.                                                       *)

\* A view that is mounted is read if it has to be, and may be if it is old.
\* The home page's is always old.
Mounted(q, v, old) ==
    IF q.read = "idle" /\ (q.data = None \/ q.stale \/ v = Home \/ old) THEN Asked(q) ELSE q

Go(s, l, old) ==
    /\ s \in errand.screens /\ <<s, l>> # <<screen, viewed>>
    /\ IF s = "results" THEN l \in DOMAIN links ELSE l = 0
    /\ {s, screen} = {"library", "sent"} => dialog = NoDialog
    /\ screen' = s /\ viewed' = l
    /\ dialog' = NoDialog /\ revoking' = 0
    /\ query' = [v \in Views |-> IF v \in Shown(s, l) THEN Mounted(query[v], v, old) ELSE query[v]]
    /\ UNCHANGED <<links, calls, hist, count>>

Ask(v) ==
    /\ v \in Observed /\ query[v].read = "idle"
    /\ query' = [query EXCEPT ![v] = Asked(@)]
    /\ UNCHANGED <<links, page, calls, hist, count>>

\* The window is focused again, or "Try again".
Refetch == \E v \in Observed : Ask(v)

\* Mutant: an error ends it.
refetchUntilError(q) == q.data # None /\ ~q.failed /\ q.data.status = "IN_PROGRESS"

refetchInterval(q) == q.data # None /\ q.data.status = "IN_PROGRESS"

Poll == screen = "results" /\ refetchInterval(query[Detail(viewed)]) /\ Ask(Detail(viewed))

ServeRead(v) ==
    /\ query[v].read = "asked"
    /\ \E now \in Now : links' = SweptFor(v, now)
    /\ \E found \in Contents(v, links') :
          query' = [query EXCEPT ![v].read = "back", ![v].got = found, ![v].gotAt = writes]
    /\ UNCHANGED <<page, calls, hist, count>>

TakeRead(v) ==
    /\ query[v].read = "back"
    /\ query' = [query EXCEPT ![v] = [NoEntry EXCEPT !.data = query[v].got, !.at = query[v].gotAt,
                                                     !.crossed = query[v].crossed]]
    /\ UNCHANGED <<links, page, calls, hist, count>>

\* Tried again and failed again.  The form that showed a new link is gone.
FailRead(v) ==
    /\ query[v].read # "idle" /\ count.failures < errand.failures
    /\ query' = [query EXCEPT ![v].read = "idle", ![v].got = None, ![v].gotAt = 0, ![v].failed = TRUE]
    /\ dialog' = IF screen = "results" /\ v = Detail(viewed) /\ dialog.kind = "resend"
                 THEN [dialog EXCEPT !.call = 0, !.done = FALSE]
                 ELSE dialog
    /\ count' = [count EXCEPT !.failures = @ + 1]
    /\ UNCHANGED <<links, screen, viewed, revoking, calls, hist>>

-----------------------------------------------------------------------------
(* Dialogs.                                                                 *)

Mutate(c) == c.op \in errand.ops /\ Len(calls) < errand.calls /\ calls' = Append(calls, c)

OpenSend ==
    /\ "send" \in errand.ops /\ screen \in {"library", "sent"} /\ dialog = NoDialog
    /\ dialog' = [NoDialog EXCEPT !.kind = "send"]
    /\ UNCHANGED <<links, screen, viewed, revoking, query, calls, hist, count>>

Sending == {n \in DOMAIN calls : calls[n].op = "send" /\ calls[n].state = "sent"}

\* Someone known or new, and tests.
Send(p, ts) ==
    /\ dialog.kind = "send" /\ ~dialog.done /\ ~Pending(dialog.call)
    /\ ts # {} /\ ts \subseteq errand.tests /\ Len(links) + Cardinality(Sending) < MaxLinks
    /\ Mutate(Call("send", 0, p, ts))
    /\ dialog' = [dialog EXCEPT !.call = Len(calls')]
    /\ UNCHANGED <<links, screen, viewed, revoking, query, hist, count>>

\* "Send to someone else"
SendAnother ==
    /\ dialog.kind = "send" /\ dialog.done
    /\ dialog' = [NoDialog EXCEPT !.kind = "send"]
    /\ UNCHANGED <<links, screen, viewed, revoking, query, calls, hist, count>>

OpenResend(i) ==
    /\ "resend" \in errand.ops /\ dialog = NoDialog /\ Offered(i)
    /\ dialog' = [NoDialog EXCEPT !.kind = "resend", !.link = i]
    /\ UNCHANGED <<links, screen, viewed, revoking, query, calls, hist, count>>

Resend ==
    /\ dialog.kind = "resend" /\ ~dialog.done /\ ~Pending(dialog.call) /\ PageThere
    /\ Mutate(Call("resend", dialog.link, None, {}))
    /\ dialog' = [dialog EXCEPT !.call = Len(calls')]
    /\ UNCHANGED <<links, screen, viewed, revoking, query, hist, count>>

OpenRevoke(i) ==
    /\ "revoke" \in errand.ops /\ dialog = NoDialog /\ Offered(i)
    /\ dialog' = [NoDialog EXCEPT !.kind = "revoke", !.link = i]
    /\ UNCHANGED <<links, screen, viewed, revoking, query, calls, hist, count>>

Revoke ==
    /\ dialog.kind = "revoke" /\ ~Pending(revoking) /\ PageThere
    /\ Mutate(Call("revoke", dialog.link, None, {}))
    /\ revoking' = Len(calls')
    /\ UNCHANGED <<links, screen, viewed, dialog, query, hist, count>>

\* Cancel, Done or "Keep it", even while the call is under way.
Dismiss ==
    /\ dialog # NoDialog /\ PageThere
    /\ dialog' = NoDialog
    /\ UNCHANGED <<links, screen, viewed, revoking, query, calls, hist, count>>

-----------------------------------------------------------------------------
(* The server.                                                              *)

InUse(p, ts) ==
    \E i \in DOMAIN links :
        /\ links[i].person = p /\ ~links[i].revoked /\ ~links[i].expired
        /\ ts \cap Unfinished(links[i]) # {}

\* The call of n is carried out, or refused.
CarryOut(n) ==
    /\ calls' = [calls EXCEPT ![n].state = "done", ![n].at = writes + 1]
    /\ writes' = writes + 1
    /\ UNCHANGED <<page, query, own>>

Refuse(n) ==
    /\ calls' = [calls EXCEPT ![n].state = "refused"]
    /\ UNCHANGED <<page, query, hist, count>>

Asks(n, op) == calls[n].op = op /\ calls[n].state = "sent"

\* The email may fail: sentAt is left alone then.
Mailed(m) == m \/ count.failures < errand.failures
CountMail(m) == count' = IF m THEN count ELSE [count EXCEPT !.failures = @ + 1]

ServeSend(n, m) ==
    LET p == calls[n].person ts == calls[n].tests IN
    /\ Asks(n, "send")
    /\ IF InUse(p, ts)
       THEN m /\ Refuse(n) /\ UNCHANGED links
       ELSE Mailed(m) /\ CountMail(m) /\ CarryOut(n) /\ links' = Append(links, NewLink(p, ts, m))

\* Whatever expiry is asked for, an expired link gets a new one.
ServeResend(n, m) ==
    /\ Asks(n, "resend")
    /\ \E now \in Now :
          LET i == calls[n].link  l == Swept(links[i], now) IN
          IF l.revoked \/ Unfinished(l) = {}
          THEN m /\ Refuse(n) /\ links' = [links EXCEPT ![i] = l]
          ELSE /\ Mailed(m) /\ CountMail(m) /\ CarryOut(n)
               /\ links' = [links EXCEPT ![i] = [l EXCEPT !.expired = FALSE, !.sent = @ \/ m]]

ServeRevoke(n) ==
    /\ Asks(n, "revoke")
    /\ links' = [links EXCEPT ![calls[n].link].revoked = TRUE]
    /\ CarryOut(n)
    /\ UNCHANGED count

-----------------------------------------------------------------------------
(* Answers.                                                                 *)

End(n) == calls' = [calls EXCEPT ![n] = Over]

\* Mutant: a read under way is left to answer.
InvalidatedOnly(q, seen) ==
    IF q.data = None /\ q.read = "idle" THEN q
    ELSE IF seen /\ q.read = "idle" THEN [Asked(q) EXCEPT !.stale = TRUE]
    ELSE [q EXCEPT !.stale = TRUE]

\* A view on screen is read again: a read under way is given up for a new one,
\* unless it is the first.  Others are read when they are next on screen.
Invalidated(q, seen) ==
    IF q.data = None /\ q.read = "idle" THEN IF seen THEN Asked(q) ELSE q
    ELSE IF seen /\ q.data # None THEN [Asked(q) EXCEPT !.stale = TRUE]
    ELSE [q EXCEPT !.stale = TRUE, !.crossed = q.read # "idle"]

InvalidateInvitations ==
    query' = [v \in Views |-> IF v = Home THEN query[v] ELSE Invalidated(query[v], v \in Observed)]

\* The form shows the link; a revoke closes the confirmation that is open by then.
Answered(n) ==
    IF dialog.kind \in {"send", "resend"} /\ dialog.call = n THEN [dialog EXCEPT !.done = TRUE]
    ELSE IF dialog.kind = "revoke" /\ revoking = n THEN NoDialog
    ELSE dialog

Succeed(n) ==
    /\ calls[n].state = "done"
    /\ InvalidateInvitations
    /\ dialog' = Answered(n)
    /\ own' = IF calls[n].at > own THEN calls[n].at ELSE own
    /\ End(n)
    /\ UNCHANGED <<links, screen, viewed, revoking, writes, count>>

\* An error is shown and nothing else.
Fail(n) ==
    /\ calls[n].state = "refused"
    /\ End(n)
    /\ UNCHANGED <<links, page, query, hist, count>>

\* On the way there or back: it may have been carried out.
Lose(n) ==
    /\ Pending(n) /\ count.failures < errand.failures
    /\ End(n)
    /\ count' = [count EXCEPT !.failures = @ + 1]
    /\ UNCHANGED <<links, page, query, hist>>

-----------------------------------------------------------------------------
(* Candidates, the clock and another admin.                                 *)

Changes(i, l) == links' = [links EXCEPT ![i] = l] /\ UNCHANGED <<page, query, calls, hist>>

Moves(i, t, from, to, at) ==
    /\ "tests" \in errand.outside
    /\ t \in DOMAIN links[i].tests /\ links[i].tests[t] = from
    /\ Changes(i, [links[i] EXCEPT !.tests[t] = to, !.at = at])
    /\ UNCHANGED count

Start(i, t) ==
    ~links[i].revoked /\ ~links[i].expired /\ Moves(i, t, "NOT_STARTED", "IN_PROGRESS", links[i].at)

HandIn(i, t) ==
    ~links[i].revoked /\ \E now \in Now : Moves(i, t, "IN_PROGRESS", "SUBMITTED", now)

TimeOut(i, t) == Moves(i, t, "IN_PROGRESS", "overdue", links[i].at)

\* The candidate's page sweeps the link too.
Look(i) ==
    /\ ~links[i].revoked
    /\ \E now \in Now : Swept(links[i], now) # links[i] /\ Changes(i, Swept(links[i], now))
    /\ UNCHANGED count

Expire(i) ==
    /\ "expiry" \in errand.outside /\ ~links[i].expired
    /\ Changes(i, [links[i] EXCEPT !.expired = TRUE])
    /\ UNCHANGED count

OtherAdmin(i) ==
    /\ count.others < errand.others
    /\ \/ Changes(i, [links[i] EXCEPT !.revoked = TRUE])
       \/ \E now \in Now :
             /\ ~links[i].revoked /\ Unfinished(Swept(links[i], now)) # {}
             /\ Changes(i, [Swept(links[i], now) EXCEPT !.expired = FALSE])
    /\ count' = [count EXCEPT !.others = @ + 1]

-----------------------------------------------------------------------------

Person ==
    \/ \E s \in {"home", "library", "sent", "results"}, l \in 0 .. MaxLinks, old \in BOOLEAN : Go(s, l, old)
    \/ Refetch \/ Poll
    \/ OpenSend \/ SendAnother \/ Resend \/ Revoke \/ Dismiss
    \/ \E p \in People, ts \in SUBSET Tests : Send(p, ts)
    \/ \E i \in DOMAIN links : OpenResend(i) \/ OpenRevoke(i)

Server(n) == ServeRevoke(n) \/ \E m \in BOOLEAN : ServeSend(n, m) \/ ServeResend(n, m)

Answer(n) == Succeed(n) \/ Fail(n) \/ Lose(n)

Others(i) ==
    \/ \E t \in Tests : Start(i, t) \/ HandIn(i, t) \/ TimeOut(i, t)
    \/ Look(i) \/ Expire(i) \/ OtherAdmin(i)

Next ==
    /\ \/ Person
       \/ \E v \in Views : ServeRead(v) \/ TakeRead(v) \/ FailRead(v)
       \/ \E n \in DOMAIN calls : Server(n) \/ Answer(n)
       \/ \E i \in DOMAIN links : Others(i)
    /\ UNCHANGED errand

\* The tab is in view, the poll's timer goes off, and reads are answered or
\* fail; only so many fail.
Fairness ==
    /\ WF_vars(Poll /\ UNCHANGED errand)
    /\ \A v \in Views : WF_vars((ServeRead(v) \/ TakeRead(v)) /\ UNCHANGED errand)

Spec == Init /\ [][Next]_vars /\ Fairness

-----------------------------------------------------------------------------
(* Properties.                                                              *)

\* The server's links, the cache and the dialogs are well formed.
TypeOK ==
    /\ links \in Seq(Link) /\ Len(links) <= MaxLinks
    /\ viewed \in 0 .. Len(links) /\ (screen = "results") = (viewed # 0)
    /\ screen \in {"home", "library", "sent", "results"}
    /\ \A v \in Views : /\ query[v].read \in {"idle", "asked", "back"}
                        /\ query[v].at <= writes /\ query[v].gotAt <= writes
                        /\ query[v].data # None =>
                              query[v].data \in IF v = Home THEN Dashboards
                                                ELSE IF v = List THEN BoundedSeq(Rows, MaxLinks) ELSE Rows
    /\ dialog.kind \in {"none", "send", "resend", "revoke"}
    /\ dialog.call \in 0 .. Len(calls) /\ revoking \in 0 .. Len(calls)
    /\ own <= writes

\* What a staff member did shows: once their call has been answered and the
\* reads with it, the list or the results on screen are from after the call,
\* unless the read failed, or was the first or off screen when they did it.
OwnCallsShow ==
    \A v \in Observed \ {Home} :
        (query[v].read = "idle" /\ ~query[v].failed /\ ~query[v].crossed) => query[v].at >= own

\* How view v shows link i.
Shows(v, i) ==
    IF query[v].data = None \/ v \notin {List, Detail(i)} THEN None
    ELSE IF v # List THEN query[v].data.status
    ELSE IF i \in DOMAIN query[v].data THEN query[v].data[i].status ELSE None

Recent == IF query[Home].data = None THEN {} ELSE query[Home].data.recent

\* The home page lists as many as it takes, none of them older than that.
Full(at) == Cardinality(Recent) = RECENT_RESULTS /\ \A r \in Recent : r.at >= at

\* A link that was shown as completed or revoked is never shown as open again,
\* though it expires, is resent by another admin or is read while that happens;
\* and what the home page listed as a result stays listed, with at least the
\* tests it had, unless the link is revoked or others that finished no earlier
\* fill the list.
EndedStaysShown ==
    [][/\ \A i \in Ids, v \in Views :
             /\ Shows(v, i) = "REVOKED" => Shows(v, i)' = "REVOKED"
             /\ Shows(v, i) = "COMPLETED" => Shows(v, i)' \in {"COMPLETED", "REVOKED"}
       /\ \A r \in Recent :
             \/ links[r.link].revoked
             \/ \E s \in Recent' : s.link = r.link /\ r.done \subseteq s.done
             \/ Full(r.at)']_vars

\* The results page on screen shows a running test where there is none.
Behind(i) ==
    /\ screen = "results" /\ viewed = i
    /\ Shows(Detail(i), i) = "IN_PROGRESS"
    /\ invitationStatus(Swept(links[i], 0)) # "IN_PROGRESS"

\* "While a test is running, check back now and then for the score": the page
\* learns that it is over, though reads fail and nobody but the page's own
\* reads closes a test whose time ran out.
ResultsCatchUp == \A i \in Ids : Behind(i) ~> ~Behind(i)

=============================================================================
