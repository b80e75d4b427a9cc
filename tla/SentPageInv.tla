---------------------------- MODULE SentPageInv ----------------------------
(***************************************************************************)
(* The inductive invariant of SentPage: what a view that was read tells of *)
(* the links by now, what a read that is under way will add to it, and how *)
(* new a view is that nothing marks as old.                                *)
(***************************************************************************)
EXTENDS SentPage

Data(v) == IF v = Home THEN Dashboards ELSE IF v = List THEN BoundedSeq(Rows, MaxLinks) ELSE Rows

Entry(v) ==
    [data : Data(v) \cup {None}, stale : BOOLEAN, read : {"idle", "asked", "back"},
     got : Data(v) \cup {None}, gotAt : Nat, failed : BOOLEAN, at : Nat, crossed : BOOLEAN]

CallShape ==
    [op : {"send", "resend", "revoke", None}, link : Nat, person : People \cup {None},
     tests : SUBSET Tests, state : {"sent", "done", "refused", "over"}, at : Nat]

\* A call that isn't over is of somebody and some tests, or of a link.
CallTrue(ls, w, k) ==
    /\ k.at <= w
    /\ k.state # "over" /\ k.op = "send" => k.person \in People /\ k.tests # {}
    /\ k.state # "over" /\ k.op \in {"resend", "revoke"} => k.link \in DOMAIN ls

Shapes ==
    /\ DOMAIN query = Views /\ \A v \in Views : query[v] \in Entry(v)
    /\ dialog \in [kind : {"none", "send", "resend", "revoke"}, link : Nat, call : Nat, done : BOOLEAN]
    /\ dialog.kind \in {"resend", "revoke"} => dialog.link \in DOMAIN links
    /\ calls \in Seq(CallShape) /\ \A n \in DOMAIN calls : CallTrue(links, writes, calls[n])
    /\ writes \in Nat /\ own \in Nat
    /\ Len(links) + Cardinality(Sending) <= MaxLinks

-----------------------------------------------------------------------------

\* Only links there are have been read.
ReadsOfLinks ==
    \A i \in Ids : query[Detail(i)].data # None \/ query[Detail(i)].read # "idle" => i \in DOMAIN links

\* What has ended has not begun again.
RowTrue(row, l) ==
    /\ row.status = "REVOKED" => l.revoked
    /\ row.status = "COMPLETED" => l.revoked \/ Unfinished(l) = {}

\* Of data d that view v showed once, the links being ls now.
Still(ls, v, d) ==
    IF v = Home
    THEN \A r \in d.recent :
            /\ r.link \in DOMAIN ls /\ r.at \in 0 .. ls[r.link].at
            /\ r.done \subseteq Finished(ls[r.link]) /\ r.done # {}
    ELSE IF v = List
    THEN Len(d) <= Len(ls) /\ \A i \in DOMAIN d : RowTrue(d[i], ls[i])
    ELSE RowTrue(d, ls[v[2]])

RowKept(row, new) ==
    /\ row.status = "REVOKED" => new.status = "REVOKED"
    /\ row.status = "COMPLETED" => new.status \in {"COMPLETED", "REVOKED"}

\* The data e that was read after d takes nothing back.
Kept(ls, v, d, e) ==
    IF v = Home
    THEN \A r \in d.recent :
            \/ ls[r.link].revoked
            \/ \E s \in e.recent : s.link = r.link /\ r.done \subseteq s.done
            \/ Cardinality(e.recent) = RECENT_RESULTS /\ \A s \in e.recent : s.at >= r.at
    ELSE IF v = List
    THEN Len(d) <= Len(e) /\ \A i \in DOMAIN d : RowKept(d[i], e[i])
    ELSE RowKept(d, e)

\* What a cache entry tells of the links.
EntryTrue(ls, v, q) ==
    /\ q.data # None => Still(ls, v, q.data)
    /\ q.read = "back" => q.got # None /\ Still(ls, v, q.got)
    /\ q.read = "back" /\ q.data # None => Kept(ls, v, q.data, q.got)

CacheTrue == \A v \in Views : EntryTrue(links, v, query[v])

\* A view that nothing marks as old is as new as the last call that was
\* answered, or will be read when it is next on screen.
Fresh(v) ==
    LET q == query[v] IN
    ~q.crossed =>
        /\ q.read = "back" => q.gotAt >= own
        /\ q.read = "idle" /\ ~q.failed =>
              \/ q.at >= own
              \/ v \notin Observed /\ (q.stale \/ q.data = None)

SInv ==
    /\ TypeOK /\ Shapes /\ ReadsOfLinks /\ CacheTrue
    /\ \A v \in Views \ {Home} : Fresh(v)

=============================================================================
