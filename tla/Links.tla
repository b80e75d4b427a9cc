-------------------------------- MODULE Links --------------------------------
(***************************************************************************)
(* Sending tests to one candidate: AssessmentInvitationsService.  Staff    *)
(* create links, send them again, revoke them and read them; the candidate *)
(* starts and finishes tests meanwhile.  As in Take, an action is one      *)
(* statement (or one call to the mail provider) with the JavaScript up to  *)
(* the next await.                                                         *)
(*                                                                         *)
(* Take has the detail of one link's attempts; here an attempt is its      *)
(* status, its deadline and what was frozen, and finishing one is a step.  *)
(***************************************************************************)
EXTENDS Integers, FiniteSets

CONSTANTS
    Links,        \* invitation ids
    Tests,        \* assessment ids
    Contents,     \* what a test's template may hold ...
    Sendable,     \* ... and which of it is published and without problems
    Lives,        \* the values expiresInDays may have, in ticks
    DefaultLife,  \* DEFAULT_EXPIRY_DAYS, in ticks
    Duration,     \* every test's time limit
    Grace,        \* DEADLINE_GRACE_MS
    Requests,     \* staff requests that can be in flight at once
    MaxTokens,    \* bound: tokens are numbered, and this is the last
    MaxTime,      \* bound: the clock stops here
    None          \* SQL NULL, or a value the request doesn't have

ASSUME LinksAssumption ==
    /\ Sendable \subseteq Contents
    /\ Lives \subseteq Nat \ {0}
    /\ {DefaultLife, Duration} \subseteq Nat \ {0}
    /\ {Grace, MaxTokens, MaxTime} \subseteq Nat
    /\ None \notin Int \cup Links \cup Tests \cup Contents

VARIABLES
    now,      \* the server's clock
    content,  \* content[t]: the template of test t, which stays editable
    link,     \* assessment_invitations with their attempts, by id
    mails,    \* emails delivered to the candidate
    shown,    \* tokens staff got in a response
    tokens,   \* how many tokens were generated
    req       \* staff requests in flight

vars == <<now, content, link, mails, shown, tokens, req>>

-----------------------------------------------------------------------------

Attempt == [status     : {"NOT_STARTED", "IN_PROGRESS", "FINISHED"},
            deadlineAt : Nat \cup {None},
            snapshot   : Contents]

\* A link holds an attempt for some of the tests.
Invitation == [token     : Nat,
               expiresAt : Nat,
               revoked   : BOOLEAN,
               sent      : BOOLEAN,
               attempts  : [Tests -> Attempt \cup {None}]]

\* What the email says: the link and its expiry.
Mail == [link : Links, token : Nat, expiresAt : Nat]

Calls == [pc    : {"idle", "content", "open", "insert", "sweep", "find",
                   "update", "compose", "mail", "stamp", "lastsweep", "detail"},
          op    : {"none", "create", "resend"},
          link  : Links \cup {None},
          tests : SUBSET Tests,                 \* create(): the tests to send
          life  : Lives \cup {None},            \* expiresInDays
          since : Nat,                          \* when its last statement ran
          read  : [Tests -> Contents \cup {None}],  \* contents read so far
          row   : Invitation \cup {None},       \* resend(): the row it found
          token : Nat \cup {None},              \* the token in hand
          mail  : Mail \cup {None}]             \* the email to deliver

ASSUME NoneAssumption == None \notin Invitation \cup Attempt

\* A call drops from its record what it is done with.
Idle == [pc |-> "idle", op |-> "none", link |-> None, tests |-> {}, life |-> None,
         since |-> 0, read |-> [t \in Tests |-> None],
         row |-> None, token |-> None, mail |-> None]

Init ==
    /\ now = 0
    /\ content \in [Tests -> Sendable]
    /\ link = [l \in Links |-> None]
    /\ mails = {}
    /\ shown = {}
    /\ tokens = 0
    /\ req = [r \in Requests |-> Idle]

Exists(l) == link[l] # None
TestsOf(row) == {t \in Tests : row.attempts[t] # None}
Unfinished(row) == {t \in TestsOf(row) : row.attempts[t].status # "FINISHED"}

OverdueAt(row, t, time) == /\ row.attempts[t].status = "IN_PROGRESS"
                           /\ row.attempts[t].deadlineAt < time - Grace

\* Still open: not revoked, not expired.
Open(row, time) == ~row.revoked /\ row.expiresAt > time

Goto(r, p) == [req[r] EXCEPT !.pc = p, !.since = now]
Become(r, call) == req' = [req EXCEPT ![r] = call]
Return(r) == Become(r, Idle)

-----------------------------------------------------------------------------
(* create().                                                                *)

\* Both bounds are kept when a call begins: none stops for want of a token or
\* an id half-way.
Busy == {r \in Requests : req[r].pc # "idle"}
RoomForToken == tokens + Cardinality(Busy) < MaxTokens
RoomForLink == Cardinality({l \in Links : ~Exists(l)}) > Cardinality(Busy)

CallCreate(r) ==
    /\ req[r].pc = "idle" /\ RoomForToken /\ RoomForLink
    /\ \E ts \in (SUBSET Tests) \ {{}}, life \in Lives \cup {None} :
          Become(r, [Idle EXCEPT !.pc = "content", !.op = "create", !.tests = ts,
                                 !.life = life, !.since = now])
    /\ UNCHANGED <<now, content, link, mails, shown, tokens>>

\* Mutant: create() forgets publishProblems().
SendableDrafts(c) == TRUE

\* Published, and publishProblems() finds nothing.
IsSendable(c) == c \in Sendable

\* The tests' contents are read by concurrent statements; once the last is in,
\* create() checks them and looks the candidate up.
ReadContent(r) ==
    /\ req[r].pc = "content"
    /\ \E t \in {s \in req[r].tests : req[r].read[s] = None} :
          LET got == [req[r].read EXCEPT ![t] = content[t]]
              all == \A s \in req[r].tests : got[s] # None
          IN  CASE ~all -> Become(r, [Goto(r, "content") EXCEPT !.read = got])
                [] all /\ (\E s \in req[r].tests : ~IsSendable(got[s])) -> Return(r)
                [] OTHER -> Become(r, [Goto(r, "open") EXCEPT !.read = got])
    /\ UNCHANGED <<now, content, link, mails, shown, tokens>>

\* Attempts that keep a test in use: one of an open link, not finished.
\* Pairs of a link and a test.
InUse(ts, time) ==
    {use \in Links \X ts :
        LET l == use[1] IN
        Exists(l) /\ Open(link[l], time) /\ use[2] \in Unfinished(link[l])}

\* The clock is read before the statement that compares with it.
CheckOpen(r) ==
    /\ req[r].pc = "open"
    /\ \E time \in req[r].since .. now :
          IF InUse(req[r].tests, time) # {} THEN Return(r)
          ELSE Become(r, Goto(r, "insert"))
    /\ UNCHANGED <<now, content, link, mails, shown, tokens>>

FirstExpiry(life, time) == time + (IF life = None THEN DefaultLife ELSE life)

\* One INSERT transaction stores the link and its attempts.
Insert(r) ==
    /\ req[r].pc = "insert"
    /\ tokens' = tokens + 1
    /\ \E l \in {k \in Links : ~Exists(k)}, time \in req[r].since .. now :
          /\ link' = [link EXCEPT ![l] =
                [token     |-> tokens + 1,
                 expiresAt |-> FirstExpiry(req[r].life, time),
                 revoked   |-> FALSE,
                 sent      |-> FALSE,
                 attempts  |-> [t \in Tests |->
                    IF t \notin req[r].tests THEN None
                    ELSE [status |-> "NOT_STARTED", deadlineAt |-> None,
                          snapshot |-> req[r].read[t]]]]]
          /\ Become(r, [Goto(r, "compose") EXCEPT !.link = l, !.token = tokens + 1,
                                                  !.life = None])
    /\ UNCHANGED <<now, content, mails, shown>>

-----------------------------------------------------------------------------
(* resend().                                                                *)

CallResend(r) ==
    /\ req[r].pc = "idle" /\ RoomForToken
    /\ \E l \in Links, life \in Lives \cup {None} :
          /\ Exists(l)
          /\ Become(r, [Idle EXCEPT !.pc = "sweep", !.op = "resend", !.link = l,
                                    !.life = life, !.since = now])
    /\ UNCHANGED <<now, content, link, mails, shown, tokens>>

\* finalizeOverdue(id): Take shows that what was overdue at the sweep is closed
\* when it returns.  Parts of it may be seen before: that is FinishTest.
Swept(row, time) ==
    [row EXCEPT !.attempts = [t \in Tests |->
        IF row.attempts[t] # None /\ OverdueAt(row, t, time)
        THEN [row.attempts[t] EXCEPT !.status = "FINISHED"] ELSE row.attempts[t]]]

Sweep(r) ==
    /\ req[r].pc \in {"sweep", "lastsweep"}
    /\ \E time \in req[r].since .. now :
          link' = [link EXCEPT ![req[r].link] = Swept(@, time)]
    /\ Become(r, Goto(r, IF req[r].pc = "sweep" THEN "find" ELSE "detail"))
    /\ UNCHANGED <<now, content, mails, shown, tokens>>

\* Refused when the link is revoked or every test is finished.
Find(r) ==
    /\ req[r].pc = "find"
    /\ LET row == link[req[r].link] IN
       IF row.revoked \/ Unfinished(row) = {} THEN Return(r)
       ELSE Become(r, [Goto(r, "update") EXCEPT !.row = row])
    /\ UNCHANGED <<now, content, link, mails, shown, tokens>>

\* Mutant: a link that expired keeps its old expiry.
NewExpiryAlwaysKept(r, time) ==
    IF req[r].life # None THEN time + req[r].life ELSE req[r].row.expiresAt

\* The given life, or the expiry that was read while that lasts, or the default.
NewExpiry(r, time) ==
    CASE req[r].life # None -> time + req[r].life
      [] req[r].life = None /\ req[r].row.expiresAt > time -> req[r].row.expiresAt
      [] OTHER -> time + DefaultLife

\* Mutant: the update writes back the whole row that was read.
RenewedAsRead(r, row, time) ==
    [req[r].row EXCEPT !.token = tokens + 1, !.expiresAt = NewExpiry(r, time)]
\* Mutant: the link keeps its token.
RenewedOldToken(r, row, time) == [row EXCEPT !.expiresAt = NewExpiry(r, time)]

\* The columns resend() writes.
Renewed(r, row, time) ==
    [row EXCEPT !.token = tokens + 1, !.expiresAt = NewExpiry(r, time)]

Update(r) ==
    /\ req[r].pc = "update"
    /\ tokens' = tokens + 1
    /\ \E time \in req[r].since .. now :
          link' = [link EXCEPT ![req[r].link] = Renewed(r, @, time)]
    /\ Become(r, [Goto(r, "compose") EXCEPT !.token = tokens + 1,
                                           !.row = None, !.life = None])
    /\ UNCHANGED <<now, content, mails, shown>>

-----------------------------------------------------------------------------
(* sendEmail() and what follows it in both calls.                           *)

\* The row is read again for the email.
Compose(r) ==
    /\ req[r].pc = "compose"
    /\ LET row == link[req[r].link] IN
       Become(r, [Goto(r, "mail") EXCEPT !.mail =
                    [link      |-> req[r].link,
                     token     |-> req[r].token,
                     expiresAt |-> row.expiresAt]])
    /\ UNCHANGED <<now, content, link, mails, shown, tokens>>

\* The provider takes the email, or fails, whether or not it went out: the
\* failure is logged and the call goes on.
Send(r) ==
    /\ req[r].pc = "mail"
    /\ \/ /\ mails' = mails \cup {req[r].mail}
          /\ Become(r, [Goto(r, "stamp") EXCEPT !.mail = None])
       \/ /\ mails' \in {mails, mails \cup {req[r].mail}}
          /\ Become(r, [Goto(r, "lastsweep") EXCEPT !.mail = None])
    /\ UNCHANGED <<now, content, link, shown, tokens>>

Stamp(r) ==
    /\ req[r].pc = "stamp"
    /\ link' = [link EXCEPT ![req[r].link].sent = TRUE]
    /\ Become(r, Goto(r, "lastsweep"))
    /\ UNCHANGED <<now, content, mails, shown, tokens>>

\* The response carries the link.
Show(r) == shown' = shown \cup {req[r].token}

\* detail() has swept: it reads, and the call returns.
Detail(r) ==
    /\ req[r].pc = "detail"
    /\ Show(r)
    /\ Return(r)
    /\ UNCHANGED <<now, content, link, mails, tokens>>

-----------------------------------------------------------------------------
(* What is read off a link.                                                 *)

Running(row) == {t \in TestsOf(row) : row.attempts[t].status = "IN_PROGRESS"}

\* Mutant: a link is EXPIRED at its expiry whatever is running.
invitationStatusByDate(row) ==
    CASE row.revoked          -> "REVOKED"
      [] ~row.revoked /\ Unfinished(row) = {} -> "COMPLETED"
      [] ~row.revoked /\ Unfinished(row) # {} /\ row.expiresAt <= now -> "EXPIRED"
      [] OTHER -> "OPEN"

\* NOT_STARTED and IN_PROGRESS are one status here, OPEN.
invitationStatus(row) ==
    CASE row.revoked          -> "REVOKED"
      [] ~row.revoked /\ Unfinished(row) = {} -> "COMPLETED"
      [] ~row.revoked /\ Unfinished(row) # {}
            /\ row.expiresAt <= now /\ Running(row) = {} -> "EXPIRED"
      [] OTHER -> "OPEN"

\* InvitationTokenGuard, for the token the link has now.
GuardAllows(row) ==
    /\ ~row.revoked
    /\ \/ row.expiresAt > now
       \/ \E t \in Running(row) : row.attempts[t].deadlineAt + Grace > now

-----------------------------------------------------------------------------
(* Everybody else.                                                          *)

\* One conditional update.
Revoke(l) ==
    /\ Exists(l) /\ ~link[l].revoked
    /\ link' = [link EXCEPT ![l].revoked = TRUE]
    /\ UNCHANGED <<now, content, mails, shown, tokens, req>>

\* Admins edit, publish and archive templates at any time.
Edit(t) ==
    /\ \E c \in Contents \ {content[t]} : content' = [content EXCEPT ![t] = c]
    /\ UNCHANGED <<now, link, mails, shown, tokens, req>>

\* Somebody gave the candidate the link that works now.
Reachable(l) == \/ \E m \in mails : m.token = link[l].token
                \/ link[l].token \in shown

StartTest(l, t) ==
    /\ Exists(l) /\ Reachable(l) /\ Open(link[l], now)
    /\ t \in TestsOf(link[l]) /\ link[l].attempts[t].status = "NOT_STARTED"
    /\ link' = [link EXCEPT ![l].attempts[t] =
                  [@ EXCEPT !.status = "IN_PROGRESS", !.deadlineAt = now + Duration]]
    /\ UNCHANGED <<now, content, mails, shown, tokens, req>>

\* The candidate hands a test in (a submit past the guard isn't stopped by a
\* revoke), or any sweep closes an overdue one.
FinishTest(l, t) ==
    /\ Exists(l) /\ t \in TestsOf(link[l])
    /\ link[l].attempts[t].status = "IN_PROGRESS"
    /\ link' = [link EXCEPT ![l].attempts[t].status = "FINISHED"]
    /\ UNCHANGED <<now, content, mails, shown, tokens, req>>

Tick ==
    /\ now < MaxTime
    /\ now' = now + 1
    /\ UNCHANGED <<content, link, mails, shown, tokens, req>>

\* A statement fails or the process restarts.
Drop(r) ==
    /\ req[r].pc # "idle"
    /\ Return(r)
    /\ UNCHANGED <<now, content, link, mails, shown, tokens>>

Call(r) == CallCreate(r) \/ CallResend(r)

Handle(r) ==
    \/ ReadContent(r) \/ CheckOpen(r) \/ Insert(r) \/ Sweep(r) \/ Find(r) \/ Update(r)
    \/ Compose(r) \/ Send(r) \/ Stamp(r) \/ Detail(r)

Others ==
    \/ \E l \in Links : Revoke(l) \/ \E t \in Tests : StartTest(l, t) \/ FinishTest(l, t)
    \/ \E t \in Tests : Edit(t)
    \/ Tick

NextUp == Others \/ \E r \in Requests : Call(r) \/ Handle(r)
Next == NextUp \/ \E r \in Requests : Drop(r)

Spec == Init /\ [][Next]_vars

\* Handlers run on, and no process dies.
LiveSpec == Init /\ [][NextUp]_vars /\ \A r \in Requests : WF_vars(Handle(r))

-----------------------------------------------------------------------------
(* Properties.                                                              *)

\* Links, emails and calls in flight are well formed.
TypeOK ==
    /\ now \in Nat /\ tokens \in Nat
    /\ content \in [Tests -> Contents]
    /\ link \in [Links -> Invitation \cup {None}]
    /\ mails \subseteq Mail
    /\ shown \subseteq Nat
    /\ req \in [Requests -> Calls]

\* An email whose link works gives the link's own expiry, though sendEmail()
\* reads the row again after other resends may have replaced token and expiry.
MailTellsExpiry ==
    \A m \in mails : Exists(m.link) /\ m.token = link[m.link].token
                        => m.expiresAt = link[m.link].expiresAt

\* A candidate only ever gets a copy of a test that was published and complete,
\* although templates are edited while create() runs.
SnapshotsSendable ==
    \A l \in Links : Exists(l) =>
        \A t \in TestsOf(link[l]) : link[l].attempts[t].snapshot \in Sendable

\* "Revokes the link at once": a resend that read the link before doesn't
\* bring it back.
RevokeSticks ==
    [][\A l \in Links : Exists(l) /\ link[l].revoked => link'[l].revoked]_vars

\* Staff never see EXPIRED on a link a candidate can still use.
ExpiredIsShut ==
    \A l \in Links :
        Exists(l) /\ invitationStatus(link[l]) = "EXPIRED" => ~GuardAllows(link[l])

\* A link that is sent again works again: its expiry is later than the moment
\* resend() read the link.
ResendReopens ==
    [][\A r \in Requests : req[r].pc = "update" /\ req'[r].pc = "compose" =>
          link'[req[r].link].expiresAt > req[r].since]_vars

\* A test is sent again only once no open link holds it unfinished.  True of
\* one staff request at a time; two can pass the check together.
SentOnce ==
    [][\A l, k \in Links :
          ~Exists(l) /\ link'[l] # None /\ Exists(k) /\ Open(link[k], now) =>
              TestsOf(link'[l]) \cap Unfinished(link[k]) = {}]_vars

\* The token stored for a link is one that was handed to somebody, or the call
\* that made it is still at work, or another token takes its place.
TokenHandedOut ==
    \A l \in Links, k \in 1 .. MaxTokens :
        (Exists(l) /\ link[l].token = k)
            ~> (Exists(l) => Reachable(l) \/ link[l].token # k)

\* "Today a test can't be sent again while it's open in another link": no two
\* open links hold the same test unfinished.  The code doesn't keep this, even
\* with one staff request at a time: resend() reopens an expired link without
\* asking what was sent since.
OneOpenLink ==
    \A l, k \in Links :
        /\ l # k /\ Exists(l) /\ Exists(k)
        /\ Open(link[l], now) /\ Open(link[k], now)
        => Unfinished(link[l]) \cap Unfinished(link[k]) = {}

\* finalizeOverdue() "runs before anything reads attempts, so no one sees a
\* stale in progress": create() refuses only for a test that isn't over.  It
\* doesn't sweep, so it does.
RefusedForOpenTest ==
    [][\A r \in Requests : req[r].pc = "open" /\ req'[r].pc = "idle" =>
          \E use \in InUse(req[r].tests, req[r].since) :
              ~OverdueAt(link[use[1]], use[2], req[r].since)]_vars

\* Resend "keeps the expiry, or sets a new one": without expiresInDays a link
\* that hasn't expired keeps the expiry it has.  Two resends break it.
ExpiryKept ==
    [][\A r \in Requests :
          /\ req[r].pc = "update" /\ req'[r].pc = "compose" /\ req[r].life = None
          /\ link[req[r].link].expiresAt > now
          => link'[req[r].link].expiresAt >= link[req[r].link].expiresAt]_vars

=============================================================================
