----------------------------- MODULE LinksProofs -----------------------------
(***************************************************************************)
(* LInv is an invariant of Links, for any number of links, tests and staff *)
(* requests, and what follows from it.                                     *)
(***************************************************************************)
EXTENDS LinksInv, TLAPS

\* What one step may do to the row of link l.
Inserted(l) ==
    /\ ~Exists(l)
    /\ link'[l] \in Invitation
    /\ link'[l].token = tokens'
    /\ \A t \in Tests : link'[l].attempts[t] # None =>
                            link'[l].attempts[t].snapshot \in Sendable

Written(l) ==
    /\ Exists(l)
    /\ link'[l] \in Invitation
    /\ link[l].revoked => link'[l].revoked
    /\ \A t \in Tests : link'[l].attempts[t] # None =>
                            /\ link[l].attempts[t] # None
                            /\ link'[l].attempts[t].snapshot = link[l].attempts[t].snapshot
    /\ \/ link'[l].token = link[l].token /\ link'[l].expiresAt = link[l].expiresAt
       \/ link'[l].token = tokens + 1 /\ tokens' = tokens + 1

LinkStep(l) == link'[l] = link[l] \/ Inserted(l) \/ Written(l)

\* Email m will be true after the step.
MailStays(m) ==
    /\ m.link \in Links /\ link'[m.link] # None
    /\ m.token <= tokens'
    /\ m.token = link'[m.link].token => m.expiresAt = link'[m.link].expiresAt

\* Tokens only go up, and every link's row moves by the rules.
RowsStep == tokens' \in {tokens, tokens + 1} /\ \A l \in Links : LinkStep(l)

-----------------------------------------------------------------------------

LEMMA NoneIsNoLink == None \notin Invitation
  BY NoneAssumption

LEMMA RowTypes ==
    ASSUME TypeOK, NEW l \in Links, Exists(l)
    PROVE  link[l] \in Invitation
  BY DEF TypeOK, Exists

LEMMA ExistsKeeps ==
    ASSUME RowsStep, NEW l \in Links, Exists(l)
    PROVE  link'[l] # None
  BY NoneIsNoLink DEF RowsStep, LinkStep, Inserted, Written, Exists

\* An email stays true: a link it names gets a new expiry only with a new token.
LEMMA MailKeeps ==
    ASSUME TypeOK, RowsStep, NEW m \in Mail, MailTrue(m)
    PROVE  MailStays(m)
<1>1. m.link \in Links /\ Exists(m.link) /\ link'[m.link] # None
  BY ExistsKeeps DEF MailTrue
<1>2. m.token \in Nat /\ tokens \in Nat /\ tokens' \in {tokens, tokens + 1}
  BY DEF Mail, TypeOK, RowsStep
<1>3. LinkStep(m.link)
  BY <1>1 DEF RowsStep
<1>4. \/ link'[m.link] = link[m.link]
      \/ /\ link'[m.link].token = link[m.link].token
         /\ link'[m.link].expiresAt = link[m.link].expiresAt
      \/ link'[m.link].token = tokens + 1
  BY <1>1, <1>3 DEF LinkStep, Inserted, Written
<1> QED BY <1>1, <1>2, <1>4 DEF MailTrue, MailStays

LEMMA LinkKeeps ==
    ASSUME TypeOK, RowsStep, NEW l \in Links, LinkShape(l)
    PROVE  LinkShape(l)'
<1>1. tokens \in Nat /\ tokens' \in {tokens, tokens + 1}
  BY DEF TypeOK, RowsStep
<1>2. CASE link'[l] = link[l]
  <2>1. Exists(l) => link[l].token \in Nat
    BY RowTypes DEF Invitation
  <2> QED BY <1>1, <1>2, <2>1 DEF LinkShape, Exists, TestsOf
<1>3. CASE Inserted(l)
  BY <1>1, <1>3 DEF Inserted, LinkShape, TestsOf
<1>4. CASE Written(l)
  <2>1. link[l].token \in Nat
    BY <1>4, RowTypes DEF Written, Invitation
  <2> QED BY <1>1, <1>4, <2>1 DEF Written, LinkShape, TestsOf
<1> QED BY <1>2, <1>3, <1>4 DEF RowsStep, LinkStep

\* A call keeps what it relies on while others move.
LEMMA OthersKeep ==
    ASSUME LInv, RowsStep, NEW s \in Requests, req'[s] = req[s]
    PROVE  CallShape(s)'
<1>1. tokens \in Nat /\ tokens' \in {tokens, tokens + 1}
  BY DEF LInv, TypeOK, RowsStep
<1>2. CallShape(s) /\ TypeOK
  BY DEF LInv
<1>3. req[s].link \in Links /\ Exists(req[s].link) => link'[req[s].link] # None
  BY ExistsKeeps
<1>4. CASE req[s].pc = "mail"
  <2>1. MailStays(req[s].mail) /\ req[s].mail \in Mail
    BY <1>2, <1>4, MailKeeps DEF CallShape
  <2> QED BY <1>1, <1>2, <1>3, <1>4, <2>1 DEF CallShape, MailTrue, MailStays, Exists
<1>5. CASE req[s].pc # "mail"
  BY <1>1, <1>2, <1>3, <1>5 DEF CallShape, Exists
<1> QED BY <1>4, <1>5

\* The part of a step that is about anybody but the request that moves.
LEMMA StepOfOne ==
    ASSUME LInv, NEW r \in Requests, TypeOK', RowsStep,
           \A s \in Requests \ {r} : req'[s] = req[s], CallShape(r)',
           \A m \in mails' : m \in mails \/ MailStays(m)
    PROVE  LInv' /\ RowsStep
<1>1. \A s \in Requests : CallShape(s)'
  BY OthersKeep
<1>2. \A l \in Links : LinkShape(l)'
  BY LinkKeeps DEF LInv
<1>3. ASSUME NEW m \in mails' PROVE MailTrue(m)'
  <2>1. MailStays(m)
    BY <1>3, MailKeeps DEF LInv, TypeOK
  <2> QED BY <2>1 DEF MailStays, MailTrue, Exists
<1> QED BY <1>1, <1>2, <1>3 DEF LInv

\* A step of everybody but staff requests.
LEMMA StepOfNone ==
    ASSUME LInv, TypeOK', RowsStep, req' = req, mails' = mails
    PROVE  LInv' /\ RowsStep
<1>1. \A s \in Requests : CallShape(s)'
  BY OthersKeep
<1>2. \A l \in Links : LinkShape(l)'
  BY LinkKeeps DEF LInv
<1>3. ASSUME NEW m \in mails' PROVE MailTrue(m)'
  <2>1. MailStays(m)
    BY <1>3, MailKeeps DEF LInv, TypeOK
  <2> QED BY <2>1 DEF MailStays, MailTrue, Exists
<1> QED BY <1>1, <1>2, <1>3 DEF LInv

LEMMA IdleCall == Idle \in Calls
  BY DEF Idle, Calls

LEMMA CallTypes ==
    ASSUME TypeOK, NEW r \in Requests
    PROVE  req[r] \in Calls /\ req \in [Requests -> Calls]
  BY DEF TypeOK

\* A step that only writes request r's record.
LEMMA ReadOnlyKeeps ==
    ASSUME LInv, NEW r \in Requests, NEW c \in Calls, Become(r, c),
           UNCHANGED <<now, content, link, mails, shown, tokens>>, CallShape(r)'
    PROVE  LInv' /\ RowsStep
<1>1. TypeOK'
  BY DEF LInv, TypeOK, Become
<1>2. RowsStep
  BY DEF RowsStep, LinkStep
<1>3. \A s \in Requests \ {r} : req'[s] = req[s]
  BY DEF LInv, TypeOK, Become
<1> QED BY <1>1, <1>2, <1>3, StepOfOne

LEMMA ReturnKeeps ==
    ASSUME LInv, NEW r \in Requests, Return(r),
           UNCHANGED <<now, content, link, mails, shown, tokens>>
    PROVE  LInv' /\ RowsStep
<1>1. req'[r] = Idle
  BY DEF LInv, TypeOK, Return, Become
<1>2. CallShape(r)'
  BY <1>1 DEF CallShape, Idle
<1> QED BY <1>2, IdleCall, ReadOnlyKeeps DEF Return

\* What Goto() leaves in the record.
LEMMA GotoCall ==
    ASSUME TypeOK, NEW r \in Requests,
           NEW p \in {"idle", "content", "open", "insert", "sweep", "find", "update",
                      "compose", "mail", "stamp", "lastsweep", "detail"}
    PROVE  /\ Goto(r, p) \in Calls
           /\ Goto(r, p).pc = p /\ Goto(r, p).op = req[r].op
           /\ Goto(r, p).link = req[r].link /\ Goto(r, p).tests = req[r].tests
           /\ Goto(r, p).life = req[r].life /\ Goto(r, p).since = now
           /\ Goto(r, p).read = req[r].read /\ Goto(r, p).row = req[r].row
           /\ Goto(r, p).token = req[r].token /\ Goto(r, p).mail = req[r].mail
<1> DEFINE c == [req[r] EXCEPT !.pc = p, !.since = now]
<1>1. req[r] \in Calls /\ now \in Nat
  BY DEF TypeOK
<1>2. c \in Calls
  BY <1>1 DEF Calls
<1>3. /\ c.pc = p /\ c.op = req[r].op /\ c.link = req[r].link
      /\ c.tests = req[r].tests /\ c.life = req[r].life /\ c.since = now
  BY <1>1 DEF Calls
<1>4. /\ c.read = req[r].read /\ c.row = req[r].row
      /\ c.token = req[r].token /\ c.mail = req[r].mail
  BY <1>1 DEF Calls
<1>5. Goto(r, p) = c
  BY DEF Goto
<1> HIDE DEF c
<1> QED BY <1>2, <1>3, <1>4, <1>5

LEMMA BecomeIs ==
    ASSUME TypeOK, NEW r \in Requests, NEW c, Become(r, c)
    PROVE  /\ req'[r] = c
           /\ \A s \in Requests \ {r} : req'[s] = req[s]
  BY DEF TypeOK, Become

-----------------------------------------------------------------------------
(* create(), one lemma per statement.                                       *)

LEMMA CallKeeps ==
    ASSUME LInv, NEW r \in Requests, Call(r)
    PROVE  LInv' /\ RowsStep
<1>1. CASE CallCreate(r)
  <2>1. PICK ts \in (SUBSET Tests) \ {{}}, life \in Lives \cup {None} :
            Become(r, [Idle EXCEPT !.pc = "content", !.op = "create", !.tests = ts,
                                   !.life = life, !.since = now])
    BY <1>1 DEF CallCreate
  <2> DEFINE c == [Idle EXCEPT !.pc = "content", !.op = "create", !.tests = ts,
                               !.life = life, !.since = now]
  <2>2. c \in Calls /\ c.pc = "content"
    BY DEF Idle, Calls, LInv, TypeOK
  <2> HIDE DEF c
  <2>3. TypeOK /\ Become(r, c)
    BY <2>1 DEF c, LInv
  <2>4. CallShape(r)'
    BY <2>2, <2>3, BecomeIs DEF CallShape
  <2> QED BY <1>1, <2>2, <2>3, <2>4, ReadOnlyKeeps DEF CallCreate
<1>2. CASE CallResend(r)
  <2>1. PICK l \in Links, life \in Lives \cup {None} :
            /\ Exists(l)
            /\ Become(r, [Idle EXCEPT !.pc = "sweep", !.op = "resend", !.link = l,
                                      !.life = life, !.since = now])
    BY <1>2 DEF CallResend
  <2> DEFINE c == [Idle EXCEPT !.pc = "sweep", !.op = "resend", !.link = l,
                               !.life = life, !.since = now]
  <2>2. c \in Calls /\ c.pc = "sweep" /\ c.link = l
    BY DEF Idle, Calls, LInv, TypeOK
  <2> HIDE DEF c
  <2>3. TypeOK /\ Become(r, c) /\ link' = link
    BY <1>2, <2>1 DEF c, LInv, CallResend
  <2>4. CallShape(r)'
    BY <2>1, <2>2, <2>3, BecomeIs DEF CallShape, Exists
  <2> QED BY <1>2, <2>2, <2>3, <2>4, ReadOnlyKeeps DEF CallResend
<1> QED BY <1>1, <1>2 DEF Call

LEMMA ReadContentKeeps ==
    ASSUME LInv, NEW r \in Requests, ReadContent(r)
    PROVE  LInv' /\ RowsStep
<1>0. /\ TypeOK /\ req[r] \in Calls /\ content \in [Tests -> Contents]
      /\ UNCHANGED <<now, content, link, mails, shown, tokens>>
  BY CallTypes DEF LInv, TypeOK, ReadContent
<1>1. PICK t \in {s \in req[r].tests : req[r].read[s] = None} :
          LET got == [req[r].read EXCEPT ![t] = content[t]]
              all == \A s \in req[r].tests : got[s] # None
          IN  CASE ~all -> Become(r, [Goto(r, "content") EXCEPT !.read = got])
                [] all /\ (\E s \in req[r].tests : ~IsSendable(got[s])) -> Return(r)
                [] OTHER -> Become(r, [Goto(r, "open") EXCEPT !.read = got])
  BY DEF ReadContent
<1> DEFINE got == [req[r].read EXCEPT ![t] = content[t]]
<1>2. got \in [Tests -> Contents \cup {None}]
  BY <1>0 DEF Calls
<1>3. \/ Return(r)
      \/ Become(r, [Goto(r, "content") EXCEPT !.read = got])
      \/ /\ Become(r, [Goto(r, "open") EXCEPT !.read = got])
         /\ \A s \in req[r].tests : got[s] \in Sendable
  BY <1>1 DEF IsSendable
<1> HIDE DEF got
<1>4. CASE Return(r)
  BY <1>0, <1>4, ReturnKeeps
<1>5. ASSUME NEW p \in {"content", "open"},
             Become(r, [Goto(r, p) EXCEPT !.read = got]),
             p = "open" => \A s \in req[r].tests : got[s] \in Sendable
      PROVE  LInv' /\ RowsStep
  <2> DEFINE c == [Goto(r, p) EXCEPT !.read = got]
  <2>1. /\ Goto(r, p) \in Calls /\ Goto(r, p).pc = p
        /\ Goto(r, p).tests = req[r].tests
    BY <1>0, GotoCall
  <2>2. c \in Calls /\ c.pc = p /\ c.tests = req[r].tests /\ c.read = got
    BY <1>2, <2>1 DEF Calls
  <2> HIDE DEF c
  <2>3. Become(r, c)
    BY <1>5 DEF c
  <2>4. CallShape(r)'
    BY <1>0, <1>5, <2>2, <2>3, BecomeIs DEF CallShape
  <2> QED BY <1>0, <2>2, <2>3, <2>4, ReadOnlyKeeps
<1> QED BY <1>3, <1>4, <1>5

LEMMA CheckOpenKeeps ==
    ASSUME LInv, NEW r \in Requests, CheckOpen(r)
    PROVE  LInv' /\ RowsStep
<1>0. /\ TypeOK /\ req[r].pc = "open"
      /\ UNCHANGED <<now, content, link, mails, shown, tokens>>
  BY DEF LInv, CheckOpen
<1>1. Return(r) \/ Become(r, Goto(r, "insert"))
  BY DEF CheckOpen
<1>2. CASE Return(r)
  BY <1>0, <1>2, ReturnKeeps
<1>3. CASE Become(r, Goto(r, "insert"))
  <2> DEFINE c == Goto(r, "insert")
  <2>1. /\ c \in Calls /\ c.pc = "insert"
        /\ c.tests = req[r].tests /\ c.read = req[r].read
    BY <1>0, GotoCall
  <2> HIDE DEF c
  <2>2. Become(r, c)
    BY <1>3 DEF c
  <2>3. CallShape(r)'
    BY <1>0, <2>1, <2>2, BecomeIs DEF LInv, CallShape
  <2> QED BY <1>0, <2>1, <2>2, <2>3, ReadOnlyKeeps
<1> QED BY <1>1, <1>2, <1>3

LEMMA InsertKeeps ==
    ASSUME LInv, NEW r \in Requests, Insert(r)
    PROVE  LInv' /\ RowsStep
<1>0. /\ TypeOK /\ req[r] \in Calls /\ req[r].pc = "insert"
      /\ tokens \in Nat /\ now \in Nat /\ tokens' = tokens + 1
      /\ UNCHANGED <<now, content, mails, shown>>
      /\ \A t \in req[r].tests : req[r].read[t] \in Sendable
      /\ link \in [Links -> Invitation \cup {None}]
  BY CallTypes DEF LInv, TypeOK, CallShape, Insert
<1>1. PICK l \in Links, time \in req[r].since .. now :
          /\ ~Exists(l)
          /\ link' = [link EXCEPT ![l] =
                [token     |-> tokens + 1,
                 expiresAt |-> FirstExpiry(req[r].life, time),
                 revoked   |-> FALSE,
                 sent      |-> FALSE,
                 attempts  |-> [t \in Tests |->
                    IF t \notin req[r].tests THEN None
                    ELSE [status |-> "NOT_STARTED", deadlineAt |-> None,
                          snapshot |-> req[r].read[t]]]]]
          /\ Become(r, [Goto(r, "compose") EXCEPT !.link = l, !.token = tokens + 1,
                                                  !.life = None])
  BY DEF Insert
<1> DEFINE fresh == [t \in Tests |->
                       IF t \notin req[r].tests THEN None
                       ELSE [status |-> "NOT_STARTED", deadlineAt |-> None,
                             snapshot |-> req[r].read[t]]]
           row == [token |-> tokens + 1, expiresAt |-> FirstExpiry(req[r].life, time),
                   revoked |-> FALSE, sent |-> FALSE, attempts |-> fresh]
           c == [Goto(r, "compose") EXCEPT !.link = l, !.token = tokens + 1,
                                           !.life = None]
<1>2. fresh \in [Tests -> Attempt \cup {None}]
  BY <1>0, LinksAssumption DEF Attempt
<1>3. \A t \in Tests : fresh[t] # None => fresh[t].snapshot \in Sendable
  BY <1>0
<1>4. FirstExpiry(req[r].life, time) \in Nat
  <2>1. req[r].since \in Nat /\ req[r].life \in Lives \cup {None}
    BY <1>0 DEF Calls
  <2>2. time \in Nat /\ DefaultLife \in Nat /\ Lives \subseteq Nat
    BY <1>0, <2>1, LinksAssumption
  <2>3. CASE req[r].life = None
    BY <2>2, <2>3 DEF FirstExpiry
  <2>4. CASE req[r].life # None
    <3>1. req[r].life \in Nat
      BY <2>1, <2>2, <2>4
    <3> QED BY <2>2, <2>4, <3>1 DEF FirstExpiry
  <2> QED BY <2>3, <2>4
<1> HIDE DEF fresh
<1>5. row \in Invitation /\ row.token = tokens + 1 /\ row.attempts = fresh
  BY <1>0, <1>2, <1>4 DEF Invitation
<1>6. c \in Calls /\ c.pc = "compose" /\ c.link = l /\ c.token = tokens + 1
  <2>1. Goto(r, "compose") \in Calls /\ Goto(r, "compose").pc = "compose"
    BY <1>0, GotoCall
  <2> PICK g \in Calls : g = Goto(r, "compose")
    BY <2>1
  <2>2. c = [g EXCEPT !.link = l, !.token = tokens + 1, !.life = None] /\ g.pc = "compose"
    BY <2>1
  <2>3. tokens + 1 \in Nat \cup {None} /\ l \in Links \cup {None}
    BY <1>0
  <2> HIDE DEF c
  <2> QED BY <2>2, <2>3 DEF Calls
<1>7. link' = [link EXCEPT ![l] = row] /\ Become(r, c)
  BY <1>1 DEF fresh
<1> HIDE DEF row, c
<1>8. link'[l] = row /\ \A k \in Links \ {l} : link'[k] = link[k]
  BY <1>0, <1>7
<1>9. Inserted(l)
  BY <1>0, <1>1, <1>3, <1>5, <1>8 DEF Inserted
<1>10. RowsStep
  BY <1>0, <1>8, <1>9 DEF RowsStep, LinkStep
<1>11. TypeOK' /\ req'[r] = c /\ \A s \in Requests \ {r} : req'[s] = req[s]
  BY <1>0, <1>5, <1>6, <1>7, BecomeIs DEF TypeOK, Become
<1>12. CallShape(r)'
  BY <1>0, <1>5, <1>6, <1>8, <1>11, NoneIsNoLink DEF CallShape, Exists
<1> QED BY <1>0, <1>10, <1>11, <1>12, StepOfOne

-----------------------------------------------------------------------------
(* resend() and what both calls end with.                                   *)

\* A row that is replaced by one with the same copies, revoked if it was, and
\* with the same expiry unless the token is new.
LEMMA OneRow ==
    ASSUME TypeOK, NEW l \in Links, Exists(l), NEW row \in Invitation,
           link' = [link EXCEPT ![l] = row],
           link[l].revoked => row.revoked,
           \A t \in Tests : row.attempts[t] # None =>
               /\ link[l].attempts[t] # None
               /\ row.attempts[t].snapshot = link[l].attempts[t].snapshot,
           \/ /\ row.token = link[l].token /\ row.expiresAt = link[l].expiresAt
              /\ tokens' = tokens
           \/ row.token = tokens + 1 /\ tokens' = tokens + 1
    PROVE  /\ RowsStep
           /\ link' \in [Links -> Invitation \cup {None}]
           /\ \A k \in Links : link'[k] # None <=> Exists(k)
<1>1. link \in [Links -> Invitation \cup {None}]
  BY DEF TypeOK
<1>2. link'[l] = row /\ \A k \in Links \ {l} : link'[k] = link[k]
  BY <1>1
<1>3. Written(l)
  BY <1>2 DEF Written
<1>4. RowsStep
  BY <1>2, <1>3 DEF RowsStep, LinkStep
<1>5. row # None
  BY NoneIsNoLink
<1> QED BY <1>1, <1>2, <1>4, <1>5 DEF Exists

\* A request's record after a statement that writes its link.
LEMMA WriterKeeps ==
    ASSUME LInv, NEW r \in Requests, RowsStep,
           link' \in [Links -> Invitation \cup {None}],
           NEW c \in Calls, Become(r, c), CallShape(r)',
           UNCHANGED <<now, content, mails, shown>>
    PROVE  LInv' /\ RowsStep
<1>1. TypeOK'
  BY DEF LInv, TypeOK, Become, RowsStep
<1>2. \A s \in Requests \ {r} : req'[s] = req[s]
  BY BecomeIs DEF LInv
<1> QED BY <1>1, <1>2, StepOfOne

LEMMA SweptRow ==
    ASSUME NEW row \in Invitation, NEW time
    PROVE  /\ Swept(row, time) \in Invitation
           /\ Swept(row, time).token = row.token
           /\ Swept(row, time).expiresAt = row.expiresAt
           /\ row.revoked => Swept(row, time).revoked
           /\ \A t \in Tests : Swept(row, time).attempts[t] # None =>
                 /\ row.attempts[t] # None
                 /\ Swept(row, time).attempts[t].snapshot = row.attempts[t].snapshot
<1> DEFINE swept == [t \in Tests |->
              IF row.attempts[t] # None /\ OverdueAt(row, t, time)
              THEN [row.attempts[t] EXCEPT !.status = "FINISHED"] ELSE row.attempts[t]]
<1>1. \A t \in Tests : /\ swept[t] \in Attempt \cup {None}
                       /\ swept[t] # None => /\ row.attempts[t] # None
                                             /\ swept[t].snapshot = row.attempts[t].snapshot
  BY DEF Invitation, Attempt
<1>2. swept \in [Tests -> Attempt \cup {None}]
  BY <1>1
<1>3. Swept(row, time) = [row EXCEPT !.attempts = swept]
  BY DEF Swept
<1> HIDE DEF swept
<1> QED BY <1>1, <1>2, <1>3 DEF Invitation

LEMMA SweepKeeps ==
    ASSUME LInv, NEW r \in Requests, Sweep(r)
    PROVE  LInv' /\ RowsStep
<1>0. /\ TypeOK /\ req[r] \in Calls /\ req[r].pc \in {"sweep", "lastsweep"}
      /\ UNCHANGED <<now, content, mails, shown, tokens>>
      /\ req[r].link \in Links /\ Exists(req[r].link)
      /\ link \in [Links -> Invitation \cup {None}]
      /\ req[r].pc = "lastsweep" => req[r].token \in Nat /\ req[r].token <= tokens
  BY CallTypes DEF LInv, TypeOK, CallShape, Sweep
<1> PICK l \in Links : l = req[r].link
  BY <1>0
<1>1. link[l] \in Invitation
  BY <1>0, RowTypes
<1>2. PICK time : link' = [link EXCEPT ![l] = Swept(link[l], time)]
  BY DEF Sweep
<1> DEFINE row == Swept(link[l], time)
<1>3. /\ link' = [link EXCEPT ![l] = row] /\ row \in Invitation
      /\ row.token = link[l].token /\ row.expiresAt = link[l].expiresAt
      /\ link[l].revoked => row.revoked
      /\ \A t \in Tests : row.attempts[t] # None =>
            /\ link[l].attempts[t] # None
            /\ row.attempts[t].snapshot = link[l].attempts[t].snapshot
  BY <1>1, <1>2, SweptRow
<1> HIDE DEF row
<1>4. /\ RowsStep /\ link' \in [Links -> Invitation \cup {None}]
      /\ \A k \in Links : link'[k] # None <=> Exists(k)
  BY <1>0, <1>3, OneRow
<1> DEFINE p == IF req[r].pc = "sweep" THEN "find" ELSE "detail"
           c == Goto(r, p)
<1>5. /\ c \in Calls /\ c.pc = p /\ c.link = l /\ c.token = req[r].token
  BY <1>0, GotoCall
<1>6. Become(r, c)
  BY DEF Sweep
<1> HIDE DEF c
<1>7. CallShape(r)'
  BY <1>0, <1>4, <1>5, <1>6, BecomeIs DEF CallShape, Exists
<1> QED BY <1>0, <1>4, <1>5, <1>6, <1>7, WriterKeeps

LEMMA FindKeeps ==
    ASSUME LInv, NEW r \in Requests, Find(r)
    PROVE  LInv' /\ RowsStep
<1>0. /\ TypeOK /\ req[r] \in Calls /\ req[r].pc = "find"
      /\ UNCHANGED <<now, content, link, mails, shown, tokens>>
      /\ req[r].link \in Links /\ Exists(req[r].link)
  BY CallTypes DEF LInv, CallShape, Find
<1>1. \/ Return(r)
      \/ Become(r, [Goto(r, "update") EXCEPT !.row = link[req[r].link]])
  BY DEF Find
<1>2. CASE Return(r)
  BY <1>0, <1>2, ReturnKeeps
<1>3. CASE Become(r, [Goto(r, "update") EXCEPT !.row = link[req[r].link]])
  <2> PICK row \in Invitation : row = link[req[r].link]
    BY <1>0, RowTypes
  <2> PICK g \in Calls : g = Goto(r, "update")
    BY <1>0, GotoCall
  <2> DEFINE c == [g EXCEPT !.row = row]
  <2>1. g.pc = "update" /\ g.link = req[r].link
    BY <1>0, GotoCall
  <2>2. c \in Calls /\ c.pc = "update" /\ c.link = req[r].link /\ c.row = row
    BY <2>1 DEF Calls
  <2>3. Become(r, c)
    BY <1>3
  <2> HIDE DEF c
  <2>4. CallShape(r)'
    BY <1>0, <2>2, <2>3, BecomeIs DEF CallShape, Exists
  <2> QED BY <1>0, <2>2, <2>3, <2>4, ReadOnlyKeeps
<1> QED BY <1>1, <1>2, <1>3

\* The new expiry lies ahead of the statement that found the link.
LEMMA NewExpiryAhead ==
    ASSUME TypeOK, NEW r \in Requests, req[r].row \in Invitation,
           NEW time \in req[r].since .. now
    PROVE  NewExpiry(r, time) \in Nat /\ NewExpiry(r, time) > req[r].since
<1>1. /\ req[r].since \in Nat /\ req[r].life \in Lives \cup {None} /\ now \in Nat
      /\ req[r].row.expiresAt \in Nat
  BY DEF TypeOK, Calls, Invitation
<1>2. time \in Nat /\ time >= req[r].since
  BY <1>1
<1>3. CASE req[r].life # None
  <2>1. req[r].life \in Nat /\ req[r].life > 0
    <3>1. req[r].life \in Nat \ {0}
      BY <1>1, <1>3, LinksAssumption
    <3> QED BY <3>1
  <2>2. NewExpiry(r, time) = time + req[r].life
    BY <1>3 DEF NewExpiry
  <2> QED BY <1>1, <1>2, <2>1, <2>2
<1>4. CASE req[r].life = None /\ req[r].row.expiresAt > time
  <2>1. NewExpiry(r, time) = req[r].row.expiresAt
    BY <1>4 DEF NewExpiry
  <2> QED BY <1>1, <1>2, <1>4, <2>1
<1>5. CASE req[r].life = None /\ ~(req[r].row.expiresAt > time)
  <2>1. NewExpiry(r, time) = time + DefaultLife
    BY <1>5 DEF NewExpiry
  <2>2. DefaultLife \in Nat /\ DefaultLife > 0
    BY LinksAssumption
  <2> QED BY <1>1, <1>2, <2>1, <2>2
<1> QED BY <1>3, <1>4, <1>5

LEMMA UpdateKeeps ==
    ASSUME LInv, NEW r \in Requests, Update(r)
    PROVE  LInv' /\ RowsStep
<1>0. /\ TypeOK /\ req[r] \in Calls /\ req[r].pc = "update"
      /\ UNCHANGED <<now, content, mails, shown>>
      /\ req[r].link \in Links /\ Exists(req[r].link) /\ req[r].row \in Invitation
      /\ tokens' = tokens + 1 /\ tokens \in Nat
  BY CallTypes DEF LInv, TypeOK, CallShape, Update
<1> PICK l \in Links : l = req[r].link
  BY <1>0
<1>1. link[l] \in Invitation
  BY <1>0, RowTypes
<1>2. PICK time \in req[r].since .. now :
          link' = [link EXCEPT ![l] = Renewed(r, link[l], time)]
  BY DEF Update
<1> DEFINE row == Renewed(r, link[l], time)
<1>3. NewExpiry(r, time) \in Nat /\ tokens + 1 \in Nat
  BY <1>0, NewExpiryAhead
<1>4. /\ row \in Invitation /\ row.token = tokens + 1
      /\ link[l].revoked => row.revoked
      /\ row.attempts = link[l].attempts
  BY <1>1, <1>3 DEF Renewed, Invitation
<1>5. link' = [link EXCEPT ![l] = row]
  BY <1>2
<1> HIDE DEF row
<1>6. /\ RowsStep /\ link' \in [Links -> Invitation \cup {None}]
      /\ \A k \in Links : link'[k] # None <=> Exists(k)
  BY <1>0, <1>4, <1>5, OneRow
<1> PICK g \in Calls : g = Goto(r, "compose")
  BY <1>0, GotoCall
<1> DEFINE c == [g EXCEPT !.token = tokens + 1, !.row = None, !.life = None]
<1>7. g.pc = "compose" /\ g.link = l
  BY <1>0, GotoCall
<1>8. /\ c \in Calls /\ c.pc = "compose" /\ c.link = l /\ c.token = tokens + 1
  BY <1>3, <1>7 DEF Calls
<1>9. Become(r, c)
  BY DEF Update
<1> HIDE DEF c
<1>10. CallShape(r)'
  BY <1>0, <1>3, <1>6, <1>8, <1>9, BecomeIs DEF CallShape, Exists
<1> QED BY <1>0, <1>6, <1>8, <1>9, <1>10, WriterKeeps

LEMMA ComposeKeeps ==
    ASSUME LInv, NEW r \in Requests, Compose(r)
    PROVE  LInv' /\ RowsStep
<1>0. /\ TypeOK /\ req[r] \in Calls /\ req[r].pc = "compose"
      /\ UNCHANGED <<now, content, link, mails, shown, tokens>>
      /\ req[r].link \in Links /\ Exists(req[r].link)
      /\ req[r].token \in Nat /\ req[r].token <= tokens
  BY CallTypes DEF LInv, CallShape, Compose
<1> DEFINE m == [link      |-> req[r].link,
                 token     |-> req[r].token,
                 expiresAt |-> link[req[r].link].expiresAt]
<1>1. link[req[r].link] \in Invitation
  BY <1>0, RowTypes
<1>2. /\ m \in Mail /\ m.link = req[r].link /\ m.token = req[r].token
      /\ m.expiresAt = link[req[r].link].expiresAt
  BY <1>0, <1>1 DEF Mail, Invitation
<1> PICK g \in Calls : g = Goto(r, "mail")
  BY <1>0, GotoCall
<1>3. g.pc = "mail" /\ g.link = req[r].link /\ g.token = req[r].token
  BY <1>0, GotoCall
<1>4. Become(r, [g EXCEPT !.mail = m])
  BY DEF Compose
<1> HIDE DEF m
<1> DEFINE c == [g EXCEPT !.mail = m]
<1>5. /\ c \in Calls /\ c.pc = "mail" /\ c.link = req[r].link
      /\ c.token = req[r].token /\ c.mail = m
  BY <1>2, <1>3 DEF Calls
<1> HIDE DEF c
<1>6. req'[r] = c
  BY <1>0, <1>4, BecomeIs DEF c
<1>7. CallShape(r)'
  BY <1>0, <1>2, <1>5, <1>6 DEF CallShape, MailTrue, Exists
<1> QED BY <1>0, <1>4, <1>5, <1>7, ReadOnlyKeeps DEF c

LEMMA SendKeeps ==
    ASSUME LInv, NEW r \in Requests, Send(r)
    PROVE  LInv' /\ RowsStep
<1>0. /\ TypeOK /\ req[r] \in Calls /\ req[r].pc = "mail"
      /\ UNCHANGED <<now, content, link, shown, tokens>>
      /\ req[r].link \in Links /\ Exists(req[r].link)
      /\ req[r].token \in Nat /\ req[r].token <= tokens
      /\ req[r].mail \in Mail /\ MailTrue(req[r].mail)
  BY CallTypes DEF LInv, CallShape, Send
<1>1. RowsStep
  BY <1>0 DEF RowsStep, LinkStep
<1>2. PICK p \in {"stamp", "lastsweep"} : Become(r, [Goto(r, p) EXCEPT !.mail = None])
  BY DEF Send
<1>3. mails' \subseteq mails \cup {req[r].mail}
  BY DEF Send
<1> PICK g \in Calls : g = Goto(r, p)
  BY <1>0, GotoCall
<1> DEFINE c == [g EXCEPT !.mail = None]
<1>10. g.pc = p /\ g.link = req[r].link /\ g.token = req[r].token
  BY <1>0, GotoCall
<1>4. /\ c \in Calls /\ c.pc = p /\ c.link = req[r].link /\ c.token = req[r].token
  BY <1>10 DEF Calls
<1>5. /\ req' = [req EXCEPT ![r] = c] /\ req'[r] = c
      /\ \A s \in Requests \ {r} : req'[s] = req[s]
  BY <1>0, <1>2, BecomeIs DEF Become
<1> HIDE DEF c
<1>6. TypeOK'
  BY <1>0, <1>3, <1>4, <1>5 DEF TypeOK
<1>7. CallShape(r)'
  BY <1>0, <1>4, <1>5 DEF CallShape, Exists
<1>8. MailStays(req[r].mail)
  BY <1>0, <1>1, MailKeeps
<1> QED BY <1>1, <1>3, <1>5, <1>6, <1>7, <1>8, StepOfOne

LEMMA StampKeeps ==
    ASSUME LInv, NEW r \in Requests, Stamp(r)
    PROVE  LInv' /\ RowsStep
<1>0. /\ TypeOK /\ req[r] \in Calls /\ req[r].pc = "stamp"
      /\ UNCHANGED <<now, content, mails, shown, tokens>>
      /\ req[r].link \in Links /\ Exists(req[r].link)
      /\ req[r].token \in Nat /\ req[r].token <= tokens
      /\ link \in [Links -> Invitation \cup {None}]
  BY CallTypes DEF LInv, TypeOK, CallShape, Stamp
<1> PICK l \in Links : l = req[r].link
  BY <1>0
<1> DEFINE row == [link[l] EXCEPT !.sent = TRUE]
<1>1. link[l] \in Invitation
  BY <1>0, RowTypes
<1>2. /\ row \in Invitation /\ row.token = link[l].token
      /\ row.expiresAt = link[l].expiresAt /\ row.attempts = link[l].attempts
      /\ link[l].revoked => row.revoked
  BY <1>1 DEF Invitation
<1>3. link' = [link EXCEPT ![l] = row]
  BY <1>0 DEF Stamp
<1> HIDE DEF row
<1>4. /\ RowsStep /\ link' \in [Links -> Invitation \cup {None}]
      /\ \A k \in Links : link'[k] # None <=> Exists(k)
  BY <1>0, <1>2, <1>3, OneRow
<1> DEFINE c == Goto(r, "lastsweep")
<1>5. /\ c \in Calls /\ c.pc = "lastsweep" /\ c.link = l /\ c.token = req[r].token
  BY <1>0, GotoCall
<1>6. Become(r, c)
  BY DEF Stamp
<1> HIDE DEF c
<1>7. CallShape(r)'
  BY <1>0, <1>4, <1>5, <1>6, BecomeIs DEF CallShape, Exists
<1> QED BY <1>0, <1>4, <1>5, <1>6, <1>7, WriterKeeps

LEMMA DetailKeeps ==
    ASSUME LInv, NEW r \in Requests, Detail(r)
    PROVE  LInv' /\ RowsStep
<1>0. /\ TypeOK /\ UNCHANGED <<now, content, link, mails, tokens>>
      /\ req[r].token \in Nat /\ shown' = shown \cup {req[r].token}
      /\ Become(r, Idle)
  BY DEF LInv, CallShape, Detail, Show, Return
<1>1. RowsStep
  BY <1>0 DEF RowsStep, LinkStep
<1>2. TypeOK' /\ req'[r] = Idle /\ \A s \in Requests \ {r} : req'[s] = req[s]
  BY <1>0, IdleCall, BecomeIs DEF TypeOK, Become
<1>3. CallShape(r)'
  BY <1>2 DEF CallShape, Idle
<1> QED BY <1>0, <1>1, <1>2, <1>3, StepOfOne

-----------------------------------------------------------------------------
(* Everybody else.                                                          *)

LEMMA RevokeKeeps ==
    ASSUME LInv, NEW l \in Links, Revoke(l)
    PROVE  LInv' /\ RowsStep
<1>0. /\ TypeOK /\ UNCHANGED <<now, content, mails, shown, tokens, req>>
      /\ Exists(l) /\ link \in [Links -> Invitation \cup {None}]
  BY DEF LInv, TypeOK, Revoke
<1> DEFINE row == [link[l] EXCEPT !.revoked = TRUE]
<1>1. link[l] \in Invitation
  BY <1>0, RowTypes
<1>2. /\ row \in Invitation /\ row.token = link[l].token
      /\ row.expiresAt = link[l].expiresAt /\ row.attempts = link[l].attempts
      /\ row.revoked
  BY <1>1 DEF Invitation
<1>3. link' = [link EXCEPT ![l] = row]
  BY <1>0 DEF Revoke
<1> HIDE DEF row
<1>4. RowsStep /\ link' \in [Links -> Invitation \cup {None}]
  BY <1>0, <1>2, <1>3, OneRow
<1>5. TypeOK'
  BY <1>0, <1>4 DEF TypeOK
<1> QED BY <1>0, <1>4, <1>5, StepOfNone

\* A test's attempt is replaced by one with the same copy.
LEMMA AttemptKeeps ==
    ASSUME LInv, NEW l \in Links, NEW t \in Tests, Exists(l), link[l].attempts[t] # None,
           NEW att \in Attempt, att.snapshot = link[l].attempts[t].snapshot,
           link' = [link EXCEPT ![l] = [link[l] EXCEPT !.attempts =
                                          [link[l].attempts EXCEPT ![t] = att]]],
           UNCHANGED <<now, content, mails, shown, tokens, req>>
    PROVE  LInv' /\ RowsStep
<1> DEFINE after == [link[l].attempts EXCEPT ![t] = att]
           row == [link[l] EXCEPT !.attempts = after]
<1>0. TypeOK /\ link[l] \in Invitation
  BY RowTypes DEF LInv
<1>1. link[l].attempts \in [Tests -> Attempt \cup {None}]
  BY <1>0 DEF Invitation
<1>2. after \in [Tests -> Attempt \cup {None}]
  BY <1>1
<1>3. \A s \in Tests : after[s] # None =>
          /\ link[l].attempts[s] # None
          /\ after[s].snapshot = link[l].attempts[s].snapshot
  BY <1>1
<1> HIDE DEF after
<1>4. /\ row \in Invitation /\ row.token = link[l].token
      /\ row.expiresAt = link[l].expiresAt /\ row.attempts = after
      /\ link[l].revoked => row.revoked
  BY <1>0, <1>2 DEF Invitation
<1>5. link' = [link EXCEPT ![l] = row]
  BY DEF after
<1> HIDE DEF row
<1>6. RowsStep /\ link' \in [Links -> Invitation \cup {None}]
  BY <1>0, <1>3, <1>4, <1>5, OneRow
<1>7. TypeOK'
  BY <1>0, <1>6 DEF TypeOK
<1> QED BY <1>6, <1>7, StepOfNone

LEMMA TestKeeps ==
    ASSUME LInv, NEW l \in Links, NEW t \in Tests, StartTest(l, t) \/ FinishTest(l, t)
    PROVE  LInv' /\ RowsStep
<1>0. /\ TypeOK /\ Exists(l) /\ link[l].attempts[t] # None /\ now \in Nat
      /\ UNCHANGED <<now, content, mails, shown, tokens, req>>
  BY DEF LInv, TypeOK, StartTest, FinishTest, TestsOf
<1>1. link[l] \in Invitation /\ link[l].attempts[t] \in Attempt
  BY <1>0, RowTypes DEF Invitation
<1>2. CASE StartTest(l, t)
  <2> DEFINE att == [link[l].attempts[t] EXCEPT !.status = "IN_PROGRESS",
                                                !.deadlineAt = now + Duration]
  <2>1. now + Duration \in Nat
    <3>1. Duration \in Nat
      BY LinksAssumption
    <3> QED BY <1>0, <3>1
  <2>2. att \in Attempt /\ att.snapshot = link[l].attempts[t].snapshot
    <3> PICK end \in Nat \cup {None} : end = now + Duration
      BY <2>1
    <3> PICK was \in Attempt : was = link[l].attempts[t]
      BY <1>1
    <3>1. att = [was EXCEPT !.status = "IN_PROGRESS", !.deadlineAt = end]
      OBVIOUS
    <3> HIDE DEF att
    <3> QED BY <3>1 DEF Attempt
  <2>3. link' = [link EXCEPT ![l] = [link[l] EXCEPT !.attempts =
                                       [link[l].attempts EXCEPT ![t] = att]]]
    BY <1>2, Zenon DEF StartTest
  <2> HIDE DEF att
  <2> QED BY <1>0, <2>2, <2>3, AttemptKeeps
<1>3. CASE FinishTest(l, t)
  <2> DEFINE att == [link[l].attempts[t] EXCEPT !.status = "FINISHED"]
  <2>2. att \in Attempt /\ att.snapshot = link[l].attempts[t].snapshot
    BY <1>1 DEF Attempt
  <2>3. link' = [link EXCEPT ![l] = [link[l] EXCEPT !.attempts =
                                       [link[l].attempts EXCEPT ![t] = att]]]
    BY <1>3, Zenon DEF FinishTest
  <2> HIDE DEF att
  <2> QED BY <1>0, <2>2, <2>3, AttemptKeeps
<1> QED BY <1>2, <1>3

LEMMA NoRowKeeps ==
    ASSUME LInv, TypeOK', UNCHANGED <<link, mails, tokens, req>>
    PROVE  LInv' /\ RowsStep
<1>1. RowsStep
  BY DEF RowsStep, LinkStep
<1> QED BY <1>1, StepOfNone

LEMMA OthersInv ==
    ASSUME LInv, Others
    PROVE  LInv' /\ RowsStep
<1>1. CASE Tick \/ \E t \in Tests : Edit(t)
  <2>1. CASE Tick
    BY <2>1, NoRowKeeps DEF LInv, TypeOK, Tick
  <2>2. ASSUME NEW t \in Tests, Edit(t) PROVE LInv' /\ RowsStep
    BY <2>2, NoRowKeeps DEF LInv, TypeOK, Edit
  <2> QED BY <1>1, <2>1, <2>2
<1> QED BY <1>1, RevokeKeeps, TestKeeps DEF Others

-----------------------------------------------------------------------------
(* The invariant.                                                           *)

LEMMA InitInv == Init => LInv
<1> SUFFICES ASSUME Init PROVE LInv
  OBVIOUS
<1>1. TypeOK
  BY IdleCall, LinksAssumption DEF Init, TypeOK
<1>2. \A r \in Requests : CallShape(r)
  BY DEF Init, CallShape, Idle
<1> QED BY <1>1, <1>2 DEF LInv, Init, LinkShape, Exists

\* Every step keeps the invariant and moves rows and tokens by the rules.
LEMMA StepKeeps ==
    ASSUME LInv, [Next]_vars
    PROVE  LInv' /\ RowsStep
<1>1. CASE Others
  BY <1>1, OthersInv
<1>2. CASE \E r \in Requests : Call(r)
  BY <1>2, CallKeeps
<1>3. CASE \E r \in Requests : Handle(r)
  BY <1>3, ReadContentKeeps, CheckOpenKeeps, InsertKeeps, SweepKeeps, FindKeeps,
     UpdateKeeps, ComposeKeeps, SendKeeps, StampKeeps, DetailKeeps DEF Handle
<1>4. CASE \E r \in Requests : Drop(r)
  BY <1>4, ReturnKeeps DEF Drop
<1>5. CASE UNCHANGED vars
  BY <1>5, NoRowKeeps DEF vars, LInv, TypeOK
<1> QED BY <1>1, <1>2, <1>3, <1>4, <1>5 DEF Next, NextUp

\* What create() and resend() rely on at each of their awaits always holds.
THEOREM Invariance == Spec => []LInv
<1>1. LInv /\ [Next]_vars => LInv'
  BY StepKeeps
<1> QED BY <1>1, InitInv, PTL DEF Spec

\* Links, emails and calls in flight are well formed.
THEOREM TypeCorrect == Spec => []TypeOK
<1>1. LInv => TypeOK
  BY DEF LInv
<1> QED BY <1>1, Invariance, PTL

\* An email whose link works gives the link's expiry (sendEmail()).
THEOREM MailTruthful == Spec => []MailTellsExpiry
<1>1. LInv => MailTellsExpiry
  BY DEF LInv, MailTrue, MailTellsExpiry
<1> QED BY <1>1, Invariance, PTL

\* Every frozen copy was sendable when it was made (create()).
THEOREM OnlySendable == Spec => []SnapshotsSendable
<1>1. LInv => SnapshotsSendable
  BY DEF LInv, LinkShape, SnapshotsSendable
<1> QED BY <1>1, Invariance, PTL

-----------------------------------------------------------------------------
(* What no step does.                                                       *)

\* A link once revoked stays so, also under a resend that read it before
\* (revoke(), resend()).
THEOREM RevokedForGood == Spec => RevokeSticks
<1>1. ASSUME LInv, [Next]_vars, NEW l \in Links, Exists(l), link[l].revoked
      PROVE  link'[l].revoked
  BY <1>1, StepKeeps DEF RowsStep, LinkStep, Inserted, Written
<1>2. LInv /\ [Next]_vars =>
        [\A l \in Links : Exists(l) /\ link[l].revoked => link'[l].revoked]_vars
  BY <1>1
<1> QED BY <1>2, Invariance, PTL DEF Spec, RevokeSticks

\* Only resend()'s own update takes its call from the update to the email.
LEMMA UpdateMoves ==
    ASSUME LInv, [Next]_vars, NEW r \in Requests,
           req[r].pc = "update", req'[r].pc = "compose"
    PROVE  Update(r)
<1>0. TypeOK /\ req'[r] # req[r] /\ req[r] \in Calls
  BY CallTypes DEF LInv
<1>1. CASE Others \/ UNCHANGED vars
  BY <1>0, <1>1 DEF Others, Revoke, StartTest, FinishTest, Edit, Tick, vars
<1>2. ASSUME NEW s \in Requests, Call(s) \/ Handle(s) \/ Drop(s)
      PROVE  Update(r)
  <2>1. PICK c : Become(s, c)
    BY <1>2, Zenon DEF Call, CallCreate, CallResend, Handle, ReadContent, CheckOpen, Insert,
       Sweep, Find, Update, Compose, Send, Stamp, Detail, Drop, Return
  <2>2. s = r
    BY <1>0, <2>1, BecomeIs
  <2>3. CASE Drop(r)
    <3>1. req'[r] = Idle
      BY <1>0, <2>3, BecomeIs DEF Drop, Return
    <3> QED BY <3>1 DEF Idle
  <2>4. CASE Call(r)
    BY <2>4 DEF Call, CallCreate, CallResend
  <2>5. CASE Handle(r)
    BY <2>5 DEF Handle, ReadContent, CheckOpen, Insert, Sweep, Find, Compose, Send,
                Stamp, Detail
  <2> QED BY <1>2, <2>2, <2>3, <2>4, <2>5
<1> QED BY <1>1, <1>2 DEF Next, NextUp

\* A link that is sent again lasts beyond the moment resend() found it.
THEOREM ResentReopens == Spec => ResendReopens
<1>1. ASSUME LInv, [Next]_vars, NEW r \in Requests,
             req[r].pc = "update", req'[r].pc = "compose"
      PROVE  link'[req[r].link].expiresAt > req[r].since
  <2>0. Update(r) /\ TypeOK
    BY <1>1, UpdateMoves DEF LInv
  <2>1. /\ req[r].link \in Links /\ Exists(req[r].link) /\ req[r].row \in Invitation
        /\ link \in [Links -> Invitation \cup {None}]
    BY <1>1 DEF LInv, CallShape, TypeOK
  <2> PICK l \in Links : l = req[r].link
    BY <2>1
  <2>2. link[l] \in Invitation
    BY <2>0, <2>1, RowTypes
  <2>3. PICK time \in req[r].since .. now :
            link' = [link EXCEPT ![l] = Renewed(r, link[l], time)]
    BY <2>0 DEF Update
  <2>4. link'[l] = Renewed(r, link[l], time)
    BY <2>1, <2>3
  <2>5. link'[l].expiresAt = NewExpiry(r, time)
    BY <2>2, <2>4 DEF Renewed, Invitation
  <2> QED BY <2>0, <2>1, <2>5, NewExpiryAhead
<1>2. LInv /\ [Next]_vars =>
        [\A r \in Requests : req[r].pc = "update" /\ req'[r].pc = "compose" =>
            link'[req[r].link].expiresAt > req[r].since]_vars
  BY <1>1
<1> QED BY <1>2, Invariance, PTL DEF Spec, ResendReopens

-----------------------------------------------------------------------------
(* What staff read, and what they send twice.                               *)

\* A link that staff see as EXPIRED lets nobody in (invitationStatus() and the
\* token guard, which judge by different conditions).
THEOREM ShutWhenExpired == Spec => []ExpiredIsShut
<1>1. LInv => ExpiredIsShut
  <2> SUFFICES ASSUME LInv, NEW l \in Links, Exists(l),
                      invitationStatus(link[l]) = "EXPIRED"
               PROVE  ~GuardAllows(link[l])
    BY DEF ExpiredIsShut
  <2>1. link[l].expiresAt <= now /\ Running(link[l]) = {}
    BY DEF invitationStatus
  <2>2. link[l].expiresAt \in Nat /\ now \in Nat
    BY RowTypes DEF LInv, TypeOK, Invitation
  <2> QED BY <2>1, <2>2 DEF GuardAllows
<1> QED BY <1>1, Invariance, PTL

\* A row that only gets older: no later expiry, no test unfinished again.
Ages(l) ==
    \/ link'[l] = link[l]
    \/ /\ Exists(l)
       /\ link'[l].expiresAt = link[l].expiresAt
       /\ link[l].revoked => link'[l].revoked
       /\ Unfinished(link'[l]) \subseteq Unfinished(link[l])

\* create() found no open link for its tests, and none has come since.
FoundNone == \A r \in Requests : req[r].pc = "insert" => InUse(req[r].tests, now) = {}

\* Whoever isn't a staff request leaves every row to age.
LEMMA OthersAge ==
    ASSUME TypeOK, Others
    PROVE  /\ \A l \in Links : Ages(l)
           /\ now' >= now /\ req' = req
<1>0. now \in Nat /\ link \in [Links -> Invitation \cup {None}]
  BY DEF TypeOK
<1>1. ASSUME NEW l \in Links, Revoke(l) PROVE \A k \in Links : Ages(k)
  <2> DEFINE row == [link[l] EXCEPT !.revoked = TRUE]
  <2>1. Exists(l) /\ link[l] \in Invitation
    BY <1>1, RowTypes DEF Revoke
  <2>2. row.attempts = link[l].attempts /\ row.expiresAt = link[l].expiresAt /\ row.revoked
    BY <2>1 DEF Invitation
  <2>3. link' = [link EXCEPT ![l] = row]
    BY <1>1 DEF Revoke
  <2> HIDE DEF row
  <2>4. Unfinished(row) = Unfinished(link[l])
    BY <2>2 DEF Unfinished, TestsOf
  <2> QED BY <1>0, <2>1, <2>2, <2>3, <2>4 DEF Ages
<1>2. ASSUME NEW l \in Links, NEW t \in Tests, StartTest(l, t) \/ FinishTest(l, t)
      PROVE  \A k \in Links : Ages(k)
  <2>1. Exists(l) /\ link[l] \in Invitation /\ link[l].attempts[t] # None
    BY <1>2, RowTypes DEF StartTest, FinishTest, TestsOf
  <2>2. PICK att : link' = [link EXCEPT ![l] = [link[l] EXCEPT !.attempts =
                                                  [link[l].attempts EXCEPT ![t] = att]]]
    BY <1>2, Zenon DEF StartTest, FinishTest
  <2> DEFINE row == [link[l] EXCEPT !.attempts = [link[l].attempts EXCEPT ![t] = att]]
  <2>3. /\ row.attempts = [link[l].attempts EXCEPT ![t] = att]
        /\ row.expiresAt = link[l].expiresAt /\ row.revoked = link[l].revoked
        /\ link[l].attempts \in [Tests -> Attempt \cup {None}]
    BY <2>1 DEF Invitation
  <2>4. link'[l] = row /\ \A k \in Links \ {l} : link'[k] = link[k]
    BY <1>0, <2>2
  <2>5. link[l].attempts[t].status # "FINISHED"
    BY <1>2 DEF StartTest, FinishTest
  <2> HIDE DEF row
  <2>6. Unfinished(row) \subseteq Unfinished(link[l])
    BY <2>1, <2>3, <2>5 DEF Unfinished, TestsOf
  <2> QED BY <2>1, <2>3, <2>4, <2>6 DEF Ages
<1>3. CASE Tick \/ \E t \in Tests : Edit(t)
  BY <1>0, <1>3 DEF Tick, Edit, Ages
<1>4. now' >= now /\ req' = req
  <2>1. now' \in {now, now + 1} /\ req' = req
    BY DEF Others, Revoke, StartTest, FinishTest, Edit, Tick
  <2> QED BY <1>0, <2>1
<1> QED BY <1>1, <1>2, <1>3, <1>4 DEF Others

\* A row that has aged doesn't come into use.
LEMMA StaysUnused ==
    ASSUME TypeOK, NEW ts \in SUBSET Tests, NEW time \in Nat, NEW later \in Nat, later >= time,
           \A l \in Links : Ages(l), InUse(ts, time) = {}
    PROVE  \A l \in Links, t \in ts :
              ~(link'[l] # None /\ ~link'[l].revoked /\ link'[l].expiresAt > later
                /\ t \in Unfinished(link'[l]))
<1> SUFFICES ASSUME NEW l \in Links, NEW t \in ts, link'[l] # None, ~link'[l].revoked,
                    link'[l].expiresAt > later, t \in Unfinished(link'[l])
             PROVE  FALSE
  OBVIOUS
<1>1. Exists(l) /\ ~link[l].revoked /\ link[l].expiresAt > later /\ t \in Unfinished(link[l])
  BY DEF Ages, Exists
<1>2. link[l].expiresAt \in Nat
  BY <1>1, RowTypes DEF Invitation
<1>3. Open(link[l], time)
  BY <1>1, <1>2 DEF Open
<1>4. <<l, t>> \in InUse(ts, time)
  BY <1>1, <1>3 DEF InUse
<1> QED BY <1>4

\* The step of the one request there is.
LEMMA HandlerFinds ==
    ASSUME LInv, FoundNone, \A r, s \in Requests : r = s,
           NEW s \in Requests, Call(s) \/ Handle(s) \/ Drop(s)
    PROVE  FoundNone'
<1>1. PICK c : Become(s, c)
  BY Zenon DEF Call, CallCreate, CallResend, Handle, ReadContent, CheckOpen, Insert,
     Sweep, Find, Update, Compose, Send, Stamp, Detail, Drop, Return
<1>2. TypeOK /\ req[s] \in Calls
  BY CallTypes DEF LInv
<1>3. CASE CheckOpen(s)
  <2>1. now \in Nat /\ req[s].since \in Nat /\ req[s].tests \in SUBSET Tests
    BY <1>2 DEF TypeOK, Calls
  <2>2. PICK time \in req[s].since .. now :
           IF InUse(req[s].tests, time) # {} THEN Return(s) ELSE Become(s, Goto(s, "insert"))
    BY <1>3 DEF CheckOpen
  <2>3. UNCHANGED <<now, link>>
    BY <1>3 DEF CheckOpen
  <2>4. CASE InUse(req[s].tests, time) # {}
    <3>1. req'[s] = Idle
      BY <1>2, <2>2, <2>4, BecomeIs DEF Return
    <3> QED BY <3>1 DEF FoundNone, Idle
  <2>5. CASE InUse(req[s].tests, time) = {}
    <3>1. req'[s].tests = req[s].tests
      BY <1>2, <2>2, <2>5, BecomeIs, GotoCall
    <3>2. InUse(req[s].tests, now) = {}
      <4> SUFFICES ASSUME NEW use \in InUse(req[s].tests, now) PROVE FALSE
        OBVIOUS
      <4>1. PICK l \in Links, t \in req[s].tests : use = <<l, t>>
        BY DEF InUse
      <4>2. Exists(l) /\ Open(link[l], now) /\ t \in Unfinished(link[l])
        BY <4>1 DEF InUse
      <4>3. link[l].expiresAt \in Nat
        BY <1>2, <4>2, RowTypes DEF Invitation
      <4>4. Open(link[l], time)
        BY <2>1, <4>2, <4>3 DEF Open
      <4>5. <<l, t>> \in InUse(req[s].tests, time)
        BY <4>2, <4>4 DEF InUse
      <4> QED BY <2>5, <4>5
    <3>3. InUse(req'[s].tests, now') = {}
      BY <2>3, <3>1, <3>2 DEF InUse, Exists, Open, Unfinished, TestsOf
    <3>4. \A q \in Requests : q = s
      OBVIOUS
    <3> QED BY <2>3, <3>1, <3>2, <3>4 DEF FoundNone, InUse, Exists, Open, Unfinished, TestsOf
  <2> QED BY <2>4, <2>5
<1>4. CASE ~CheckOpen(s)
  <2>1. req'[s].pc # "insert"
    <3>1. CASE Return(s)
      <4>1. req'[s] = Idle
        BY <1>2, <3>1, BecomeIs DEF Return
      <4> QED BY <4>1 DEF Idle
    <3>2. CASE CallCreate(s)
      <4>1. PICK ts, life : Become(s, [Idle EXCEPT !.pc = "content", !.op = "create",
                                          !.tests = ts, !.life = life, !.since = now])
        BY <3>2 DEF CallCreate
      <4>2. req'[s] = [Idle EXCEPT !.pc = "content", !.op = "create",
                                   !.tests = ts, !.life = life, !.since = now]
        BY <1>2, <4>1, BecomeIs
      <4> QED BY <4>2 DEF Idle
    <3>3. CASE CallResend(s)
      <4>1. PICK l, life : Become(s, [Idle EXCEPT !.pc = "sweep", !.op = "resend",
                                         !.link = l, !.life = life, !.since = now])
        BY <3>3 DEF CallResend
      <4>2. req'[s] = [Idle EXCEPT !.pc = "sweep", !.op = "resend",
                                   !.link = l, !.life = life, !.since = now]
        BY <1>2, <4>1, BecomeIs
      <4> QED BY <4>2 DEF Idle
    <3>4. CASE Handle(s) /\ ~Return(s)
      <4>1. \A p \in {"content", "open", "find", "update", "compose", "mail", "stamp",
                      "lastsweep", "detail"} :
               Goto(s, p) \in Calls /\ Goto(s, p).pc = p
        BY <1>2, GotoCall
      <4>2. \A e \in Calls : \A u, v, w :
               /\ [e EXCEPT !.read = u].pc = e.pc /\ [e EXCEPT !.row = u].pc = e.pc
               /\ [e EXCEPT !.mail = u].pc = e.pc
               /\ [e EXCEPT !.link = u, !.token = v, !.life = w].pc = e.pc
               /\ [e EXCEPT !.token = u, !.row = v, !.life = w].pc = e.pc
        BY DEF Calls
      <4>3. CASE ReadContent(s)
        <5>1. PICK got : \/ Become(s, [Goto(s, "content") EXCEPT !.read = got])
                         \/ Become(s, [Goto(s, "open") EXCEPT !.read = got])
          BY <3>4, <4>3 DEF ReadContent
        <5>2. \/ req'[s] = [Goto(s, "content") EXCEPT !.read = got]
              \/ req'[s] = [Goto(s, "open") EXCEPT !.read = got]
          BY <1>2, <5>1, BecomeIs
        <5>3. [Goto(s, "content") EXCEPT !.read = got].pc = "content"
          BY <4>1, <4>2
        <5>4. [Goto(s, "open") EXCEPT !.read = got].pc = "open"
          BY <4>1, <4>2
        <5> QED BY <5>2, <5>3, <5>4
      <4>4. CASE Insert(s)
        <5>1. PICK l \in Links :
                 Become(s, [Goto(s, "compose") EXCEPT !.link = l, !.token = tokens + 1,
                                                      !.life = None])
          BY <4>4 DEF Insert
        <5>2. req'[s] = [Goto(s, "compose") EXCEPT !.link = l, !.token = tokens + 1,
                                                   !.life = None]
          BY <1>2, <5>1, BecomeIs
        <5> QED BY <4>1, <4>2, <5>2
      <4>5. CASE Sweep(s)
        <5>1. req'[s] = Goto(s, "find") \/ req'[s] = Goto(s, "detail")
          BY <1>2, <4>5, BecomeIs DEF Sweep
        <5> QED BY <4>1, <5>1
      <4>6. CASE Find(s)
        <5>1. req'[s] = [Goto(s, "update") EXCEPT !.row = link[req[s].link]]
          BY <1>2, <3>4, <4>6, BecomeIs DEF Find
        <5> QED BY <4>1, <4>2, <5>1
      <4>7. CASE Update(s)
        <5>1. req'[s] = [Goto(s, "compose") EXCEPT !.token = tokens + 1, !.row = None,
                                                   !.life = None]
          BY <1>2, <4>7, BecomeIs DEF Update
        <5> QED BY <4>1, <4>2, <5>1
      <4>8. CASE Compose(s)
        <5>1. PICK m : Become(s, [Goto(s, "mail") EXCEPT !.mail = m])
          BY <4>8 DEF Compose
        <5>2. req'[s] = [Goto(s, "mail") EXCEPT !.mail = m]
          BY <1>2, <5>1, BecomeIs
        <5> QED BY <4>1, <4>2, <5>2
      <4>9. CASE Send(s)
        <5>1. \/ req'[s] = [Goto(s, "stamp") EXCEPT !.mail = None]
              \/ req'[s] = [Goto(s, "lastsweep") EXCEPT !.mail = None]
          BY <1>2, <4>9, BecomeIs DEF Send
        <5>2. [Goto(s, "stamp") EXCEPT !.mail = None].pc = "stamp"
          BY <4>1, <4>2
        <5>3. [Goto(s, "lastsweep") EXCEPT !.mail = None].pc = "lastsweep"
          BY <4>1, <4>2
        <5> QED BY <5>1, <5>2, <5>3
      <4>10. CASE Stamp(s)
        <5>1. req'[s] = Goto(s, "lastsweep")
          BY <1>2, <4>10, BecomeIs DEF Stamp
        <5> QED BY <4>1, <5>1
      <4> QED BY <1>4, <3>4, <4>3, <4>4, <4>5, <4>6, <4>7, <4>8, <4>9, <4>10
              DEF Handle, Detail
    <3> QED BY <3>1, <3>2, <3>3, <3>4 DEF Call, Drop
  <2>2. \A q \in Requests : q = s
    OBVIOUS
  <2> QED BY <2>1, <2>2 DEF FoundNone
<1> QED BY <1>3, <1>4

LEMMA FoundNoneKeeps ==
    ASSUME LInv, FoundNone, \A r, s \in Requests : r = s, [Next]_vars
    PROVE  FoundNone'
<1>1. TypeOK /\ now \in Nat
  BY DEF LInv, TypeOK
<1>2. CASE Others
  <2> SUFFICES ASSUME NEW r \in Requests, req'[r].pc = "insert"
               PROVE  InUse(req[r].tests, now)' = {}
    BY DEF FoundNone
  <2>1. /\ \A l \in Links : Ages(l)
        /\ now' >= now /\ req' = req
    BY <1>1, <1>2, OthersAge
  <2>2. InUse(req[r].tests, now) = {} /\ req[r].tests \in SUBSET Tests
    BY <1>1, <2>1, CallTypes DEF FoundNone, Calls
  <2>3. now' \in Nat
    <3>1. now' \in {now, now + 1}
      BY <1>2 DEF Others, Revoke, StartTest, FinishTest, Edit, Tick
    <3> QED BY <1>1, <3>1
  <2>4. \A l \in Links, t \in req[r].tests :
           ~(link'[l] # None /\ ~link'[l].revoked /\ link'[l].expiresAt > now'
             /\ t \in Unfinished(link'[l]))
    BY <1>1, <2>1, <2>2, <2>3, StaysUnused
  <2>5. ASSUME NEW l \in Links, NEW t \in req[r].tests, Exists(l)', Open(link[l], now)',
               t \in Unfinished(link[l])'
        PROVE  FALSE
    <3>1. link'[l] # None /\ ~link'[l].revoked /\ link'[l].expiresAt > now'
      BY <2>5 DEF Exists, Open
    <3>2. t \in Unfinished(link'[l])
      BY <2>5
    <3> QED BY <2>4, <3>1, <3>2
  <2>6. ASSUME NEW use \in InUse(req[r].tests, now)' PROVE FALSE
    <3>1. PICK l \in Links, t \in req'[r].tests : use = <<l, t>>
      BY <2>6 DEF InUse
    <3>2. Exists(l)' /\ Open(link[l], now)' /\ t \in Unfinished(link[l])'
      BY <2>6, <3>1 DEF InUse
    <3> QED BY <2>1, <2>5, <3>1, <3>2
  <2> QED BY <2>6
<1>3. CASE \E s \in Requests : Call(s) \/ Handle(s) \/ Drop(s)
  BY <1>3, HandlerFinds
<1>4. CASE UNCHANGED vars
  BY <1>4 DEF vars, FoundNone, InUse, Exists, Open, Unfinished, TestsOf
<1> QED BY <1>2, <1>3, <1>4 DEF Next, NextUp

\* Only create()'s own insert makes a row.
LEMMA OnlyInsertMakes ==
    ASSUME LInv, [Next]_vars, NEW l \in Links, ~Exists(l), link'[l] # None
    PROVE  \E r \in Requests :
              /\ req[r].pc = "insert" /\ TestsOf(link'[l]) \subseteq req[r].tests
              /\ \A k \in Links \ {l} : link'[k] = link[k]
<1>1. TypeOK /\ link \in [Links -> Invitation \cup {None}]
  BY DEF LInv, TypeOK
<1>2. CASE Others \/ UNCHANGED vars
  <2>1. CASE Others
    <3>1. Ages(l)
      BY <1>1, <2>1, OthersAge
    <3> QED BY <3>1 DEF Ages, Exists
  <2>2. CASE UNCHANGED vars
    BY <2>2 DEF vars, Exists
  <2> QED BY <1>2, <2>1, <2>2
<1>3. ASSUME NEW r \in Requests, Sweep(r) \/ Update(r) \/ Stamp(r) PROVE FALSE
  <2>1. PICK row : link' = [link EXCEPT ![req[r].link] = row]
    BY <1>3, Zenon DEF Sweep, Update, Stamp
  <2>2. req[r].link \in Links /\ Exists(req[r].link)
    BY <1>3 DEF LInv, CallShape, Sweep, Update, Stamp
  <2> QED BY <1>1, <2>1, <2>2 DEF Exists
<1>4. ASSUME NEW r \in Requests, Insert(r)
      PROVE  /\ req[r].pc = "insert" /\ TestsOf(link'[l]) \subseteq req[r].tests
             /\ \A k \in Links \ {l} : link'[k] = link[k]
  <2>1. PICK k, row :
           /\ k \in Links
           /\ link' = [link EXCEPT ![k] = row]
           /\ row.attempts = [t \in Tests |->
                 IF t \notin req[r].tests THEN None
                 ELSE [status |-> "NOT_STARTED", deadlineAt |-> None,
                       snapshot |-> req[r].read[t]]]
    <3> DEFINE attempts == [t \in Tests |->
                  IF t \notin req[r].tests THEN None
                  ELSE [status |-> "NOT_STARTED", deadlineAt |-> None,
                        snapshot |-> req[r].read[t]]]
               rowAt(time) == [token     |-> tokens + 1,
                               expiresAt |-> FirstExpiry(req[r].life, time),
                               revoked   |-> FALSE,
                               sent      |-> FALSE,
                               attempts  |-> attempts]
    <3>1. PICK k \in {j \in Links : ~Exists(j)}, time \in req[r].since .. now :
             link' = [link EXCEPT ![k] = rowAt(time)]
      BY <1>4, Zenon DEF Insert
    <3>2. rowAt(time).attempts = attempts
      OBVIOUS
    <3> HIDE DEF rowAt, attempts
    <3>3. \E j, row : j \in Links /\ link' = [link EXCEPT ![j] = row] /\ row.attempts = attempts
      BY <3>1, <3>2
    <3> QED BY <3>3 DEF attempts
  <2>2. k = l /\ link'[l] = row
    BY <1>1, <2>1 DEF Exists
  <2>3. TestsOf(row) \subseteq req[r].tests
    BY <2>1 DEF TestsOf
  <2> QED BY <1>1, <1>4, <2>1, <2>2, <2>3 DEF Insert
<1>5. ASSUME NEW r \in Requests, Call(r) \/ ReadContent(r) \/ CheckOpen(r) \/ Find(r)
                                 \/ Compose(r) \/ Send(r) \/ Detail(r) \/ Drop(r)
      PROVE  FALSE
  BY <1>5 DEF Call, CallCreate, CallResend, ReadContent, CheckOpen, Find, Compose, Send,
              Detail, Drop, Exists
<1> QED BY <1>2, <1>3, <1>4, <1>5 DEF Next, NextUp, Handle

\* Staff requests that don't overlap never send a test again while an open link
\* holds it unfinished, whatever the candidate and the clock do between the
\* check and the insert (create(), openAttempts()).
THEOREM OneAtATimeSendsOnce ==
    ASSUME \A r, s \in Requests : r = s
    PROVE  Spec => SentOnce
<1>1. Init => FoundNone
  BY DEF Init, FoundNone, Idle
<1>2. LInv /\ FoundNone /\ [Next]_vars => FoundNone'
  BY FoundNoneKeeps
<1>3. LInv /\ FoundNone /\ [Next]_vars =>
         [\A l, k \in Links :
            ~Exists(l) /\ link'[l] # None /\ Exists(k) /\ Open(link[k], now) =>
                TestsOf(link'[l]) \cap Unfinished(link[k]) = {}]_vars
  <2> SUFFICES ASSUME LInv, FoundNone, [Next]_vars, NEW l \in Links, NEW k \in Links,
                      ~Exists(l), link'[l] # None, Exists(k), Open(link[k], now),
                      NEW t \in TestsOf(link'[l]), t \in Unfinished(link[k])
               PROVE  FALSE
    OBVIOUS
  <2>1. PICK r \in Requests : req[r].pc = "insert" /\ TestsOf(link'[l]) \subseteq req[r].tests
    BY OnlyInsertMakes
  <2>2. InUse(req[r].tests, now) = {} /\ t \in req[r].tests
    BY <2>1 DEF FoundNone
  <2>3. <<k, t>> \in InUse(req[r].tests, now)
    BY <2>2 DEF InUse
  <2> QED BY <2>2, <2>3
<1> QED BY <1>1, <1>2, <1>3, Invariance, PTL DEF Spec, SentOnce

=============================================================================
