-------------------------------- MODULE Auth --------------------------------
(***************************************************************************)
(* Staff accounts: AuthService, InvitationsService, AuthTokensService,     *)
(* SessionsService and the two global guards, over the tables users,       *)
(* sessions and auth_tokens.                                               *)
(*                                                                         *)
(* An action is one SQL statement with the JavaScript that runs before the *)
(* next await.  What a transaction has written shows when it commits; from *)
(* the statement to the commit it holds the rows, and a statement of       *)
(* another call that writes one of them waits (PostgreSQL's READ COMMITTED *)
(* takes a row lock per written row).                                      *)
(***************************************************************************)
EXTENDS Integers, FiniteSets

CONSTANTS
    Users,      \* email addresses: each has at most one account
    Links,      \* emailed tokens that can be made
    Sids,       \* sessions that can be made
    Passwords,
    RolesOffered, \* the roles admins invite people with
    Calls,      \* requests and command-line invites in flight at once
    InviteTTL,  \* INVITATION_TTL_MS, in ticks
    ResetTTL,   \* PASSWORD_RESET_TTL_MS
    IdleTTL,    \* SESSION_TTL_DAYS
    Absolute,   \* SESSION_ABSOLUTE_TTL_MS
    Renew,      \* SESSION_RENEW_INTERVAL_MS
    MaxTime,    \* bound: the clock stops here
    None

ASSUME TtlAssumption ==
    /\ InviteTTL \in Nat \ {0} /\ ResetTTL \in Nat \ {0} /\ IdleTTL \in Nat \ {0}
    /\ Absolute \in Nat \ {0} /\ Renew \in Nat /\ MaxTime \in Nat

ASSUME NoneAssumption == None \notin Users \cup Links \cup Sids \cup Passwords

VARIABLES
    now,       \* the server's clock
    users,     \* users, by email
    tokens,    \* auth_tokens, by the emailed token
    sessions,  \* sessions, by id
    calls      \* calls in flight: where each is and what it remembers

vars == <<now, users, tokens, sessions, calls>>

-----------------------------------------------------------------------------
(* Rows, calls and the initial state.                                       *)

Statuses == {"NONE", "INVITED", "ACTIVE", "DEACTIVATED"}   \* NONE: no row
Roles    == {"ADMIN", "MEMBER"}
Kinds    == {"INVITATION", "PASSWORD_RESET"}

ASSUME RolesAssumption == RolesOffered \subseteq Roles

UserRows == [status : Statuses, pwd : Passwords \cup {None}, role : Roles]

\* The random token or id isn't drawn yet; its row was deleted.
Unused == [state |-> "unused"]
Gone   == [state |-> "gone"]

\* "used": usedAt is set.
TokenRows == {Unused, Gone} \cup
    [state : {"live", "used"}, user : Users, type : Kinds, expires : Nat]

SessionRows == {Unused, Gone} \cup
    [state : {"live"}, user : Users, created : Nat, lastUsed : Nat, expires : Nat]

\* Operations, each with the statement it starts with: "work" is any signed-in
\* route that does not touch these tables.
Ops == {"login", "work", "change", "forgot", "reset", "invite", "accept"}

Pcs == {"idle", "expire", "renew", "find", "purge", "open", "setpwd",
        "signout", "consume", "owner", "activate", "details", "cancel",
        "issue"}

CallRows == [pc : Pcs, op : Ops \cup {"none"},
             user  : Users \cup {None},      \* whose account
             link  : Links \cup {None},      \* the token in the body, or issued
             sess  : Sids \cup {None},       \* the caller's session
             pwd   : Passwords \cup {None},  \* the password that is to hold
             role  : Roles,                  \* invite(): the role offered
             found : BOOLEAN,                \* invite(): the account existed
             admin : BOOLEAN,                \* the role validate() read
             doomed: SUBSET (Sids \cup Links), \* rows a transaction deleted
             old   : SUBSET Sids,            \* sessions alive when it arrived
             at    : Nat]                    \* the last clock reading or await

Idle == [pc |-> "idle", op |-> "none", user |-> None, link |-> None,
         sess |-> None, pwd |-> None, role |-> "MEMBER", found |-> FALSE,
         admin |-> FALSE, doomed |-> {}, old |-> {}, at |-> 0]

\* A fresh installation: the first account is invited from the command line.
Init ==
    /\ now = 0
    /\ users = [u \in Users |-> [status |-> "NONE", pwd |-> None, role |-> "MEMBER"]]
    /\ tokens = [l \in Links |-> Unused]
    /\ sessions = [s \in Sids |-> Unused]
    /\ calls = [c \in Calls |-> Idle]

-----------------------------------------------------------------------------
(* Plumbing: statements, locks, ends.                                       *)

\* Statements whose clock reading is older than they are: validate() took it
\* when it read the session, consume() before it waited for the row.
Timed == {"renew", "consume"}

Goto(c, p) == calls' = [calls EXCEPT ![c].pc = p,
                                     ![c].at = IF p \in Timed THEN now ELSE 0]

\* The call answered, threw, or rolled back: what it had not committed is undone.
Return(c) == calls' = [calls EXCEPT ![c] = Idle]

tables == <<users, tokens, sessions>>

LiveSession(s) == sessions[s].state = "live"
UnusedSid(s) == sessions[s].state = "unused"
SessionsOf(u) == {s \in Sids : LiveSession(s) /\ sessions[s].user = u}
ThereToken(l) == tokens[l].state \in {"live", "used"}
TokensOf(u, kind) ==
    {l \in Links : ThereToken(l) /\ tokens[l].user = u /\ tokens[l].type = kind}
UnusedToken(l) == tokens[l].state = "unused"

\* A random token or id: one that nobody has drawn before.
FreshLinks == {l \in Links : UnusedToken(l)}
FreshSids  == {s \in Sids : UnusedSid(s)}


\* Rows the call's open transaction has written.
Holds(c) ==
    LET k == calls[c] IN
    k.doomed \cup
      (IF \/ k.op = "change" /\ k.pc = "signout"
          \/ k.op = "invite" /\ k.pc \in {"cancel", "issue"}
       THEN {k.user} ELSE {}) \cup
      (IF k.op \in {"reset", "accept"} /\ k.pc \in {"owner", "signout", "setpwd", "activate"}
       THEN {k.link} ELSE {})

\* Mutant: a sign-out everywhere ends only sessions that had expired anyway.
SignedOutExpired(c) ==
    {s \in SessionsOf(calls[c].user) \ {calls[c].sess} : sessions[s].expires <= now}

\* The sessions a sign-out everywhere matches: changePassword() keeps its own.
SignedOut(c) == SessionsOf(calls[c].user) \ {calls[c].sess}

\* deleteExpiredForUser()
Expired(u) == {s \in SessionsOf(u) : sessions[s].expires < now}

\* Rows the call's next statement writes.
Wants(c) ==
    LET k == calls[c] IN
    CASE k.pc \in {"renew", "expire"} -> {k.sess}
      [] k.pc = "purge"    -> Expired(k.user)
      [] k.pc \in {"setpwd", "activate", "details"} -> {k.user}
      [] k.pc = "signout"  -> SignedOut(c)
      [] k.pc = "consume"  -> {k.link}
      [] k.pc = "cancel"   -> TokensOf(k.user, IF k.op = "invite" THEN "INVITATION"
                                               ELSE "PASSWORD_RESET")
      [] OTHER -> {}

WaitsFor(c, d) == c # d /\ Wants(c) \cap Holds(d) # {}

\* The next statement of call c is at p and waits for nobody.
At(c, p) == calls[c].pc = p /\ \A d \in Calls : ~WaitsFor(c, d)

-----------------------------------------------------------------------------
(* A call arrives.                                                          *)

\* Bound: no call starts that could run out of ids to draw.
RoomLeft(op) ==
    /\ op \in {"login", "accept"} =>
          Cardinality(FreshSids)
             > Cardinality({d \in Calls : calls[d].op \in {"login", "accept"}})
    /\ op \in {"forgot", "invite"} =>
          Cardinality(FreshLinks)
             > Cardinality({d \in Calls : calls[d].op \in {"forgot", "invite"}})

\* Call c begins as k.
Arrive(c, k) ==
    /\ calls[c].pc = "idle"
    /\ RoomLeft(k.op)
    /\ calls' = [calls EXCEPT ![c] = [k EXCEPT !.at = IF k.pc \in Timed THEN now ELSE 0]]

\* login(): the password is the account's, and the account isn't deactivated.
MayLogin(u) == users[u].pwd # None /\ users[u].status # "DEACTIVATED"

\* Anyone: sign in or ask for a reset link (the handlers read the account
\* first), or use an emailed link.  A call that is refused whatever happens
\* meanwhile is no step (a used link never works again), and a link whose mail
\* failed is one that nobody uses.
PublicRequest(c) ==
    /\ \/ \E u \in Users :
             \/ /\ MayLogin(u)
                /\ Arrive(c, [Idle EXCEPT !.pc = "purge", !.op = "login", !.user = u])
             \/ /\ users[u].status = "ACTIVE"
                /\ Arrive(c, [Idle EXCEPT !.pc = "cancel", !.op = "forgot", !.user = u])
       \/ \E l \in {k \in Links : tokens[k].state = "live"}, p \in Passwords :
             \/ Arrive(c, [Idle EXCEPT !.pc = "consume", !.op = "accept", !.link = l, !.pwd = p])
             \/ Arrive(c, [Idle EXCEPT !.pc = "consume", !.op = "reset", !.link = l, !.pwd = p,
                                       !.old = SessionsOf(tokens[l].user)])
    /\ UNCHANGED <<now, tables>>

\* RolesGuard: only an admin invites.
RoleAllows(op, admin) == op = "invite" => admin

\* validate(): a session that hasn't expired, of an active account.
SignedIn(s) == sessions[s].expires > now /\ users[sessions[s].user].status = "ACTIVE"

\* SessionAuthGuard: validate() reads the session with its user.
Guarded(c, k) ==
    LET s == k.sess
        admin == users[sessions[s].user].role = "ADMIN"
        fresh == now - sessions[s].lastUsed < Renew
    IN  \/ /\ sessions[s].expires <= now
           /\ Arrive(c, [k EXCEPT !.pc = "expire"])
        \/ /\ SignedIn(s) /\ ~fresh
           /\ Arrive(c, [k EXCEPT !.pc = "renew", !.admin = admin])
        \/ /\ SignedIn(s) /\ fresh
           /\ k.op # "work" /\ RoleAllows(k.op, admin)
           /\ Arrive(c, [k EXCEPT !.pc = "find"])

\* A signed-in browser calls.
StaffRequest(c) ==
    /\ \E s \in {x \in Sids : LiveSession(x)} :
          \/ Guarded(c, [Idle EXCEPT !.op = "work", !.sess = s])
          \/ \E p \in Passwords :
                Guarded(c, [Idle EXCEPT !.op = "change", !.sess = s, !.pwd = p,
                    !.user = sessions[s].user,
                    !.old = SessionsOf(sessions[s].user) \ {s}])
          \/ \E u \in Users, r \in RolesOffered :
                Guarded(c, [Idle EXCEPT !.op = "invite", !.sess = s, !.user = u, !.role = r])
    /\ UNCHANGED <<now, tables>>

\* pnpm auth:invite-admin calls create() with no session.
CliInvite(c) ==
    /\ \E u \in Users :
          Arrive(c, [Idle EXCEPT !.pc = "find", !.op = "invite", !.user = u, !.role = "ADMIN"])
    /\ UNCHANGED <<now, tables>>

-----------------------------------------------------------------------------
(* Sessions.                                                                *)

\* A row of table t is deleted, if it is still there.
Delete(t, rows) == [i \in DOMAIN t |-> IF i \in rows THEN Gone ELSE t[i]]

Expire(c) ==
    /\ At(c, "expire")
    /\ sessions' = Delete(sessions, {calls[c].sess})
    /\ Return(c)
    /\ UNCHANGED <<now, users, tokens>>

\* Mutant: renewing forgets the hard limit.
idleExpiryUnlimited(t, created) == t + IdleTTL

\* The idle expiry, never past the absolute one.
idleExpiry(t, created) ==
    IF t + IdleTTL < created + Absolute THEN t + IdleTTL ELSE created + Absolute

\* The rows the renewal's updateMany matches.
Renewable(s) == LiveSession(s)

\* The renewal; no row means the session was signed out meanwhile.
RenewSession(c) ==
    /\ At(c, "renew")
    /\ LET s == calls[c].sess  t == calls[c].at IN
       IF Renewable(s)
       THEN /\ sessions' = [sessions EXCEPT ![s] = [@ EXCEPT !.lastUsed = t,
                              !.expires = idleExpiry(t, sessions[s].created)]]
            /\ IF calls[c].op # "work" /\ RoleAllows(calls[c].op, calls[c].admin)
               THEN Goto(c, "find") ELSE Return(c)
       ELSE UNCHANGED sessions /\ Return(c)
    /\ UNCHANGED <<now, users, tokens>>

\* revokeByToken(): sign-out needs no session that works.
Logout(s) ==
    /\ LiveSession(s)
    /\ \A c \in Calls : s \notin Holds(c)
    /\ sessions' = Delete(sessions, {s})
    /\ UNCHANGED <<now, users, tokens, calls>>

\* login() first deletes the account's expired sessions.
Purge(c) ==
    /\ At(c, "purge")
    /\ sessions' = Delete(sessions, Expired(calls[c].user))
    /\ Goto(c, "open")
    /\ UNCHANGED <<now, users, tokens>>

\* SessionsService.create(), for login() and after accept()'s transaction.
\* login() then stamps lastLoginAt, which nothing here reads.
Open(c) ==
    /\ At(c, "open")
    /\ \E s \in FreshSids :
          sessions' = [sessions EXCEPT ![s] =
            [state |-> "live", user |-> calls[c].user, created |-> now,
             lastUsed |-> now, expires |-> idleExpiry(now, now)]]
    /\ Return(c)
    /\ UNCHANGED <<now, users, tokens>>

-----------------------------------------------------------------------------
(* Passwords.                                                               *)

\* changePassword() reads the account; a wrong or unchanged password is refused.
FindChange(c) ==
    /\ At(c, "find") /\ calls[c].op = "change"
    /\ LET u == users[calls[c].user] IN
       IF u.pwd # None /\ u.pwd # calls[c].pwd THEN Goto(c, "setpwd") ELSE Return(c)
    /\ UNCHANGED <<now, tables>>

\* The transaction of changePassword() writes the user row first.
SetPwdChange(c) ==
    /\ At(c, "setpwd") /\ calls[c].op = "change"
    /\ Goto(c, "signout")
    /\ UNCHANGED <<now, tables>>

\* ... then deletes the other sessions and commits.
CommitChange(c) ==
    /\ At(c, "signout") /\ calls[c].op = "change"
    /\ users' = [users EXCEPT ![calls[c].user].pwd = calls[c].pwd]
    /\ sessions' = Delete(sessions, SignedOut(c))
    /\ Return(c)
    /\ UNCHANGED <<now, tokens>>

\* Mutant: a link works after it was used.
ConsumableUsed(l, kind, t) ==
    /\ ThereToken(l) /\ tokens[l].type = kind
    /\ tokens[l].expires > t

\* The rows consume()'s conditional update matches.
Consumable(l, kind, t) ==
    /\ tokens[l].state = "live" /\ tokens[l].type = kind
    /\ tokens[l].expires > t

KindOf(op) == IF op \in {"accept", "invite"} THEN "INVITATION" ELSE "PASSWORD_RESET"

\* consume() marks the token, in the caller's transaction.
Consume(c) ==
    /\ At(c, "consume")
    /\ \E t \in calls[c].at .. now :
          IF Consumable(calls[c].link, KindOf(calls[c].op), t)
          THEN Goto(c, "owner") ELSE Return(c)
    /\ UNCHANGED <<now, tables>>

\* consume() reads the owner; the caller checks the status it read.
Owner(c) ==
    /\ At(c, "owner")
    /\ LET u == tokens[calls[c].link].user
           op == calls[c].op  IN
       IF users[u].status = (IF op = "accept" THEN "INVITED" ELSE "ACTIVE")
       THEN calls' = [calls EXCEPT ![c].user = u, ![c].at = 0,
                        ![c].pc = IF op = "accept" THEN "activate" ELSE "signout"]
       ELSE Return(c)
    /\ UNCHANGED <<now, tables>>

\* resetPassword() deletes every session ...
SignOutReset(c) ==
    /\ At(c, "signout") /\ calls[c].op = "reset"
    /\ calls' = [calls EXCEPT ![c].pc = "setpwd", ![c].at = 0,
                             ![c].doomed = SignedOut(c)]
    /\ UNCHANGED <<now, tables>>

\* ... writes the user row and commits.
CommitReset(c) ==
    /\ At(c, "setpwd") /\ calls[c].op = "reset"
    /\ users' = [users EXCEPT ![calls[c].user].pwd = calls[c].pwd]
    /\ sessions' = Delete(sessions, calls[c].doomed)
    /\ tokens' = [tokens EXCEPT ![calls[c].link].state = "used"]
    /\ Return(c)
    /\ UNCHANGED now

-----------------------------------------------------------------------------
(* Emailed links.                                                           *)

\* accept(): the account becomes active and the transaction commits; the
\* session is created after it.
Activate(c) ==
    /\ At(c, "activate")
    /\ users' = [users EXCEPT ![calls[c].user] =
                    [@ EXCEPT !.status = "ACTIVE", !.pwd = calls[c].pwd]]
    /\ tokens' = [tokens EXCEPT ![calls[c].link].state = "used"]
    /\ calls' = [calls EXCEPT ![c] = [Idle EXCEPT !.pc = "open", !.op = "accept",
                                                  !.user = calls[c].user]]
    /\ UNCHANGED <<now, sessions>>

\* create(): an account that isn't waiting for its invitation is refused.
FindInvite(c) ==
    /\ At(c, "find") /\ calls[c].op = "invite"
    /\ LET status == users[calls[c].user].status IN
       IF status \in {"NONE", "INVITED"}
       THEN calls' = [calls EXCEPT ![c] = [@ EXCEPT !.pc = "details", !.at = 0,
                        !.sess = None, !.admin = FALSE, !.found = (status = "INVITED")]]
       ELSE Return(c)
    /\ UNCHANGED <<now, tables>>

\* create()'s transaction updates the row it found, or inserts one: a unique
\* violation when somebody else has.
Details(c) ==
    /\ At(c, "details")
    /\ IF calls[c].found \/ users[calls[c].user].status = "NONE"
       THEN Goto(c, "cancel") ELSE Return(c)
    /\ UNCHANGED <<now, tables>>

\* issue() deletes the account's earlier tokens of the kind: at once for a
\* reset, in the transaction for an invitation.  The new one's expiry is
\* computed before.
Cancel(c) ==
    /\ At(c, "cancel")
    /\ LET mine == TokensOf(calls[c].user, KindOf(calls[c].op))
           inTx == calls[c].op = "invite"
       IN  /\ calls' = [calls EXCEPT ![c].pc = "issue", ![c].at = now,
                                     ![c].doomed = IF inTx THEN mine ELSE {}]
           /\ tokens' = IF inTx THEN tokens ELSE Delete(tokens, mine)
    /\ UNCHANGED <<now, users, sessions>>

\* issue() creates the new token.
Created(u, kind, end) == [state |-> "live", user |-> u, type |-> kind, expires |-> end]

IssueReset(c) ==
    /\ At(c, "issue") /\ calls[c].op = "forgot"
    /\ \E l \in FreshLinks :
          tokens' = [tokens EXCEPT ![l] =
                       Created(calls[c].user, "PASSWORD_RESET", calls[c].at + ResetTTL)]
    /\ Return(c)
    /\ UNCHANGED <<now, users, sessions>>

\* Mutant: issue() leaves the earlier links of the account alone.
InviteKeepingOld(c, new) ==
    [tokens EXCEPT ![new] =
        Created(calls[c].user, "INVITATION", calls[c].at + InviteTTL)]

\* The tokens when an invitation commits.
InviteTokens(c, new) ==
    [l \in Links |->
        IF l = new THEN Created(calls[c].user, "INVITATION", calls[c].at + InviteTTL)
        ELSE IF l \in calls[c].doomed THEN Gone
        ELSE tokens[l]]

\* create() commits: the row gets the name and role offered, whatever its
\* status has become.
CommitInvite(c) ==
    /\ At(c, "issue") /\ calls[c].op = "invite"
    /\ \E new \in FreshLinks : tokens' = InviteTokens(c, new)
    /\ users' = [users EXCEPT ![calls[c].user] =
          IF calls[c].found THEN [@ EXCEPT !.role = calls[c].role]
          ELSE [status |-> "INVITED", pwd |-> None, role |-> calls[c].role]]
    /\ Return(c)
    /\ UNCHANGED <<now, sessions>>

-----------------------------------------------------------------------------
(* The system.                                                              *)

\* PostgreSQL ends one call of a set that wait for each other.
Deadlocked(c) ==
    \E D \in SUBSET Calls :
        c \in D /\ \A d \in D : \E e \in D : WaitsFor(d, e)

BreakDeadlock(c) ==
    /\ Deadlocked(c)
    /\ Return(c)
    /\ UNCHANGED <<now, tables>>

\* A statement fails or the process restarts: open transactions roll back.
Drop(c) ==
    /\ calls[c].pc # "idle"
    /\ Return(c)
    /\ UNCHANGED <<now, tables>>

\* Done in the database: the API has no route for it.
Deactivate(u) ==
    /\ users[u].status = "ACTIVE"
    /\ \A c \in Calls : u \notin Holds(c)
    /\ users' = [users EXCEPT ![u].status = "DEACTIVATED"]
    /\ UNCHANGED <<now, tokens, sessions, calls>>

Tick ==
    /\ now < MaxTime
    /\ now' = now + 1
    /\ UNCHANGED <<tables, calls>>

Handle(c) ==
    \/ Expire(c) \/ RenewSession(c)
    \/ Purge(c) \/ Open(c)
    \/ FindChange(c) \/ SetPwdChange(c) \/ CommitChange(c)
    \/ Consume(c) \/ Owner(c) \/ SignOutReset(c) \/ CommitReset(c) \/ Activate(c)
    \/ FindInvite(c) \/ Details(c) \/ Cancel(c)
    \/ IssueReset(c) \/ CommitInvite(c) \/ BreakDeadlock(c)

Next ==
    \/ Tick
    \/ \E u \in Users : Deactivate(u)
    \/ \E s \in Sids : Logout(s)
    \/ \E c \in Calls :
          PublicRequest(c) \/ StaffRequest(c) \/ CliInvite(c) \/ Handle(c) \/ Drop(c)

Spec == Init /\ [][Next]_vars

-----------------------------------------------------------------------------
(* Properties.                                                              *)

\* Every row and every call in flight is well formed.
TypeOK ==
    /\ now \in Nat
    /\ users \in [Users -> UserRows]
    /\ tokens \in [Links -> TokenRows]
    /\ sessions \in [Sids -> SessionRows]
    /\ calls \in [Calls -> CallRows]

\* An invited account has one link that works, also when two admins and the
\* command line invite it at once and while it is being accepted: create()
\* takes the user row before it replaces the link.
OneInvitation ==
    \A u \in Users :
        Cardinality({l \in TokensOf(u, "INVITATION") : tokens[l].state = "live"}) <= 1

\* A session that ended stays ended, though requests that carry it are still
\* renewing it; and once a password was changed or reset, no session that was
\* alive when the request came in is left, but the caller's own.
EndedStaysEnded ==
    [][/\ \A s \in Sids : sessions[s].state = "gone" => sessions'[s].state = "gone"
       /\ \A c \in Calls :
             /\ calls[c].op \in {"change", "reset"} /\ calls[c].user # None
             /\ users'[calls[c].user] # users[calls[c].user]
             /\ calls'[c] # calls[c]
             => \A s \in calls[c].old : sessions'[s].state = "gone"]_vars

\* However often it is renewed, a session ends Absolute after sign-in, and
\* IdleTTL after its last renewal.
EndsInTime ==
    \A s \in Sids : LiveSession(s) =>
        /\ sessions[s].expires <= sessions[s].created + Absolute
        /\ sessions[s].expires <= sessions[s].lastUsed + IdleTTL
        /\ sessions[s].lastUsed < sessions[s].created + Absolute

\* Auth implements AccountLife.
Account == INSTANCE AccountLife WITH
    account <- [u \in Users |-> [status |-> users[u].status, pwd |-> users[u].pwd]],
    link    <- tokens,
    changing <- {calls[c].user : c \in {d \in Calls :
                   calls[d].op = "change" /\ calls[d].pc # "idle" /\ calls[d].pc # "expire"}}

\* Whatever calls overlap, wait or fail, an account is activated once, a
\* password is set by a live link of that account, used up by it, or by a
\* change, and no link comes back.
ImplementsAccount == Account!Spec

=============================================================================
