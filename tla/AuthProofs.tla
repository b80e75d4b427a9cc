----------------------------- MODULE AuthProofs -----------------------------
(***************************************************************************)
(* AInv is an invariant of Auth, for any number of accounts, links,        *)
(* sessions and calls in flight, and what follows from it.                 *)
(***************************************************************************)
EXTENDS AuthInv, FiniteSetTheorems, TLAPS

\* What one step may do to a row of each table.
TokenRule(l) ==
    \/ tokens'[l] = tokens[l]
    \/ UnusedToken(l) /\ tokens'[l].state = "live"
    \/ ThereToken(l) /\ tokens'[l] = Gone
    \/ /\ tokens[l].state = "live" /\ tokens'[l].state = "used"
       /\ tokens'[l].user = tokens[l].user /\ tokens'[l].type = tokens[l].type

SessionRule(s) ==
    \/ sessions'[s] = sessions[s]
    \/ UnusedSid(s) /\ LiveSession(s)'
    \/ ~UnusedSid(s) /\ sessions'[s] = Gone
    \/ /\ LiveSession(s) /\ LiveSession(s)'
       /\ sessions'[s].user = sessions[s].user
       /\ sessions'[s].created = sessions[s].created

UserRule(u) ==
    \/ users'[u].status = users[u].status
    \/ users[u].status = "NONE" /\ users'[u].status = "INVITED"
    \/ /\ users[u].status = "INVITED" /\ users'[u].status = "ACTIVE"
       /\ \E l \in Links : /\ LiveLink(l, "INVITATION") /\ tokens[l].user = u
                           /\ tokens'[l] # tokens[l]
    \/ users[u].status = "ACTIVE" /\ users'[u].status = "DEACTIVATED"

RowRules ==
    /\ \A l \in Links : TokenRule(l)
    /\ \A s \in Sids : SessionRule(s)
    /\ \A u \in Users : UserRule(u)

\* A step of another call respects the rows that d holds.
KeptFor(d) ==
    /\ \A l \in Links : l \in Holds(d) /\ ~UnusedToken(l) => tokens'[l] = tokens[l]
    /\ \A u \in Users : u \in Holds(d) => users'[u].status = users[u].status
    /\ \A l \in Links : UnusedToken(l) /\ LiveLink(l, "INVITATION")'
                            => tokens'[l].user \notin Holds(d)

\* A call takes no row but those its statement waited for.
LockRule(c) ==
    \/ Holds(c)' \subseteq Holds(c)
    \/ /\ \A d \in Calls : ~WaitsFor(c, d)
       /\ Holds(c)' \subseteq Holds(c) \cup Wants(c)

-----------------------------------------------------------------------------
(* Rows and calls.                                                          *)

LEMMA RowTypes ==
    ASSUME TypeOK
    PROVE  /\ \A l \in Links : tokens[l] \in TokenRows
           /\ \A s \in Sids : sessions[s] \in SessionRows
           /\ \A u \in Users : users[u] \in UserRows
           /\ \A c \in Calls : calls[c] \in CallRows
  BY DEF TypeOK

LEMMA TokenStates ==
    ASSUME TypeOK, NEW l \in Links
    PROVE  /\ tokens[l].state \in {"unused", "gone", "live", "used"}
           /\ UnusedToken(l) => tokens[l] = Unused
           /\ tokens[l].state = "gone" => tokens[l] = Gone
           /\ ThereToken(l) => /\ tokens[l] \in [state : {"live", "used"}, user : Users,
                                                 type : Kinds, expires : Nat]
                               /\ tokens[l].user \in Users /\ tokens[l].type \in Kinds
  BY RowTypes DEF TokenRows, Unused, Gone, UnusedToken, ThereToken

LEMMA SessionStates ==
    ASSUME TypeOK, NEW s \in Sids
    PROVE  /\ sessions[s].state \in {"unused", "gone", "live"}
           /\ UnusedSid(s) => sessions[s] = Unused
           /\ Ended(s) => sessions[s] = Gone
           /\ LiveSession(s) =>
                 /\ sessions[s] \in [state : {"live"}, user : Users, created : Nat,
                                     lastUsed : Nat, expires : Nat]
                 /\ sessions[s].user \in Users /\ sessions[s].created \in Nat
                 /\ sessions[s].lastUsed \in Nat /\ sessions[s].expires \in Nat
  BY RowTypes DEF SessionRows, Unused, Gone, UnusedSid, Ended, LiveSession

LEMMA CallFields ==
    ASSUME NEW k \in CallRows
    PROVE  /\ k.pc \in Pcs /\ k.op \in Ops \cup {"none"}
           /\ k.user \in Users \cup {None} /\ k.link \in Links \cup {None}
           /\ k.sess \in Sids \cup {None} /\ k.pwd \in Passwords \cup {None}
           /\ k.role \in Roles /\ k.found \in BOOLEAN /\ k.admin \in BOOLEAN
           /\ k.doomed \subseteq (Sids \cup Links) /\ k.old \subseteq Sids /\ k.at \in Nat
  BY DEF CallRows

LEMMA IdleCall == Idle \in CallRows
  BY DEF Idle, CallRows, Pcs, Roles

LEMMA OneCall ==
    ASSUME TypeOK, NEW c \in Calls, NEW k, calls' = [calls EXCEPT ![c] = k]
    PROVE  /\ calls'[c] = k
           /\ \A d \in Calls \ {c} : calls'[d] = calls[d]
           /\ k \in CallRows => calls' \in [Calls -> CallRows]
  BY DEF TypeOK

-----------------------------------------------------------------------------
(* The other calls.                                                         *)

LEMMA OthersKeep ==
    ASSUME AInv, NEW d \in Calls, calls'[d] = calls[d], RowRules, KeptFor(d)
    PROVE  CallInv(d)'
<1> DEFINE k == calls[d]
<1>0. TypeOK /\ CallInv(d) /\ k \in CallRows
  BY RowTypes DEF AInv
<1>1. CallShape(d)'
  BY <1>0 DEF CallInv, CallShape
<1>2. Validated(d)'
  <2> SUFFICES ASSUME k.pc \in {"expire", "renew"} PROVE Validated(d)'
    BY DEF Validated
  <2>1. k.sess \in Sids /\ ~UnusedSid(k.sess)
    BY <1>0 DEF CallInv, CallShape, Validated
  <2>2. SessionRule(k.sess)
    BY <2>1 DEF RowRules
  <2>3. ~UnusedSid(k.sess)'
    BY <2>1, <2>2 DEF SessionRule, UnusedSid, LiveSession, Gone
  <2>4. LiveSession(k.sess)' => LiveSession(k.sess) /\ sessions'[k.sess].created = sessions[k.sess].created
    BY <2>1, <2>2 DEF SessionRule, UnusedSid, LiveSession, Gone
  <2> QED BY <1>0, <2>3, <2>4 DEF CallInv, Validated, LiveSession, UnusedSid
<1>3. OldOnes(d)'
  <2>1. \A s \in Sids, u \in Users : Ended(s) \/ OfUser(s, u) => (Ended(s) \/ OfUser(s, u))'
    BY DEF RowRules, SessionRule, Ended, OfUser, LiveSession, UnusedSid, Gone
  <2>2. k.old \subseteq Sids
    BY <1>0, CallFields
  <2>3. CASE k.op = "change"
    <3>1. k.user \in Users
      BY <1>0, <2>3 DEF CallInv, CallShape
    <3> QED BY <1>0, <2>1, <2>2, <2>3, <3>1 DEF CallInv, OldOnes
  <2>4. CASE k.op = "reset" /\ k.pc \in {"consume", "owner"}
    <3>1. k.link \in Links /\ ~UnusedToken(k.link)
      BY <1>0, <2>4 DEF CallInv, CallShape, OldOnes
    <3>2. TokenRule(k.link)
      BY <3>1 DEF RowRules
    <3>3. ~UnusedToken(k.link)'
      BY <3>1, <3>2 DEF TokenRule, UnusedToken, Gone
    <3>4. ThereToken(k.link)' => ThereToken(k.link) /\ tokens'[k.link].user = tokens[k.link].user
      BY <3>1, <3>2 DEF TokenRule, UnusedToken, Gone, ThereToken
    <3>5. ThereToken(k.link) => tokens[k.link].user \in Users
      BY <1>0, <3>1, TokenStates
    <3> QED BY <1>0, <2>1, <2>2, <2>4, <3>3, <3>4, <3>5 DEF CallInv, OldOnes, ThereToken, UnusedToken
  <2>5. CASE k.op = "reset" /\ k.pc \in {"signout", "setpwd"}
    <3>1. k.user \in Users
      BY <1>0, <2>5 DEF CallInv, CallShape
    <3>2. \A s \in Sids : (Ended(s) => Ended(s)') /\ (~UnusedSid(s) => ~UnusedSid(s)')
      BY DEF RowRules, SessionRule, Ended, LiveSession, UnusedSid, Gone
    <3> QED BY <1>0, <2>1, <2>2, <2>5, <3>1, <3>2 DEF CallInv, OldOnes
  <2> QED BY <1>0, <2>3, <2>4, <2>5 DEF CallInv, CallShape, OldOnes
<1>4. Checked(d)'
  <2>0. CallShape(d) /\ Checked(d)
    BY <1>0 DEF CallInv
  <2>1. \A u \in Users : /\ users[u].status \in Joined => users'[u].status \in Joined
                         /\ users[u].status # "NONE" => users'[u].status # "NONE"
    BY DEF RowRules, UserRule, Joined
  <2>2. \A l \in Links : ~UnusedToken(l) => ~UnusedToken(l)'
    BY DEF RowRules, TokenRule, UnusedToken, Gone
  <2>3. k.op = "accept" /\ k.pc = "consume" => ~UnusedToken(k.link)'
    BY <2>0, <2>2 DEF CallShape, Checked
  <2>4. ASSUME InLinkTx(k)
        PROVE  /\ k.link \in Links /\ k.link \in Holds(d) /\ tokens'[k.link] = tokens[k.link]
               /\ LiveLink(k.link, KindOf(k.op))
    <3>1. k.link \in Links /\ LiveLink(k.link, KindOf(k.op))
      BY <2>0, <2>4 DEF CallShape, Checked, InLinkTx
    <3>2. k.link \in Holds(d)
      BY <2>4 DEF InLinkTx, Holds
    <3> QED BY <3>1, <3>2 DEF KeptFor, LiveLink, UnusedToken
  <2>5. InLinkTx(k) => LiveLink(k.link, KindOf(k.op))'
    BY <2>4 DEF LiveLink
  <2>6. InLinkTx(k) /\ k.pc # "owner" => tokens'[k.link].user = k.user
    BY <2>0, <2>4 DEF Checked
  <2>7. ASSUME k.pc = "activate" PROVE users'[k.user].status = "INVITED"
    <3>1. /\ k.op = "accept" /\ InLinkTx(k) /\ k.user \in Users
          /\ users[k.user].status = "INVITED" /\ tokens[k.link].user = k.user
      BY <2>0, <2>7, CallFields, <1>0 DEF CallShape, Checked, InLinkTx, Ops, Idle
    <3>2. ASSUME NEW l \in Links, LiveLink(l, "INVITATION"), tokens[l].user = k.user
          PROVE  tokens'[l] = tokens[l]
      BY <2>4, <3>1, <3>2 DEF AInv, OneLiveLink, KindOf
    <3> QED BY <3>1, <3>2 DEF RowRules, UserRule
  <2>8. \/ k.op = "change" /\ k.pc # "expire"
        \/ k.op = "forgot"
        \/ k.op = "reset" /\ k.pc \in {"signout", "setpwd"}
        => users'[k.user].status \in Joined
    BY <2>0, <2>1 DEF CallShape, Checked
  <2>9. k.op = "invite" /\ k.found => users'[k.user].status # "NONE"
    BY <2>0, <2>1 DEF CallShape, Checked
  <2>10. ASSUME k.op = "invite", k.pc \in {"cancel", "issue"}
         PROVE  k.user \in Users /\ k.user \in Holds(d)
    BY <2>0, <2>10 DEF CallShape, Holds
  <2>11. k.op = "invite" /\ ~k.found /\ k.pc \in {"cancel", "issue"} =>
            users'[k.user].status = "NONE"
    BY <2>0, <2>10 DEF KeptFor, Checked
  <2>12. ASSUME k.op = "invite", k.pc = "issue"
         PROVE  /\ \A l \in Links :
                      LiveLink(l, "INVITATION")' /\ tokens'[l].user = k.user => l \in k.doomed
                /\ \A l \in k.doomed : l \in Links /\ ThereToken(l)'
    <3>1. ASSUME NEW l \in Links, LiveLink(l, "INVITATION")', tokens'[l].user = k.user
          PROVE  l \in k.doomed
      <4>1. ~UnusedToken(l)
        BY <2>10, <2>12, <3>1 DEF KeptFor
      <4>2. tokens'[l] = tokens[l]
        BY <3>1, <4>1 DEF RowRules, TokenRule, LiveLink, Gone
      <4> QED BY <2>0, <2>12, <3>1, <4>2 DEF Checked, LiveLink
    <3>2. ASSUME NEW l \in k.doomed PROVE l \in Links /\ ThereToken(l)'
      <4>1. l \in Links /\ ThereToken(l) /\ l \in Holds(d)
        BY <2>0, <2>12 DEF Checked, Holds
      <4> QED BY <4>1 DEF KeptFor, ThereToken, UnusedToken
    <3> QED BY <3>1, <3>2
  <2> HIDE DEF k
  <2> QED BY <2>3, <2>5, <2>6, <2>7, <2>8, <2>9, <2>11, <2>12 DEF k, Checked
<1> QED BY <1>1, <1>2, <1>3, <1>4 DEF CallInv

\* The part of a step that concerns the calls that do not move.
LEMMA StepOfOne ==
    ASSUME AInv, NEW c \in Calls, TypeOK', RowRules, EndsInTime', OneLiveLink',
           \A u \in Users : UserShape(u)',
           \A d \in Calls \ {c} : calls'[d] = calls[d] /\ KeptFor(d),
           LockRule(c), CallInv(c)'
    PROVE  AInv'
<1>1. \A d \in Calls : CallInv(d)'
  BY OthersKeep
<1>2. \A d \in Calls \ {c} : Holds(d)' = Holds(d)
  BY DEF Holds, InLinkTx
<1>3. \A d \in Calls \ {c} : Holds(c)' \cap Holds(d) = {}
  BY DEF LockRule, AInv, LocksExclusive, WaitsFor
<1>4. LocksExclusive'
  BY <1>2, <1>3 DEF AInv, LocksExclusive
<1> QED BY <1>1, <1>4 DEF AInv

\* Rows that stay as they are keep what is said of them.
LEMMA SameRows ==
    ASSUME AInv, UNCHANGED tables
    PROVE  /\ RowRules /\ EndsInTime' /\ OneLiveLink'
           /\ \A u \in Users : UserShape(u)'
           /\ \A d \in Calls : KeptFor(d)
<1>0. users' = users /\ tokens' = tokens /\ sessions' = sessions
  BY DEF tables
<1>1. RowRules
  BY <1>0 DEF RowRules, TokenRule, SessionRule, UserRule
<1>2. EndsInTime' /\ OneLiveLink' /\ \A u \in Users : UserShape(u)'
  BY <1>0 DEF AInv, EndsInTime, LiveSession, OneLiveLink, LiveLink, UserShape
<1>3. \A d \in Calls : KeptFor(d)
  BY <1>0 DEF KeptFor, UnusedToken, LiveLink
<1> QED BY <1>1, <1>2, <1>3

\* A statement that writes nothing that shows yet, whatever it locks.
LEMMA QuietKeeps ==
    ASSUME AInv, NEW c \in Calls, UNCHANGED <<now, tables>>,
           calls' \in [Calls -> CallRows], \A d \in Calls \ {c} : calls'[d] = calls[d],
           LockRule(c), CallInv(c)'
    PROVE  AInv'
<1>1. TypeOK'
  BY DEF AInv, TypeOK, tables
<1> QED BY <1>1, SameRows, StepOfOne

\* A call that returned is idle: it holds nothing and relies on nothing.
LEMMA IdleIsFine ==
    ASSUME TypeOK, NEW c \in Calls, Return(c)
    PROVE  /\ CallInv(c)' /\ LockRule(c)
           /\ \A d \in Calls \ {c} : calls'[d] = calls[d]
           /\ calls' \in [Calls -> CallRows]
<1>1. /\ calls'[c] = Idle /\ calls' \in [Calls -> CallRows]
      /\ \A d \in Calls \ {c} : calls'[d] = calls[d]
  BY IdleCall, OneCall DEF Return
<1>2. CallInv(c)'
  BY <1>1, NoneAssumption
     DEF CallInv, CallShape, Validated, OldOnes, Checked, Idle, InLinkTx
<1>3. Holds(c)' = {}
  BY <1>1 DEF Holds, Idle
<1> QED BY <1>1, <1>2, <1>3 DEF LockRule

LEMMA ReturnKeeps ==
    ASSUME AInv, NEW c \in Calls, Return(c), UNCHANGED <<now, tables>>
    PROVE  AInv'
<1>1. TypeOK /\ CallInv(c)' /\ LockRule(c)
  BY IdleIsFine DEF AInv
<1> QED BY <1>1, IdleIsFine, QuietKeeps

-----------------------------------------------------------------------------
(* A call arrives.                                                          *)

\* The call that arrived remembers what k says, and the time if it needs it.
ArrivedAs(c, k) ==
    LET j == calls'[c] IN
    /\ j.pc = k.pc /\ j.op = k.op /\ j.user = k.user /\ j.link = k.link
    /\ j.sess = k.sess /\ j.pwd = k.pwd /\ j.found = k.found
    /\ j.doomed = k.doomed /\ j.old = k.old
    /\ j.at = IF k.pc \in Timed THEN now ELSE 0

\* Nothing is locked when a call arrives.
LEMMA ArriveKeeps ==
    ASSUME AInv, NEW c \in Calls, NEW k \in CallRows, Arrive(c, k), k.doomed = {},
           UNCHANGED <<now, tables>>,
           k.pc \in {"cancel", "issue"} => k.op = "forgot",
           k.pc \notin {"owner", "signout", "setpwd", "activate"},
           ArrivedAs(c, k) => CallInv(c)'
    PROVE  AInv'
<1> DEFINE j == [k EXCEPT !.at = IF k.pc \in Timed THEN now ELSE 0]
<1>1. /\ j \in CallRows /\ j.pc = k.pc /\ j.op = k.op /\ j.user = k.user /\ j.link = k.link
      /\ j.sess = k.sess /\ j.pwd = k.pwd /\ j.found = k.found
      /\ j.doomed = k.doomed /\ j.old = k.old
      /\ j.at = IF k.pc \in Timed THEN now ELSE 0
  BY DEF CallRows, AInv, TypeOK
<1>2. calls' = [calls EXCEPT ![c] = j]
  BY DEF Arrive
<1> HIDE DEF j
<1>3. /\ calls'[c] = j /\ calls' \in [Calls -> CallRows]
      /\ \A d \in Calls \ {c} : calls'[d] = calls[d]
  BY <1>1, <1>2, OneCall DEF AInv
<1>4. Holds(c)' = {}
  BY <1>1, <1>3 DEF Holds
<1>5. CallInv(c)'
  BY <1>1, <1>3 DEF ArrivedAs
<1> QED BY <1>3, <1>4, <1>5, QuietKeeps DEF LockRule

LEMMA PublicKeeps ==
    ASSUME AInv, NEW c \in Calls, PublicRequest(c)
    PROVE  AInv'
<1> USE NoneAssumption
<1>0. TypeOK /\ UNCHANGED <<now, tables>> /\ now \in Nat
      /\ users' = users /\ tokens' = tokens /\ sessions' = sessions
  BY DEF AInv, TypeOK, PublicRequest, tables
<1>1. ASSUME NEW u \in Users, MayLogin(u),
             Arrive(c, [Idle EXCEPT !.pc = "purge", !.op = "login", !.user = u])
      PROVE  AInv'
  <2> DEFINE k == [Idle EXCEPT !.pc = "purge", !.op = "login", !.user = u]
  <2>1. k \in CallRows /\ k.pc = "purge" /\ k.op = "login" /\ k.user = u /\ k.doomed = {}
    BY DEF Idle, CallRows, Pcs, Ops, Roles
  <2>2. Arrive(c, k)
    BY <1>1
  <2> HIDE DEF k
  <2>3. ArrivedAs(c, k) => CallInv(c)'
    BY <2>1 DEF ArrivedAs, CallInv, CallShape, Validated, OldOnes, Checked, InLinkTx
  <2> QED BY <1>0, <2>1, <2>2, <2>3, ArriveKeeps
<1>2. ASSUME NEW u \in Users, users[u].status = "ACTIVE",
             Arrive(c, [Idle EXCEPT !.pc = "cancel", !.op = "forgot", !.user = u])
      PROVE  AInv'
  <2> DEFINE k == [Idle EXCEPT !.pc = "cancel", !.op = "forgot", !.user = u]
  <2>1. k \in CallRows /\ k.pc = "cancel" /\ k.op = "forgot" /\ k.user = u /\ k.doomed = {}
    BY DEF Idle, CallRows, Pcs, Ops, Roles
  <2>2. Arrive(c, k)
    BY <1>2
  <2> HIDE DEF k
  <2>3. ArrivedAs(c, k) => CallInv(c)'
    BY <1>0, <1>2, <2>1
       DEF ArrivedAs, CallInv, CallShape, Validated, OldOnes, Checked, InLinkTx, Joined
  <2> QED BY <1>0, <2>1, <2>2, <2>3, ArriveKeeps
<1>3. ASSUME NEW l \in Links, NEW p \in Passwords, tokens[l].state = "live",
             Arrive(c, [Idle EXCEPT !.pc = "consume", !.op = "accept", !.link = l, !.pwd = p])
      PROVE  AInv'
  <2> DEFINE k == [Idle EXCEPT !.pc = "consume", !.op = "accept", !.link = l, !.pwd = p]
  <2>1. /\ k \in CallRows /\ k.pc = "consume" /\ k.op = "accept" /\ k.doomed = {}
        /\ k.link = l /\ k.pwd = p /\ k.user = None
    BY DEF Idle, CallRows, Pcs, Ops, Roles
  <2>2. Arrive(c, k)
    BY <1>3
  <2> HIDE DEF k
  <2>3. ArrivedAs(c, k) => CallInv(c)'
    BY <1>0, <1>3, <2>1
       DEF ArrivedAs, CallInv, CallShape, Validated, OldOnes, Checked, InLinkTx, UnusedToken
  <2> QED BY <1>0, <2>1, <2>2, <2>3, ArriveKeeps
<1>4. ASSUME NEW l \in Links, NEW p \in Passwords, tokens[l].state = "live",
             Arrive(c, [Idle EXCEPT !.pc = "consume", !.op = "reset", !.link = l, !.pwd = p,
                                    !.old = SessionsOf(tokens[l].user)])
      PROVE  AInv'
  <2> DEFINE k == [Idle EXCEPT !.pc = "consume", !.op = "reset", !.link = l, !.pwd = p,
                               !.old = SessionsOf(tokens[l].user)]
  <2>1. /\ k \in CallRows /\ k.pc = "consume" /\ k.op = "reset" /\ k.doomed = {}
        /\ k.link = l /\ k.pwd = p /\ k.user = None /\ k.sess = None
        /\ k.old = SessionsOf(tokens[l].user)
    BY DEF Idle, CallRows, Pcs, Ops, Roles, SessionsOf
  <2>2. Arrive(c, k)
    BY <1>4
  <2>3. \A s \in SessionsOf(tokens[l].user) : OfUser(s, tokens[l].user)
    BY DEF SessionsOf, OfUser
  <2> HIDE DEF k
  <2>4. ArrivedAs(c, k) => CallInv(c)'
    BY <1>0, <1>4, <2>1, <2>3
       DEF ArrivedAs, CallInv, CallShape, Validated, OldOnes, Checked, InLinkTx, UnusedToken,
           OfUser, LiveSession
  <2> QED BY <1>0, <2>1, <2>2, <2>4, ArriveKeeps
<1> QED BY <1>1, <1>2, <1>3, <1>4 DEF PublicRequest

\* A guarded call begins at its guard's statement, or past it.
LEMMA GuardedKeeps ==
    ASSUME AInv, NEW c \in Calls, NEW s \in Sids, LiveSession(s),
           NEW k \in CallRows, k.op \in {"work", "change", "invite"}, k.sess = s,
           k.doomed = {}, ~k.found,
           k.op \in {"change", "invite"} => k.user \in Users,
           k.op = "change" => /\ k.user = sessions[s].user /\ k.pwd \in Passwords
                              /\ k.old = SessionsOf(k.user) \ {s},
           Guarded(c, k), UNCHANGED <<now, tables>>
    PROVE  AInv'
<1> USE NoneAssumption
<1> DEFINE admin == users[sessions[s].user].role = "ADMIN"
<1>0. now \in Nat /\ users' = users /\ tokens' = tokens /\ sessions' = sessions
  BY DEF AInv, TypeOK, tables
<1>1. /\ sessions[s].created \in Nat /\ sessions[s].expires \in Nat /\ ~UnusedSid(s)
      /\ sessions[s].expires <= sessions[s].created + Absolute
  BY SessionStates DEF AInv, EndsInTime, LiveSession, UnusedSid
<1>2. SignedIn(s) => now < sessions[s].created + Absolute
                     /\ users[sessions[s].user].status \in Joined
  BY <1>0, <1>1, TtlAssumption DEF SignedIn, Joined
<1>3. k.op = "change" => \A x \in k.old : x # s /\ OfUser(x, k.user)
  BY DEF SessionsOf, OfUser
<1>4. ASSUME NEW i \in CallRows, Arrive(c, i), i.pc \in {"expire", "renew", "find"},
             i.op = k.op, i.sess = s, i.user = k.user, i.pwd = k.pwd, i.old = k.old,
             i.doomed = {}, ~i.found,
             i.pc # "expire" => SignedIn(s), i.pc = "find" => i.op # "work"
      PROVE  AInv'
  <2>1. ASSUME ArrivedAs(c, i) PROVE CallInv(c)'
    <3>1. CallShape(c)'
      BY <1>4, <2>1 DEF CallShape, ArrivedAs
    <3>2. Validated(c)'
      BY <1>0, <1>1, <1>2, <1>4, <2>1
         DEF Validated, UnusedSid, LiveSession, ArrivedAs, Timed
    <3>3. OldOnes(c)'
      BY <1>0, <1>3, <1>4, <2>1 DEF OldOnes, OfUser, LiveSession, ArrivedAs
    <3>4. Checked(c)'
      BY <1>0, <1>2, <1>4, <2>1 DEF Checked, InLinkTx, ArrivedAs
    <3> QED BY <3>1, <3>2, <3>3, <3>4 DEF CallInv
  <2> QED BY <1>4, <2>1, ArriveKeeps
<1>5. CASE sessions[s].expires <= now /\ Arrive(c, [k EXCEPT !.pc = "expire"])
  <2> DEFINE i == [k EXCEPT !.pc = "expire"]
  <2>1. /\ i \in CallRows /\ i.pc = "expire" /\ i.op = k.op /\ i.sess = s /\ i.user = k.user
        /\ i.pwd = k.pwd /\ i.old = k.old /\ i.doomed = {} /\ ~i.found
    BY DEF CallRows, Pcs
  <2> HIDE DEF i
  <2> QED BY <1>4, <1>5, <2>1 DEF i
<1>6. CASE SignedIn(s) /\ Arrive(c, [k EXCEPT !.pc = "renew", !.admin = admin])
  <2> DEFINE i == [k EXCEPT !.pc = "renew", !.admin = admin]
  <2>1. /\ i \in CallRows /\ i.pc = "renew" /\ i.op = k.op /\ i.sess = s /\ i.user = k.user
        /\ i.pwd = k.pwd /\ i.old = k.old /\ i.doomed = {} /\ ~i.found
    BY DEF CallRows, Pcs
  <2> HIDE DEF i
  <2> QED BY <1>4, <1>6, <2>1 DEF i
<1>7. CASE SignedIn(s) /\ k.op # "work" /\ Arrive(c, [k EXCEPT !.pc = "find"])
  <2> DEFINE i == [k EXCEPT !.pc = "find"]
  <2>1. /\ i \in CallRows /\ i.pc = "find" /\ i.op = k.op /\ i.sess = s /\ i.user = k.user
        /\ i.pwd = k.pwd /\ i.old = k.old /\ i.doomed = {} /\ ~i.found
    BY DEF CallRows, Pcs
  <2> HIDE DEF i
  <2> QED BY <1>4, <1>7, <2>1 DEF i
<1> QED BY <1>5, <1>6, <1>7 DEF Guarded

LEMMA StaffKeeps ==
    ASSUME AInv, NEW c \in Calls, StaffRequest(c)
    PROVE  AInv'
<1> PICK s \in {x \in Sids : LiveSession(x)} :
          \/ Guarded(c, [Idle EXCEPT !.op = "work", !.sess = s])
          \/ \E p \in Passwords :
                Guarded(c, [Idle EXCEPT !.op = "change", !.sess = s, !.pwd = p,
                    !.user = sessions[s].user,
                    !.old = SessionsOf(sessions[s].user) \ {s}])
          \/ \E u \in Users, r \in RolesOffered :
                Guarded(c, [Idle EXCEPT !.op = "invite", !.sess = s, !.user = u, !.role = r])
  BY DEF StaffRequest
<1>0. LiveSession(s) /\ UNCHANGED <<now, tables>> /\ sessions[s].user \in Users
  BY SessionStates DEF StaffRequest, AInv
<1>1. ASSUME Guarded(c, [Idle EXCEPT !.op = "work", !.sess = s]) PROVE AInv'
  <2> DEFINE k == [Idle EXCEPT !.op = "work", !.sess = s]
  <2>1. k \in CallRows /\ k.op = "work" /\ k.sess = s /\ k.doomed = {} /\ ~k.found
    BY DEF Idle, CallRows, Pcs, Ops, Roles
  <2>2. Guarded(c, k)
    BY <1>1
  <2> HIDE DEF k
  <2> QED BY <1>0, <2>1, <2>2, GuardedKeeps
<1>2. ASSUME NEW p \in Passwords,
             Guarded(c, [Idle EXCEPT !.op = "change", !.sess = s, !.pwd = p,
                    !.user = sessions[s].user, !.old = SessionsOf(sessions[s].user) \ {s}])
      PROVE  AInv'
  <2> DEFINE k == [Idle EXCEPT !.op = "change", !.sess = s, !.pwd = p,
                    !.user = sessions[s].user, !.old = SessionsOf(sessions[s].user) \ {s}]
  <2>1. /\ k \in CallRows /\ k.op = "change" /\ k.sess = s /\ k.doomed = {} /\ ~k.found
        /\ k.pwd = p /\ k.user = sessions[s].user /\ k.old = SessionsOf(k.user) \ {s}
    BY <1>0 DEF Idle, CallRows, Pcs, Ops, Roles, SessionsOf
  <2>2. Guarded(c, k)
    BY <1>2
  <2> HIDE DEF k
  <2> QED BY <1>0, <2>1, <2>2, GuardedKeeps
<1>3. ASSUME NEW u \in Users, NEW r \in RolesOffered,
             Guarded(c, [Idle EXCEPT !.op = "invite", !.sess = s, !.user = u, !.role = r])
      PROVE  AInv'
  <2> DEFINE k == [Idle EXCEPT !.op = "invite", !.sess = s, !.user = u, !.role = r]
  <2>1. /\ k \in CallRows /\ k.op = "invite" /\ k.sess = s /\ k.doomed = {} /\ ~k.found
        /\ k.user = u
    BY RolesAssumption DEF Idle, CallRows, Pcs, Ops
  <2>2. Guarded(c, k)
    BY <1>3
  <2> HIDE DEF k
  <2> QED BY <1>0, <2>1, <2>2, GuardedKeeps
<1> QED BY <1>1, <1>2, <1>3

LEMMA CliKeeps ==
    ASSUME AInv, NEW c \in Calls, CliInvite(c)
    PROVE  AInv'
<1>1. PICK u \in Users :
          Arrive(c, [Idle EXCEPT !.pc = "find", !.op = "invite", !.user = u, !.role = "ADMIN"])
  BY DEF CliInvite
<1> DEFINE k == [Idle EXCEPT !.pc = "find", !.op = "invite", !.user = u, !.role = "ADMIN"]
<1>2. /\ k \in CallRows /\ k.pc = "find" /\ k.op = "invite" /\ k.user = u
      /\ k.doomed = {} /\ ~k.found
  BY DEF Idle, CallRows, Pcs, Ops, Roles
<1>3. Arrive(c, k) /\ UNCHANGED <<now, tables>>
  BY <1>1 DEF CliInvite
<1> HIDE DEF k
<1>4. ArrivedAs(c, k) => CallInv(c)'
  BY <1>2 DEF ArrivedAs, CallInv, CallShape, Validated, OldOnes, Checked, InLinkTx
<1> QED BY <1>2, <1>3, <1>4, ArriveKeeps

-----------------------------------------------------------------------------
(* Statements that write nothing that shows.                                *)

\* The call goes on to p with what it remembers.
MovedTo(c, p) ==
    LET j == calls'[c]  k == calls[c] IN
    /\ j.pc = p /\ j.op = k.op /\ j.user = k.user /\ j.link = k.link
    /\ j.sess = k.sess /\ j.pwd = k.pwd /\ j.found = k.found
    /\ j.doomed = k.doomed /\ j.old = k.old

LEMMA GotoMoves ==
    ASSUME TypeOK, NEW c \in Calls, NEW p \in Pcs, Goto(c, p)
    PROVE  /\ MovedTo(c, p) /\ calls'[c].at = IF p \in Timed THEN now ELSE 0
           /\ calls' \in [Calls -> CallRows]
           /\ \A d \in Calls \ {c} : calls'[d] = calls[d]
<1> DEFINE at == IF p \in Timed THEN now ELSE 0
           k == [calls[c] EXCEPT !.pc = p, !.at = at]
<1>1. calls[c] \in CallRows /\ at \in Nat
  BY DEF TypeOK
<1> HIDE DEF at
<1>2. /\ k \in CallRows /\ k.pc = p /\ k.op = calls[c].op /\ k.user = calls[c].user
      /\ k.link = calls[c].link /\ k.sess = calls[c].sess /\ k.pwd = calls[c].pwd
      /\ k.found = calls[c].found /\ k.doomed = calls[c].doomed /\ k.old = calls[c].old
      /\ k.at = at
  BY <1>1 DEF CallRows
<1>3. calls' = [calls EXCEPT ![c] = k]
  BY DEF Goto, TypeOK, at
<1> HIDE DEF k
<1> QED BY <1>2, <1>3, OneCall DEF MovedTo, at

LEMMA FindChangeKeeps ==
    ASSUME AInv, NEW c \in Calls, FindChange(c)
    PROVE  AInv'
<1>0. /\ TypeOK /\ calls[c].pc = "find" /\ calls[c].op = "change" /\ CallInv(c)
      /\ UNCHANGED <<now, tables>> /\ users' = users /\ sessions' = sessions
      /\ "setpwd" \in Pcs
  BY DEF AInv, FindChange, At, tables, Pcs
<1>1. CASE Return(c)
  BY <1>0, <1>1, ReturnKeeps
<1>2. CASE Goto(c, "setpwd")
  <2>1. /\ MovedTo(c, "setpwd") /\ calls' \in [Calls -> CallRows]
        /\ \A d \in Calls \ {c} : calls'[d] = calls[d]
    BY <1>0, <1>2, GotoMoves
  <2>2. CallInv(c)'
    BY <1>0, <2>1 DEF MovedTo, CallInv, CallShape, Validated, OldOnes, Checked, InLinkTx,
                      Ended, OfUser, LiveSession
  <2>3. LockRule(c)
    BY <1>0, <2>1 DEF LockRule, Holds, MovedTo
  <2> QED BY <1>0, <2>1, <2>2, <2>3, QuietKeeps
<1> QED BY <1>1, <1>2 DEF FindChange

LEMMA SetPwdChangeKeeps ==
    ASSUME AInv, NEW c \in Calls, SetPwdChange(c)
    PROVE  AInv'
<1>0. /\ TypeOK /\ calls[c].pc = "setpwd" /\ calls[c].op = "change" /\ CallInv(c)
      /\ UNCHANGED <<now, tables>> /\ users' = users /\ sessions' = sessions
      /\ "signout" \in Pcs /\ \A d \in Calls : ~WaitsFor(c, d)
  BY DEF AInv, SetPwdChange, At, tables, Pcs
<1>1. /\ MovedTo(c, "signout") /\ calls' \in [Calls -> CallRows]
      /\ \A d \in Calls \ {c} : calls'[d] = calls[d]
  BY <1>0, GotoMoves DEF SetPwdChange
<1>2. CallInv(c)'
  BY <1>0, <1>1 DEF MovedTo, CallInv, CallShape, Validated, OldOnes, Checked, InLinkTx,
                    Ended, OfUser, LiveSession
<1>3. LockRule(c)
  BY <1>0, <1>1 DEF LockRule, Holds, MovedTo, Wants
<1> QED BY <1>0, <1>1, <1>2, <1>3, QuietKeeps

LEMMA ConsumeKeeps ==
    ASSUME AInv, NEW c \in Calls, Consume(c)
    PROVE  AInv'
<1>0. /\ TypeOK /\ calls[c].pc = "consume" /\ CallInv(c)
      /\ UNCHANGED <<now, tables>>
      /\ users' = users /\ sessions' = sessions /\ tokens' = tokens
      /\ "owner" \in Pcs /\ \A d \in Calls : ~WaitsFor(c, d)
  BY DEF AInv, Consume, At, tables, Pcs
<1>1. CASE Return(c)
  BY <1>0, <1>1, ReturnKeeps
<1>2. ASSUME Goto(c, "owner"), NEW t, Consumable(calls[c].link, KindOf(calls[c].op), t)
      PROVE  AInv'
  <2>1. /\ MovedTo(c, "owner") /\ calls' \in [Calls -> CallRows]
        /\ \A d \in Calls \ {c} : calls'[d] = calls[d]
    BY <1>0, <1>2, GotoMoves
  <2>2. LiveLink(calls[c].link, KindOf(calls[c].op))
    BY <1>2 DEF Consumable, LiveLink
  <2>3. calls[c].op \in {"reset", "accept"}
    BY <1>0, CallFields, RowTypes DEF CallInv, CallShape, Ops, Idle
  <2>4. CallInv(c)'
    BY <1>0, <2>1, <2>2, <2>3
       DEF MovedTo, CallInv, CallShape, Validated, OldOnes, Checked, InLinkTx,
           Ended, OfUser, LiveSession, LiveLink, UnusedToken, ThereToken
  <2>5. LockRule(c)
    BY <1>0, <2>1, <2>3 DEF LockRule, Holds, MovedTo, Wants
  <2> QED BY <1>0, <2>1, <2>4, <2>5, QuietKeeps
<1> QED BY <1>1, <1>2 DEF Consume

LEMMA OwnerKeeps ==
    ASSUME AInv, NEW c \in Calls, Owner(c)
    PROVE  AInv'
<1> DEFINE u == tokens[calls[c].link].user
           p == IF calls[c].op = "accept" THEN "activate" ELSE "signout"
           k == [calls[c] EXCEPT !.user = u, !.at = 0, !.pc = p]
<1>0. /\ TypeOK /\ calls[c].pc = "owner" /\ CallInv(c) /\ calls[c] \in CallRows
      /\ UNCHANGED <<now, tables>>
      /\ users' = users /\ sessions' = sessions /\ tokens' = tokens
  BY RowTypes DEF AInv, Owner, At, tables
<1>1. CASE Return(c)
  BY <1>0, <1>1, ReturnKeeps
<1>2. CASE /\ users[u].status = (IF calls[c].op = "accept" THEN "INVITED" ELSE "ACTIVE")
           /\ calls' = [calls EXCEPT ![c].user = u, ![c].at = 0, ![c].pc = p]
  <2>1. calls[c].op \in {"reset", "accept"} /\ InLinkTx(calls[c])
    BY <1>0, CallFields DEF CallInv, CallShape, Ops, Idle, InLinkTx
  <2>2. LiveLink(calls[c].link, KindOf(calls[c].op)) /\ calls[c].link \in Links
    BY <1>0, <2>1 DEF CallInv, CallShape, Checked
  <2>3. u \in Users
    BY <1>0, <2>2, TokenStates DEF LiveLink, ThereToken
  <2>4. /\ k \in CallRows /\ k.pc = p /\ k.user = u /\ k.op = calls[c].op
        /\ k.link = calls[c].link /\ k.sess = calls[c].sess /\ k.pwd = calls[c].pwd
        /\ k.doomed = calls[c].doomed /\ k.old = calls[c].old
    BY <1>0, <2>3 DEF CallRows, Pcs
  <2>5. calls' = [calls EXCEPT ![c] = k]
    BY <1>2 DEF AInv, TypeOK
  <2> HIDE DEF k
  <2>6. /\ calls'[c] = k /\ calls' \in [Calls -> CallRows]
        /\ \A d \in Calls \ {c} : calls'[d] = calls[d]
    BY <1>0, <2>4, <2>5, OneCall
  <2>7. CallInv(c)'
    <3>1. CallShape(c)' /\ Validated(c)'
      BY <1>0, <2>1, <2>3, <2>4, <2>6 DEF CallInv, CallShape, Validated
    <3>2. OldOnes(c)'
      BY <1>0, <2>1, <2>2, <2>4, <2>6
         DEF CallInv, OldOnes, Ended, OfUser, LiveSession, LiveLink, ThereToken
    <3>3. /\ tokens'[k.link].state = "live" /\ tokens'[k.link].type = KindOf(k.op)
          /\ tokens'[k.link].user = k.user
      BY <1>0, <2>2, <2>4 DEF LiveLink
    <3>4. users'[k.user].status = (IF k.op = "accept" THEN "INVITED" ELSE "ACTIVE")
      BY <1>0, <1>2, <2>4
    <3>5. k.pc = IF k.op = "accept" THEN "activate" ELSE "signout"
      BY <2>4
    <3>6. Checked(c)'
      BY <2>1, <2>4, <2>6, <3>3, <3>4, <3>5 DEF Checked, InLinkTx, LiveLink, Joined
    <3> QED BY <3>1, <3>2, <3>6 DEF CallInv
  <2>8. LockRule(c)
    BY <1>0, <2>1, <2>4, <2>6 DEF LockRule, Holds, InLinkTx
  <2> QED BY <1>0, <2>6, <2>7, <2>8, QuietKeeps
<1> QED BY <1>1, <1>2 DEF Owner

LEMMA SignOutResetKeeps ==
    ASSUME AInv, NEW c \in Calls, SignOutReset(c)
    PROVE  AInv'
<1> USE NoneAssumption
<1> DEFINE k == [calls[c] EXCEPT !.pc = "setpwd", !.at = 0, !.doomed = SignedOut(c)]
<1>0. /\ TypeOK /\ calls[c].pc = "signout" /\ calls[c].op = "reset"
      /\ CallInv(c) /\ calls[c] \in CallRows
      /\ UNCHANGED <<now, tables>> /\ \A d \in Calls : ~WaitsFor(c, d)
      /\ users' = users /\ sessions' = sessions /\ tokens' = tokens
  BY RowTypes DEF AInv, SignOutReset, At, tables
<1>1. SignedOut(c) \subseteq Sids
  BY DEF SignedOut, SessionsOf
<1>2. /\ k \in CallRows /\ k.pc = "setpwd" /\ k.user = calls[c].user /\ k.op = "reset"
      /\ k.link = calls[c].link /\ k.sess = calls[c].sess /\ k.pwd = calls[c].pwd
      /\ k.doomed = SignedOut(c) /\ k.old = calls[c].old
  BY <1>0, <1>1 DEF CallRows, Pcs
<1>3. calls' = [calls EXCEPT ![c] = k]
  BY DEF SignOutReset, AInv, TypeOK
<1> HIDE DEF k
<1>4. /\ calls'[c] = k /\ calls' \in [Calls -> CallRows]
      /\ \A d \in Calls \ {c} : calls'[d] = calls[d]
  BY <1>0, <1>2, <1>3, OneCall
<1>5. \A s \in calls[c].old : Ended(s) \/ s \in SignedOut(c)
  <2>1. calls[c].sess = None /\ calls[c].old \subseteq Sids
    BY <1>0, CallFields DEF CallInv, CallShape
  <2> QED BY <1>0, <2>1 DEF CallInv, OldOnes, OfUser, SignedOut, SessionsOf
<1>6. CallInv(c)'
  <2>1. CallShape(c)' /\ Validated(c)'
    BY <1>0, <1>2, <1>4 DEF CallInv, CallShape, Validated
  <2>2. OldOnes(c)'
    <3>1. \A s \in SignedOut(c) : s \in Sids /\ ~UnusedSid(s)
      BY DEF SignedOut, SessionsOf, LiveSession, UnusedSid
    <3> QED BY <1>0, <1>2, <1>4, <1>5, <3>1 DEF OldOnes, Ended, UnusedSid
  <2>3. Checked(c)'
    BY <1>0, <1>2, <1>4 DEF CallInv, Checked, InLinkTx, LiveLink
  <2> QED BY <2>1, <2>2, <2>3 DEF CallInv
<1>7. LockRule(c)
  <2>1. Wants(c) = SignedOut(c)
    BY <1>0 DEF Wants
  <2> QED BY <1>0, <1>2, <1>4, <2>1 DEF LockRule, Holds
<1> QED BY <1>0, <1>4, <1>6, <1>7, QuietKeeps

LEMMA FindInviteKeeps ==
    ASSUME AInv, NEW c \in Calls, FindInvite(c)
    PROVE  AInv'
<1> DEFINE status == users[calls[c].user].status
           k == [calls[c] EXCEPT !.pc = "details", !.at = 0, !.sess = None,
                                 !.admin = FALSE, !.found = (status = "INVITED")]
<1>0. /\ TypeOK /\ calls[c].pc = "find" /\ calls[c].op = "invite"
      /\ CallInv(c) /\ calls[c] \in CallRows /\ UNCHANGED <<now, tables>>
      /\ users' = users /\ sessions' = sessions /\ tokens' = tokens
  BY RowTypes DEF AInv, FindInvite, At, tables
<1>1. CASE Return(c)
  BY <1>0, <1>1, ReturnKeeps
<1>2. CASE calls' = [calls EXCEPT ![c] = k]
  <2> DEFINE found == status = "INVITED"
  <2>0. found \in BOOLEAN
    OBVIOUS
  <2>1. /\ k \in CallRows /\ k.pc = "details" /\ k.user = calls[c].user /\ k.op = "invite"
        /\ k.link = calls[c].link /\ k.pwd = calls[c].pwd
        /\ k.doomed = calls[c].doomed /\ k.old = calls[c].old
        /\ k.found => status = "INVITED"
    <3> HIDE DEF found
    <3>1. k = [calls[c] EXCEPT !.pc = "details", !.at = 0, !.sess = None,
                               !.admin = FALSE, !.found = found]
      BY DEF found
    <3>2. k.found = found
      BY <1>0, <3>1 DEF CallRows
    <3> QED BY <1>0, <2>0, <3>1, <3>2 DEF CallRows, Pcs, found
  <2> HIDE DEF k
  <2>2. /\ calls'[c] = k /\ calls' \in [Calls -> CallRows]
        /\ \A d \in Calls \ {c} : calls'[d] = calls[d]
    BY <1>0, <1>2, <2>1, OneCall
  <2>3. CallInv(c)'
    BY <1>0, <2>1, <2>2 DEF CallInv, CallShape, Validated, OldOnes, Checked, InLinkTx
  <2>4. LockRule(c)
    BY <1>0, <2>1, <2>2 DEF LockRule, Holds
  <2> QED BY <1>0, <2>2, <2>3, <2>4, QuietKeeps
<1> QED BY <1>1, <1>2 DEF FindInvite

LEMMA DetailsKeeps ==
    ASSUME AInv, NEW c \in Calls, Details(c)
    PROVE  AInv'
<1>0. /\ TypeOK /\ calls[c].pc = "details" /\ CallInv(c) /\ UNCHANGED <<now, tables>>
      /\ calls[c] \in CallRows
      /\ users' = users /\ sessions' = sessions /\ tokens' = tokens
      /\ "cancel" \in Pcs /\ \A d \in Calls : ~WaitsFor(c, d)
  BY RowTypes DEF AInv, Details, At, tables, Pcs
<1>1. CASE Return(c)
  BY <1>0, <1>1, ReturnKeeps
<1>2. CASE /\ calls[c].found \/ users[calls[c].user].status = "NONE"
           /\ Goto(c, "cancel")
  <2>0. calls[c].op = "invite"
    BY <1>0, CallFields DEF CallInv, CallShape, Ops, Idle
  <2>1. /\ MovedTo(c, "cancel") /\ calls' \in [Calls -> CallRows]
        /\ \A d \in Calls \ {c} : calls'[d] = calls[d]
    BY <1>0, <1>2, GotoMoves
  <2>2. CallInv(c)'
    BY <1>0, <1>2, <2>0, <2>1
       DEF MovedTo, CallInv, CallShape, Validated, OldOnes, Checked, InLinkTx
  <2>3. LockRule(c)
    BY <1>0, <2>0, <2>1 DEF LockRule, Holds, MovedTo, Wants
  <2> QED BY <1>0, <2>1, <2>2, <2>3, QuietKeeps
<1> QED BY <1>1, <1>2 DEF Details

-----------------------------------------------------------------------------
(* Sessions.                                                                *)

LEMMA UsersStay ==
    ASSUME AInv, users' = users
    PROVE  /\ users' \in [Users -> UserRows]
           /\ \A u \in Users : UserRule(u) /\ UserShape(u)'
  BY DEF AInv, TypeOK, UserRule, UserShape

LEMMA TokensStay ==
    ASSUME AInv, tokens' = tokens
    PROVE  /\ tokens' \in [Links -> TokenRows] /\ OneLiveLink'
           /\ \A l \in Links : TokenRule(l)
  BY DEF AInv, TypeOK, TokenRule, OneLiveLink, LiveLink

LEMMA SessionsStay ==
    ASSUME AInv, sessions' = sessions
    PROVE  /\ sessions' \in [Sids -> SessionRows] /\ EndsInTime'
           /\ \A s \in Sids : SessionRule(s)
  BY DEF AInv, TypeOK, SessionRule, EndsInTime, LiveSession

\* Sessions that are deleted.
LEMMA DeleteSessions ==
    ASSUME AInv, NEW S, \A s \in S : s \in Sids => ~UnusedSid(s),
           sessions' = Delete(sessions, S)
    PROVE  /\ sessions' \in [Sids -> SessionRows] /\ EndsInTime'
           /\ \A s \in Sids : SessionRule(s)
           /\ \A s \in Sids : s \in S => Ended(s)'
<1>0. DOMAIN sessions = Sids /\ sessions \in [Sids -> SessionRows] /\ Gone \in SessionRows
  BY DEF AInv, TypeOK, SessionRows
<1>1. \A s \in Sids : sessions'[s] = IF s \in S THEN Gone ELSE sessions[s]
  BY <1>0 DEF Delete
<1>2. sessions' \in [Sids -> SessionRows]
  BY <1>0 DEF Delete
<1>3. \A s \in Sids : SessionRule(s)
  BY <1>1 DEF SessionRule
<1>4. EndsInTime'
  BY <1>1 DEF AInv, EndsInTime, LiveSession, Gone
<1>5. \A s \in Sids : s \in S => Ended(s)'
  BY <1>1 DEF Ended, Gone
<1> QED BY <1>2, <1>3, <1>4, <1>5

\* A statement that writes sessions only.
LEMMA SessionsKeep ==
    ASSUME AInv, NEW c \in Calls, UNCHANGED <<now, users, tokens>>,
           sessions' \in [Sids -> SessionRows], EndsInTime', \A s \in Sids : SessionRule(s),
           calls' \in [Calls -> CallRows], \A d \in Calls \ {c} : calls'[d] = calls[d],
           LockRule(c), CallInv(c)'
    PROVE  AInv'
<1>1. TypeOK' /\ RowRules /\ OneLiveLink' /\ \A u \in Users : UserShape(u)'
  BY UsersStay, TokensStay DEF AInv, TypeOK, RowRules
<1>2. \A d \in Calls : KeptFor(d)
  BY DEF KeptFor, UnusedToken, LiveLink
<1> QED BY <1>1, <1>2, StepOfOne

LEMMA ExpireKeeps ==
    ASSUME AInv, NEW c \in Calls, Expire(c)
    PROVE  AInv'
<1>1. /\ TypeOK /\ calls[c].pc = "expire" /\ CallInv(c) /\ UNCHANGED <<now, users, tokens>>
      /\ Return(c) /\ sessions' = Delete(sessions, {calls[c].sess})
  BY DEF AInv, Expire, At
<1>2. ~UnusedSid(calls[c].sess)
  BY <1>1 DEF CallInv, Validated
<1> QED BY <1>1, <1>2, DeleteSessions, IdleIsFine, SessionsKeep

LEMMA PurgeKeeps ==
    ASSUME AInv, NEW c \in Calls, Purge(c)
    PROVE  AInv'
<1>1. /\ TypeOK /\ calls[c].pc = "purge" /\ CallInv(c) /\ UNCHANGED <<now, users, tokens>>
      /\ sessions' = Delete(sessions, Expired(calls[c].user)) /\ "open" \in Pcs
      /\ calls[c] \in CallRows
  BY RowTypes DEF AInv, Purge, At, Pcs
<1>2. \A s \in Expired(calls[c].user) : ~UnusedSid(s)
  BY DEF Expired, SessionsOf, LiveSession, UnusedSid
<1>3. /\ MovedTo(c, "open") /\ calls' \in [Calls -> CallRows]
      /\ \A d \in Calls \ {c} : calls'[d] = calls[d]
  BY <1>1, GotoMoves DEF Purge
<1>4. calls[c].op = "login"
  BY <1>1, CallFields DEF CallInv, CallShape, Ops, Idle
<1>5. CallInv(c)'
  BY <1>1, <1>3, <1>4 DEF MovedTo, CallInv, CallShape, Validated, OldOnes, Checked, InLinkTx
<1>6. LockRule(c)
  BY <1>1, <1>3, <1>4 DEF LockRule, Holds, MovedTo
<1> QED BY <1>1, <1>2, <1>3, <1>5, <1>6, DeleteSessions, SessionsKeep

\* The idle expiry lies within both limits.
LEMMA IdleExpiry ==
    ASSUME NEW t \in Nat, NEW created \in Nat
    PROVE  /\ idleExpiry(t, created) \in Nat
           /\ idleExpiry(t, created) <= created + Absolute
           /\ idleExpiry(t, created) <= t + IdleTTL
  BY TtlAssumption DEF idleExpiry

LEMMA OpenKeeps ==
    ASSUME AInv, NEW c \in Calls, Open(c)
    PROVE  AInv'
<1>1. /\ TypeOK /\ calls[c].pc = "open" /\ CallInv(c) /\ UNCHANGED <<now, users, tokens>>
      /\ Return(c) /\ now \in Nat /\ calls[c].user \in Users
  BY DEF AInv, TypeOK, Open, At, CallInv, CallShape
<1> DEFINE row == [state |-> "live", user |-> calls[c].user, created |-> now,
                   lastUsed |-> now, expires |-> idleExpiry(now, now)]
<1>2. PICK s \in FreshSids : sessions' = [sessions EXCEPT ![s] = row]
  BY DEF Open
<1>3. s \in Sids /\ UnusedSid(s)
  BY DEF FreshSids
<1>4. /\ row \in SessionRows /\ row.state = "live" /\ row.created = now
      /\ row.lastUsed = now /\ row.expires = idleExpiry(now, now)
  BY <1>1, IdleExpiry DEF SessionRows
<1> HIDE DEF row
<1>5. /\ sessions' \in [Sids -> SessionRows] /\ sessions'[s] = row
      /\ \A x \in Sids \ {s} : sessions'[x] = sessions[x]
  BY <1>1, <1>2, <1>3, <1>4 DEF TypeOK
<1>6. \A x \in Sids : SessionRule(x)
  BY <1>3, <1>4, <1>5 DEF SessionRule, LiveSession
<1>7. now < now + Absolute
  BY <1>1, TtlAssumption
<1>8. EndsInTime'
  BY <1>1, <1>4, <1>5, <1>7, IdleExpiry DEF AInv, EndsInTime, LiveSession
<1> QED BY <1>1, <1>5, <1>6, <1>8, IdleIsFine, SessionsKeep

LEMMA RenewSessionKeeps ==
    ASSUME AInv, NEW c \in Calls, RenewSession(c)
    PROVE  AInv'
<1> DEFINE s == calls[c].sess
           t == calls[c].at
           end == idleExpiry(t, sessions[s].created)
           row == [sessions[s] EXCEPT !.lastUsed = t, !.expires = end]
<1>1. /\ TypeOK /\ calls[c].pc = "renew" /\ CallInv(c) /\ UNCHANGED <<now, users, tokens>>
      /\ calls[c] \in CallRows /\ t \in Nat /\ s \in Sids /\ "find" \in Pcs
  BY RowTypes, CallFields DEF AInv, RenewSession, At, CallInv, CallShape, Pcs
<1>2. CASE ~LiveSession(s)
  <2>1. Return(c) /\ sessions' = sessions
    BY <1>2 DEF RenewSession, Renewable
  <2> QED BY <1>1, <2>1, ReturnKeeps DEF tables
<1>3. CASE LiveSession(s)
  <2>1. sessions' = [sessions EXCEPT ![s] = row]
    BY <1>3 DEF RenewSession, Renewable
  <2>2. /\ sessions[s] \in [state : {"live"}, user : Users, created : Nat,
                            lastUsed : Nat, expires : Nat]
        /\ sessions[s].created \in Nat
    BY <1>1, <1>3, SessionStates
  <2>3. end \in Nat /\ end <= sessions[s].created + Absolute /\ end <= t + IdleTTL
    BY <1>1, <2>2, IdleExpiry
  <2> HIDE DEF end
  <2>4. /\ row \in SessionRows /\ row.state = "live" /\ row.user = sessions[s].user
        /\ row.created = sessions[s].created /\ row.lastUsed = t /\ row.expires = end
    BY <1>1, <2>2, <2>3 DEF SessionRows
  <2>5. t < sessions[s].created + Absolute
    BY <1>1, <1>3 DEF CallInv, Validated
  <2> HIDE DEF row, t
  <2>6. /\ sessions' \in [Sids -> SessionRows] /\ sessions'[s] = row
        /\ \A x \in Sids \ {s} : sessions'[x] = sessions[x]
    BY <1>1, <2>1, <2>4 DEF TypeOK
  <2>7. \A x \in Sids : SessionRule(x)
    BY <1>3, <2>4, <2>6 DEF SessionRule, LiveSession
  <2>8. EndsInTime'
    BY <2>3, <2>4, <2>5, <2>6 DEF AInv, EndsInTime, LiveSession
  <2>9. CASE Return(c)
    BY <1>1, <2>6, <2>7, <2>8, <2>9, IdleIsFine, SessionsKeep
  <2>10. CASE Goto(c, "find") /\ calls[c].op # "work"
    <3>1. /\ MovedTo(c, "find") /\ calls' \in [Calls -> CallRows]
          /\ \A d \in Calls \ {c} : calls'[d] = calls[d]
      BY <1>1, <2>10, GotoMoves
    <3>2. calls[c].op \in {"change", "invite"}
      BY <1>1, <2>10, CallFields DEF CallInv, CallShape, Ops, Idle
    <3>3. \A x \in Sids, u \in Users : Ended(x) \/ OfUser(x, u) => (Ended(x) \/ OfUser(x, u))'
      BY <2>7 DEF SessionRule, Ended, OfUser, LiveSession, UnusedSid, Gone
    <3>4. calls[c].old \subseteq Sids
      BY <1>1, CallFields
    <3>5. CallInv(c)'
      BY <1>1, <3>1, <3>2, <3>3, <3>4
         DEF MovedTo, CallInv, CallShape, Validated, OldOnes, Checked, InLinkTx
    <3>6. LockRule(c)
      BY <1>1, <3>1, <3>2 DEF LockRule, Holds, MovedTo
    <3> QED BY <1>1, <2>6, <2>7, <2>8, <3>1, <3>5, <3>6, SessionsKeep
  <2> QED BY <1>3, <2>9, <2>10 DEF RenewSession, Renewable
<1> QED BY <1>2, <1>3

-----------------------------------------------------------------------------
(* Commits.                                                                 *)

\* Rows a call holds, or may take now, are held by nobody else.
LEMMA NotHeld ==
    ASSUME AInv, NEW c \in Calls, NEW d \in Calls \ {c}, NEW x,
           \/ x \in Holds(c)
           \/ x \in Wants(c) /\ \A e \in Calls : ~WaitsFor(c, e)
    PROVE  x \notin Holds(d)
  BY DEF AInv, LocksExclusive, WaitsFor

LEMMA CommitChangeKeeps ==
    ASSUME AInv, NEW c \in Calls, CommitChange(c)
    PROVE  AInv'
<1> DEFINE u == calls[c].user
<1>1. /\ TypeOK /\ calls[c].pc = "signout" /\ calls[c].op = "change" /\ CallInv(c)
      /\ UNCHANGED <<now, tokens>> /\ Return(c)
      /\ users' = [users EXCEPT ![u].pwd = calls[c].pwd]
      /\ sessions' = Delete(sessions, SignedOut(c))
      /\ users \in [Users -> UserRows]
  BY DEF AInv, TypeOK, CommitChange, At
<1>2. u \in Users /\ calls[c].pwd \in Passwords /\ users[u].status \in Joined
  BY <1>1 DEF CallInv, CallShape, Checked
<1>3. \A s \in SignedOut(c) : ~UnusedSid(s)
  BY DEF SignedOut, SessionsOf, LiveSession, UnusedSid
<1>4. /\ sessions' \in [Sids -> SessionRows] /\ EndsInTime' /\ \A s \in Sids : SessionRule(s)
  BY <1>1, <1>3, DeleteSessions
<1>5. /\ users' \in [Users -> UserRows] /\ \A x \in Users : users'[x].status = users[x].status
      /\ users'[u].pwd = calls[c].pwd /\ \A x \in Users \ {u} : users'[x] = users[x]
  BY <1>1, <1>2 DEF UserRows
<1>6. \A x \in Users : UserRule(x) /\ UserShape(x)'
  BY <1>2, <1>5, NoneAssumption DEF UserRule, UserShape, AInv
<1>7. TypeOK' /\ RowRules /\ OneLiveLink'
  BY <1>1, <1>4, <1>5, <1>6, TokensStay, IdleIsFine DEF RowRules, TypeOK
<1>8. \A d \in Calls : KeptFor(d)
  BY <1>1, <1>5 DEF KeptFor, UnusedToken, LiveLink
<1> QED BY <1>1, <1>4, <1>6, <1>7, <1>8, IdleIsFine, StepOfOne

\* A link that is used up stays its owner's and its kind's.
LEMMA UseLink ==
    ASSUME AInv, NEW l \in Links, tokens[l].state = "live",
           tokens' = [tokens EXCEPT ![l].state = "used"]
    PROVE  /\ tokens' \in [Links -> TokenRows] /\ OneLiveLink'
           /\ \A k \in Links : TokenRule(k)
           /\ tokens'[l].state = "used" /\ tokens'[l].user = tokens[l].user
           /\ tokens'[l].type = tokens[l].type
           /\ \A k \in Links \ {l} : tokens'[k] = tokens[k]
<1>1. /\ tokens[l] \in [state : {"live", "used"}, user : Users, type : Kinds, expires : Nat]
      /\ tokens \in [Links -> TokenRows]
  BY TokenStates DEF AInv, TypeOK, ThereToken
<1> DEFINE row == [tokens[l] EXCEPT !.state = "used"]
<1>2. /\ row \in TokenRows /\ row.state = "used" /\ row.user = tokens[l].user
      /\ row.type = tokens[l].type
  BY <1>1 DEF TokenRows
<1>3. tokens' = [tokens EXCEPT ![l] = row]
  OBVIOUS
<1> HIDE DEF row
<1>4. /\ tokens' \in [Links -> TokenRows] /\ tokens'[l] = row
      /\ \A k \in Links \ {l} : tokens'[k] = tokens[k]
  BY <1>1, <1>2, <1>3
<1>5. \A k \in Links : TokenRule(k)
  BY <1>2, <1>4 DEF TokenRule
<1>6. OneLiveLink'
  BY <1>2, <1>4 DEF AInv, OneLiveLink, LiveLink
<1> QED BY <1>2, <1>4, <1>5, <1>6

LEMMA CommitResetKeeps ==
    ASSUME AInv, NEW c \in Calls, CommitReset(c)
    PROVE  AInv'
<1> DEFINE u == calls[c].user  l == calls[c].link
<1>1. /\ TypeOK /\ calls[c].pc = "setpwd" /\ calls[c].op = "reset" /\ CallInv(c)
      /\ now' = now /\ Return(c) /\ calls[c] \in CallRows
      /\ users' = [users EXCEPT ![u].pwd = calls[c].pwd]
      /\ sessions' = Delete(sessions, calls[c].doomed)
      /\ tokens' = [tokens EXCEPT ![l].state = "used"]
      /\ users \in [Users -> UserRows] /\ \A d \in Calls : ~WaitsFor(c, d)
  BY RowTypes DEF AInv, TypeOK, CommitReset, At
<1>2. /\ u \in Users /\ calls[c].pwd \in Passwords /\ users[u].status \in Joined
      /\ l \in Links /\ tokens[l].state = "live" /\ l \in Holds(c)
  BY <1>1 DEF CallInv, CallShape, Checked, InLinkTx, LiveLink, Holds
<1>3. \A s \in calls[c].doomed : s \in Sids => ~UnusedSid(s)
  BY <1>1 DEF CallInv, OldOnes
<1>4. /\ sessions' \in [Sids -> SessionRows] /\ EndsInTime' /\ \A s \in Sids : SessionRule(s)
  BY <1>1, <1>3, DeleteSessions
<1>5. /\ users' \in [Users -> UserRows] /\ \A x \in Users : users'[x].status = users[x].status
      /\ users'[u].pwd = calls[c].pwd /\ \A x \in Users \ {u} : users'[x] = users[x]
  BY <1>1, <1>2 DEF UserRows
<1>6. \A x \in Users : UserRule(x) /\ UserShape(x)'
  BY <1>2, <1>5, NoneAssumption DEF UserRule, UserShape, AInv
<1>7. /\ tokens' \in [Links -> TokenRows] /\ OneLiveLink' /\ \A k \in Links : TokenRule(k)
      /\ tokens'[l].state = "used" /\ \A k \in Links \ {l} : tokens'[k] = tokens[k]
  BY <1>1, <1>2, UseLink
<1>8. TypeOK' /\ RowRules
  BY <1>1, <1>4, <1>5, <1>6, <1>7, IdleIsFine DEF RowRules, TypeOK
<1>9. \A d \in Calls \ {c} : KeptFor(d)
  BY <1>2, <1>5, <1>7, NotHeld DEF KeptFor, UnusedToken, LiveLink
<1> QED BY <1>1, <1>4, <1>6, <1>7, <1>8, <1>9, IdleIsFine, StepOfOne

LEMMA ActivateKeeps ==
    ASSUME AInv, NEW c \in Calls, Activate(c)
    PROVE  AInv'
<1> DEFINE u == calls[c].user  l == calls[c].link
           row == [users[u] EXCEPT !.status = "ACTIVE", !.pwd = calls[c].pwd]
           k == [Idle EXCEPT !.pc = "open", !.op = "accept", !.user = u]
<1>1. /\ TypeOK /\ calls[c].pc = "activate" /\ CallInv(c) /\ calls[c] \in CallRows
      /\ UNCHANGED <<now, sessions>>
      /\ users' = [users EXCEPT ![u] = row]
      /\ tokens' = [tokens EXCEPT ![l].state = "used"]
      /\ calls' = [calls EXCEPT ![c] = k]
      /\ users \in [Users -> UserRows] /\ \A d \in Calls : ~WaitsFor(c, d)
  BY RowTypes DEF AInv, TypeOK, Activate, At
<1>2. calls[c].op = "accept"
  BY <1>1, CallFields DEF CallInv, CallShape, Ops, Idle
<1>3. /\ u \in Users /\ calls[c].pwd \in Passwords /\ users[u].status = "INVITED"
      /\ l \in Links /\ LiveLink(l, "INVITATION") /\ tokens[l].user = u
      /\ l \in Holds(c) /\ u \in Wants(c)
  BY <1>1, <1>2 DEF CallInv, CallShape, Checked, InLinkTx, Holds, Wants, KindOf
<1>4. row \in UserRows /\ row.status = "ACTIVE" /\ row.pwd = calls[c].pwd
  BY <1>1, <1>3 DEF UserRows, Statuses
<1>5. /\ k \in CallRows /\ k.pc = "open" /\ k.op = "accept" /\ k.user = u
      /\ k.doomed = {} /\ ~k.found
  BY <1>3 DEF Idle, CallRows, Pcs, Ops, Roles
<1> HIDE DEF row, k
<1>6. /\ users' \in [Users -> UserRows] /\ users'[u] = row
      /\ \A x \in Users \ {u} : users'[x] = users[x]
  BY <1>1, <1>3, <1>4
<1>7. /\ tokens' \in [Links -> TokenRows] /\ OneLiveLink' /\ \A x \in Links : TokenRule(x)
      /\ tokens'[l].state = "used" /\ \A x \in Links \ {l} : tokens'[x] = tokens[x]
  BY <1>1, <1>3, UseLink DEF LiveLink
<1>8. /\ calls'[c] = k /\ calls' \in [Calls -> CallRows]
      /\ \A d \in Calls \ {c} : calls'[d] = calls[d]
  BY <1>1, <1>5, OneCall
<1>9. ASSUME NEW x \in Users PROVE UserRule(x) /\ UserShape(x)'
  <2>1. CASE x = u
    <3>1. UserRule(x)
      BY <1>3, <1>4, <1>6, <1>7, <2>1 DEF UserRule, LiveLink
    <3>2. UserShape(x)'
      BY <1>3, <1>4, <1>6, <2>1, NoneAssumption DEF UserShape, Joined
    <3> QED BY <3>1, <3>2
  <2>2. CASE x # u
    BY <1>6, <2>2 DEF UserRule, UserShape, AInv
  <2> QED BY <2>1, <2>2
<1>10. TypeOK' /\ RowRules /\ EndsInTime'
  BY <1>1, <1>6, <1>7, <1>8, <1>9, SessionsStay DEF RowRules, TypeOK
<1>11. \A d \in Calls \ {c} : KeptFor(d)
  BY <1>1, <1>3, <1>6, <1>7, NotHeld DEF KeptFor, UnusedToken, LiveLink
<1>12. CallInv(c)'
  BY <1>3, <1>5, <1>8 DEF CallInv, CallShape, Validated, OldOnes, Checked, InLinkTx
<1>13. LockRule(c)
  BY <1>5, <1>8 DEF LockRule, Holds
<1> QED BY <1>7, <1>8, <1>9, <1>10, <1>11, <1>12, <1>13, StepOfOne

-----------------------------------------------------------------------------
(* Links.                                                                   *)

\* A statement that writes tokens only, and creates no invitation.
LEMMA TokensKeep ==
    ASSUME AInv, NEW c \in Calls, UNCHANGED <<now, users, sessions>>,
           tokens' \in [Links -> TokenRows], \A l \in Links : TokenRule(l),
           \A l \in Links : UnusedToken(l) => ~LiveLink(l, "INVITATION")',
           \A l \in Links, d \in Calls \ {c} :
               ~UnusedToken(l) /\ tokens'[l] # tokens[l] => l \notin Holds(d),
           calls' \in [Calls -> CallRows], \A d \in Calls \ {c} : calls'[d] = calls[d],
           LockRule(c), CallInv(c)'
    PROVE  AInv'
<1>1. TypeOK' /\ RowRules /\ EndsInTime' /\ \A u \in Users : UserShape(u)'
  BY UsersStay, SessionsStay DEF AInv, TypeOK, RowRules
<1>2. \A l \in Links : LiveLink(l, "INVITATION")' => tokens'[l] = tokens[l]
  BY DEF TokenRule, LiveLink, Gone
<1>3. OneLiveLink'
  BY <1>2 DEF AInv, OneLiveLink, LiveLink
<1>4. \A d \in Calls \ {c} : KeptFor(d)
  BY DEF KeptFor
<1> QED BY <1>1, <1>3, <1>4, StepOfOne

LEMMA CancelKeeps ==
    ASSUME AInv, NEW c \in Calls, Cancel(c)
    PROVE  AInv'
<1> DEFINE mine == TokensOf(calls[c].user, KindOf(calls[c].op))
           inTx == calls[c].op = "invite"
           doomed == IF inTx THEN mine ELSE {}
           k == [calls[c] EXCEPT !.pc = "issue", !.at = now, !.doomed = doomed]
<1>1. /\ TypeOK /\ calls[c].pc = "cancel" /\ CallInv(c) /\ calls[c] \in CallRows
      /\ UNCHANGED <<now, users, sessions>> /\ now \in Nat
      /\ \A d \in Calls : ~WaitsFor(c, d)
      /\ tokens' = IF inTx THEN tokens ELSE Delete(tokens, mine)
      /\ tokens \in [Links -> TokenRows]
  BY RowTypes DEF AInv, TypeOK, Cancel, At
<1>2. calls[c].op \in {"invite", "forgot"}
  BY <1>1, CallFields DEF CallInv, CallShape, Ops, Idle
<1>3. mine \subseteq Links /\ \A l \in mine : ThereToken(l)
  BY DEF TokensOf
<1>4. Wants(c) = mine
  BY <1>1, <1>2 DEF Wants, KindOf
<1> HIDE DEF mine
<1>5. /\ k \in CallRows /\ k.pc = "issue" /\ k.op = calls[c].op /\ k.user = calls[c].user
      /\ k.found = calls[c].found /\ k.doomed = doomed
  BY <1>1, <1>3 DEF CallRows, Pcs
<1>6. calls' = [calls EXCEPT ![c] = k]
  BY DEF Cancel, AInv, TypeOK, mine
<1> HIDE DEF k
<1>7. /\ calls'[c] = k /\ calls' \in [Calls -> CallRows]
      /\ \A d \in Calls \ {c} : calls'[d] = calls[d]
  BY <1>1, <1>5, <1>6, OneCall
<1>8. LockRule(c)
  <2>1. Holds(c)' \subseteq Holds(c) \cup doomed
    BY <1>1, <1>2, <1>5, <1>7 DEF Holds
  <2> QED BY <1>1, <1>4, <2>1 DEF LockRule
<1>9. CASE inTx
  <2>1. \A l \in Links : LiveLink(l, "INVITATION") /\ tokens[l].user = calls[c].user => l \in mine
    BY <1>9 DEF mine, TokensOf, LiveLink, ThereToken, KindOf
  <2>2. tokens' = tokens
    BY <1>1, <1>9
  <2>3. CallInv(c)'
    BY <1>1, <1>3, <1>5, <1>7, <1>9, <2>1, <2>2
       DEF CallInv, CallShape, Validated, OldOnes, Checked, InLinkTx, LiveLink, ThereToken
  <2> QED BY <1>1, <1>7, <1>8, <2>2, <2>3, QuietKeeps DEF tables
<1>10. CASE calls[c].op = "forgot"
  <2>1. tokens' = Delete(tokens, mine)
    BY <1>1, <1>10
  <2>2. \A l \in Links : tokens'[l] = IF l \in mine THEN Gone ELSE tokens[l]
    BY <1>1, <2>1 DEF Delete
  <2>3. tokens' \in [Links -> TokenRows]
    BY <1>1, <2>1 DEF Delete, TokenRows
  <2>4. /\ \A l \in Links : TokenRule(l)
        /\ \A l \in Links : UnusedToken(l) => ~LiveLink(l, "INVITATION")'
    BY <1>3, <2>2 DEF TokenRule, UnusedToken, LiveLink, Gone
  <2>5. \A l \in Links, d \in Calls \ {c} :
           ~UnusedToken(l) /\ tokens'[l] # tokens[l] => l \notin Holds(d)
    BY <1>1, <1>4, <2>2, NotHeld
  <2>6. CallInv(c)'
    BY <1>1, <1>5, <1>7, <1>10
       DEF CallInv, CallShape, Validated, OldOnes, Checked, InLinkTx
  <2> QED BY <1>1, <1>7, <1>8, <2>3, <2>4, <2>5, <2>6, TokensKeep
<1> QED BY <1>2, <1>9, <1>10

LEMMA IssueResetKeeps ==
    ASSUME AInv, NEW c \in Calls, IssueReset(c)
    PROVE  AInv'
<1> DEFINE row == Created(calls[c].user, "PASSWORD_RESET", calls[c].at + ResetTTL)
<1>1. /\ TypeOK /\ calls[c].op = "forgot" /\ CallInv(c) /\ calls[c] \in CallRows
      /\ UNCHANGED <<now, users, sessions>> /\ Return(c) /\ tokens \in [Links -> TokenRows]
  BY RowTypes DEF AInv, TypeOK, IssueReset
<1>2. PICK l \in FreshLinks : tokens' = [tokens EXCEPT ![l] = row]
  BY DEF IssueReset
<1>3. l \in Links /\ UnusedToken(l)
  BY DEF FreshLinks
<1>4. row \in TokenRows /\ row.state = "live" /\ row.type = "PASSWORD_RESET"
  <2>1. calls[c].user \in Users /\ calls[c].at + ResetTTL \in Nat
    BY <1>1, CallFields, TtlAssumption DEF CallInv, CallShape
  <2> QED BY <2>1 DEF Created, TokenRows, Kinds
<1> HIDE DEF row
<1>5. /\ tokens' \in [Links -> TokenRows] /\ tokens'[l] = row
      /\ \A k \in Links \ {l} : tokens'[k] = tokens[k]
  BY <1>1, <1>2, <1>3, <1>4
<1>6. /\ \A k \in Links : TokenRule(k)
      /\ \A k \in Links : UnusedToken(k) => ~LiveLink(k, "INVITATION")'
  BY <1>3, <1>4, <1>5 DEF TokenRule, UnusedToken, LiveLink
<1> QED BY <1>1, <1>3, <1>5, <1>6, IdleIsFine, TokensKeep

LEMMA CommitInviteKeeps ==
    ASSUME AInv, NEW c \in Calls, CommitInvite(c)
    PROVE  AInv'
<1> DEFINE u == calls[c].user
           row == Created(u, "INVITATION", calls[c].at + InviteTTL)
           account == IF calls[c].found THEN [users[u] EXCEPT !.role = calls[c].role]
                      ELSE [status |-> "INVITED", pwd |-> None, role |-> calls[c].role]
<1>1. /\ TypeOK /\ calls[c].op = "invite" /\ calls[c].pc = "issue" /\ CallInv(c)
      /\ calls[c] \in CallRows /\ UNCHANGED <<now, sessions>> /\ Return(c)
      /\ tokens \in [Links -> TokenRows] /\ users \in [Users -> UserRows]
      /\ users' = [users EXCEPT ![u] = account]
  BY RowTypes DEF AInv, TypeOK, CommitInvite, At
<1>2. PICK new \in FreshLinks : tokens' = InviteTokens(c, new)
  BY DEF CommitInvite
<1>3. /\ new \in Links /\ UnusedToken(new) /\ u \in Users /\ calls[c].role \in Roles
      /\ calls[c].at + InviteTTL \in Nat
  BY <1>1, CallFields, TtlAssumption DEF FreshLinks, CallInv, CallShape
<1>4. row \in TokenRows /\ row.state = "live" /\ row.type = "INVITATION" /\ row.user = u
  BY <1>3 DEF Created, TokenRows, Kinds
<1>5. /\ account \in UserRows /\ UserShape(u)
      /\ account.pwd = users[u].pwd
      /\ \/ account.status = users[u].status
         \/ users[u].status = "NONE" /\ account.status = "INVITED"
  <2>0. UserShape(u) /\ users[u] \in UserRows
    BY <1>1, <1>3 DEF AInv
  <2>1. CASE calls[c].found
    BY <1>3, <2>0, <2>1 DEF UserRows
  <2>2. CASE ~calls[c].found
    BY <1>1, <1>3, <2>0, <2>2
       DEF UserRows, Statuses, CallInv, Checked, UserShape, Joined
  <2> QED BY <2>0, <2>1, <2>2
<1>6. /\ tokens'[new] = row
      /\ \A l \in Links \ {new} :
            tokens'[l] = IF l \in calls[c].doomed THEN Gone ELSE tokens[l]
      /\ tokens' \in [Links -> TokenRows]
  BY <1>1, <1>2, <1>3, <1>4 DEF InviteTokens, TokenRows
<1> HIDE DEF row, account
<1>7. /\ users'[u] = account /\ \A x \in Users \ {u} : users'[x] = users[x]
      /\ users' \in [Users -> UserRows]
  BY <1>1, <1>3, <1>5
<1>8. /\ \A l \in Links : LiveLink(l, "INVITATION") /\ tokens[l].user = u => l \in calls[c].doomed
      /\ \A l \in calls[c].doomed : ThereToken(l) /\ l \in Holds(c)
      /\ u \in Holds(c)
  BY <1>1 DEF CallInv, Checked, Holds
<1>9. \A l \in Links : TokenRule(l)
  BY <1>3, <1>4, <1>6, <1>8 DEF TokenRule
<1>10. OneLiveLink'
  <2>1. \A l \in Links \ {new} :
           LiveLink(l, "INVITATION")' => /\ tokens'[l] = tokens[l] /\ tokens[l].user # u
                                         /\ LiveLink(l, "INVITATION")
    BY <1>6, <1>8 DEF LiveLink, Gone
  <2> QED BY <1>4, <1>6, <2>1 DEF AInv, OneLiveLink
<1>11. \A x \in Users : UserRule(x) /\ UserShape(x)'
  BY <1>5, <1>7 DEF UserRule, UserShape, Joined, AInv
<1>12. TypeOK' /\ RowRules /\ EndsInTime'
  BY <1>1, <1>6, <1>7, <1>9, <1>11, SessionsStay, IdleIsFine DEF RowRules, TypeOK
<1>13. ASSUME NEW d \in Calls \ {c} PROVE KeptFor(d)
  <2>1. u \notin Holds(d) /\ \A l \in calls[c].doomed : l \notin Holds(d)
    BY <1>8, NotHeld
  <2>2. \A l \in Links \ {new} : UnusedToken(l) => ~LiveLink(l, "INVITATION")'
    BY <1>6 DEF UnusedToken, LiveLink, Gone
  <2> QED BY <1>3, <1>4, <1>6, <1>7, <2>1, <2>2 DEF KeptFor
<1> QED BY <1>1, <1>10, <1>11, <1>12, <1>13, IdleIsFine, StepOfOne

-----------------------------------------------------------------------------
(* Everything else, and the invariant.                                      *)

\* A write that belongs to no call, to rows that no call holds.
LEMMA StepOfNone ==
    ASSUME AInv, TypeOK', RowRules, EndsInTime', OneLiveLink',
           \A u \in Users : UserShape(u)', UNCHANGED calls,
           \A d \in Calls : KeptFor(d)
    PROVE  AInv'
<1>1. \A d \in Calls : CallInv(d)'
  BY OthersKeep
<1>2. \A d \in Calls : Holds(d)' = Holds(d)
  BY DEF Holds
<1> QED BY <1>1, <1>2 DEF AInv, LocksExclusive

LEMMA LogoutKeeps ==
    ASSUME AInv, NEW s \in Sids, Logout(s)
    PROVE  AInv'
<1>1. /\ UNCHANGED <<now, users, tokens, calls>> /\ ~UnusedSid(s)
      /\ sessions' = Delete(sessions, {s})
  BY DEF Logout, LiveSession, UnusedSid
<1>2. /\ sessions' \in [Sids -> SessionRows] /\ EndsInTime' /\ \A x \in Sids : SessionRule(x)
  BY <1>1, DeleteSessions
<1>3. TypeOK' /\ RowRules /\ OneLiveLink' /\ \A u \in Users : UserShape(u)'
  BY <1>1, <1>2, UsersStay, TokensStay DEF AInv, TypeOK, RowRules
<1>4. \A d \in Calls : KeptFor(d)
  BY <1>1 DEF KeptFor, UnusedToken, LiveLink
<1> QED BY <1>1, <1>2, <1>3, <1>4, StepOfNone

LEMMA DeactivateKeeps ==
    ASSUME AInv, NEW u \in Users, Deactivate(u)
    PROVE  AInv'
<1>1. /\ UNCHANGED <<now, tokens, sessions, calls>> /\ users[u].status = "ACTIVE"
      /\ users' = [users EXCEPT ![u].status = "DEACTIVATED"]
      /\ users \in [Users -> UserRows] /\ \A d \in Calls : u \notin Holds(d)
  BY DEF Deactivate, AInv, TypeOK
<1>2. /\ users' \in [Users -> UserRows] /\ users'[u].status = "DEACTIVATED"
      /\ users'[u].pwd = users[u].pwd /\ \A x \in Users \ {u} : users'[x] = users[x]
  BY <1>1 DEF UserRows, Statuses
<1>3. \A x \in Users : UserRule(x) /\ UserShape(x)'
  BY <1>1, <1>2 DEF UserRule, UserShape, Joined, AInv
<1>4. TypeOK' /\ RowRules /\ OneLiveLink' /\ EndsInTime'
  BY <1>1, <1>2, <1>3, TokensStay, SessionsStay DEF AInv, TypeOK, RowRules
<1>5. \A d \in Calls : KeptFor(d)
  BY <1>1, <1>2 DEF KeptFor, UnusedToken, LiveLink
<1> QED BY <1>1, <1>3, <1>4, <1>5, StepOfNone

LEMMA IdleStepKeeps ==
    ASSUME AInv, Tick \/ UNCHANGED vars
    PROVE  AInv'
<1>1. UNCHANGED <<tables, calls>> /\ now' \in Nat
  BY DEF Tick, vars, tables, AInv, TypeOK
<1>2. TypeOK'
  BY <1>1 DEF AInv, TypeOK, tables
<1> QED BY <1>1, <1>2, SameRows, StepOfNone

LEMMA InitInv == Init => AInv
<1> SUFFICES ASSUME Init PROVE AInv
  OBVIOUS
<1>1. TypeOK
  <2>1. [status |-> "NONE", pwd |-> None, role |-> "MEMBER"] \in UserRows
    BY DEF UserRows, Statuses, Roles
  <2> QED BY <2>1, IdleCall DEF Init, TypeOK, TokenRows, SessionRows
<1>2. \A u \in Users : UserShape(u)
  BY DEF Init, UserShape, Joined
<1>3. OneLiveLink /\ EndsInTime
  BY DEF Init, OneLiveLink, LiveLink, EndsInTime, LiveSession, Unused
<1>4. \A c \in Calls : calls[c] = Idle
  BY DEF Init
<1>5. LocksExclusive
  BY <1>4 DEF LocksExclusive, Holds, Idle
<1>6. ASSUME NEW c \in Calls PROVE CallInv(c)
  <2>1. calls[c] = Idle
    BY <1>4
  <2> QED BY <2>1, NoneAssumption
          DEF CallInv, CallShape, Validated, OldOnes, Checked, Idle, InLinkTx
<1> QED BY <1>1, <1>2, <1>3, <1>5, <1>6 DEF AInv

LEMMA HandleKeeps ==
    ASSUME AInv, NEW c \in Calls, Handle(c)
    PROVE  AInv'
<1>1. CASE Expire(c) \/ RenewSession(c) \/ Purge(c) \/ Open(c)
  BY <1>1, ExpireKeeps, RenewSessionKeeps, PurgeKeeps, OpenKeeps
<1>2. CASE FindChange(c) \/ SetPwdChange(c) \/ CommitChange(c)
  BY <1>2, FindChangeKeeps, SetPwdChangeKeeps, CommitChangeKeeps
<1>3. CASE Consume(c) \/ Owner(c) \/ SignOutReset(c) \/ CommitReset(c) \/ Activate(c)
  BY <1>3, ConsumeKeeps, OwnerKeeps, SignOutResetKeeps, CommitResetKeeps, ActivateKeeps
<1>4. CASE FindInvite(c) \/ Details(c) \/ Cancel(c) \/ IssueReset(c) \/ CommitInvite(c)
  BY <1>4, FindInviteKeeps, DetailsKeeps, CancelKeeps, IssueResetKeeps, CommitInviteKeeps
<1>5. CASE BreakDeadlock(c)
  BY <1>5, ReturnKeeps DEF BreakDeadlock
<1> QED BY <1>1, <1>2, <1>3, <1>4, <1>5 DEF Handle

LEMMA StepKeeps ==
    ASSUME AInv, [Next]_vars
    PROVE  AInv'
<1>1. CASE Tick \/ UNCHANGED vars
  BY <1>1, IdleStepKeeps
<1>2. CASE \E u \in Users : Deactivate(u)
  BY <1>2, DeactivateKeeps
<1>3. CASE \E s \in Sids : Logout(s)
  BY <1>3, LogoutKeeps
<1>4. ASSUME NEW c \in Calls,
             PublicRequest(c) \/ StaffRequest(c) \/ CliInvite(c) \/ Handle(c) \/ Drop(c)
      PROVE  AInv'
  BY <1>4, PublicKeeps, StaffKeeps, CliKeeps, HandleKeeps, ReturnKeeps DEF Drop
<1> QED BY <1>1, <1>2, <1>3, <1>4 DEF Next

\* What a staff call relies on at each of its awaits always holds, and no two
\* transactions have written the same row.
THEOREM Invariance == Spec => []AInv
<1>1. AInv /\ [Next]_vars => AInv'
  BY StepKeeps
<1> QED BY <1>1, InitInv, PTL DEF Spec

\* Every row and every call in flight is well formed.
THEOREM TypeCorrect == Spec => []TypeOK
<1>1. AInv => TypeOK
  BY DEF AInv
<1> QED BY <1>1, Invariance, PTL

\* An invited account has at most one link that works (create(), accept()).
THEOREM SingleInvitation == Spec => []OneInvitation
<1>1. ASSUME AInv, NEW u \in Users
      PROVE  Cardinality({l \in TokensOf(u, "INVITATION") : tokens[l].state = "live"}) <= 1
  <2> DEFINE L == {l \in TokensOf(u, "INVITATION") : tokens[l].state = "live"}
  <2>1. \A k, l \in L : k = l
    BY <1>1 DEF AInv, OneLiveLink, LiveLink, TokensOf
  <2> HIDE DEF L
  <2>2. CASE L = {}
    <3>1. Cardinality(L) = 0
      BY <2>2, FS_EmptySet
    <3> QED BY <3>1 DEF L
  <2>3. ASSUME NEW l \in L PROVE Cardinality(L) <= 1
    <3>1. L = {l}
      BY <2>1, <2>3
    <3>2. Cardinality(L) = 1
      BY <3>1, FS_Singleton, Zenon
    <3> QED BY <3>2
  <2> QED BY <2>2, <2>3 DEF L
<1>2. AInv => OneInvitation
  BY <1>1 DEF OneInvitation
<1> QED BY <1>2, Invariance, PTL

\* A session ends Absolute after sign-in and IdleTTL after its last renewal,
\* however often and however late it is renewed (validate(), idleExpiry()).
THEOREM SessionsEnd == Spec => []EndsInTime
<1>1. AInv => EndsInTime
  BY DEF AInv
<1> QED BY <1>1, Invariance, PTL

-----------------------------------------------------------------------------
(* What no step does.                                                       *)

\* An ended session stays ended: what is written is a row of a session that
\* lives or that nobody has drawn yet.
LEMMA GoneStays ==
    ASSUME AInv, [Next]_vars, NEW s \in Sids, Ended(s)
    PROVE  Ended(s)'
<1>0. TypeOK /\ sessions \in [Sids -> SessionRows] /\ sessions[s].state = "gone"
  BY DEF AInv, TypeOK, Ended
<1>1. CASE \E rows : sessions' = Delete(sessions, rows)
  BY <1>0, <1>1 DEF Delete, Ended, Gone
<1>2. CASE \E x, row : sessions' = [sessions EXCEPT ![x] = row] /\ ~Ended(x)
  BY <1>0, <1>2 DEF Ended
<1>3. CASE sessions' = sessions
  BY <1>3 DEF Ended
<1>4. ASSUME NEW c \in Calls, Handle(c), sessions' # sessions
      PROVE  \/ \E rows : sessions' = Delete(sessions, rows)
             \/ \E x, row : sessions' = [sessions EXCEPT ![x] = row] /\ ~Ended(x)
  <2>1. Expire(c) \/ RenewSession(c) \/ Purge(c) \/ Open(c) \/ CommitChange(c) \/ CommitReset(c)
    BY <1>4 DEF Handle, FindChange, SetPwdChange, Consume, Owner, SignOutReset, Activate,
       FindInvite, Details, Cancel, IssueReset, CommitInvite, BreakDeadlock, tables
  <2>2. CASE Expire(c) \/ Purge(c) \/ CommitChange(c) \/ CommitReset(c)
    BY <2>2 DEF Expire, Purge, CommitChange, CommitReset
  <2>3. CASE RenewSession(c)
    BY <1>4, <2>3 DEF RenewSession, Renewable, LiveSession, Ended
  <2>4. CASE Open(c)
    BY <2>4 DEF Open, FreshSids, UnusedSid, Ended
  <2> QED BY <2>1, <2>2, <2>3, <2>4
<1>5. \/ sessions' = sessions
      \/ \E x \in Sids : Logout(x)
      \/ \E c \in Calls : Handle(c)
  BY DEF Next, vars, Tick, Deactivate, PublicRequest, StaffRequest, CliInvite, Drop, tables
<1>6. ASSUME NEW x \in Sids, Logout(x) PROVE \E rows : sessions' = Delete(sessions, rows)
  BY <1>6 DEF Logout
<1> QED BY <1>1, <1>2, <1>3, <1>4, <1>5, <1>6

\* A step of a change or a reset that writes its account is its commit.
LEMMA OnlyCommits ==
    ASSUME AInv, [Next]_vars, NEW c \in Calls, calls'[c] # calls[c],
           calls[c].op \in {"change", "reset"}, calls[c].user # None,
           users'[calls[c].user] # users[calls[c].user]
    PROVE  CommitChange(c) \/ CommitReset(c)
<1>0. users' # users /\ calls' # calls /\ TypeOK
  BY DEF AInv
<1>1. PICK d \in Calls :
          PublicRequest(d) \/ StaffRequest(d) \/ CliInvite(d) \/ Handle(d) \/ Drop(d)
  BY <1>0 DEF Next, vars, Tick, Deactivate, Logout
<1>2. CommitChange(d) \/ CommitReset(d) \/ Activate(d) \/ CommitInvite(d)
  BY <1>0, <1>1 DEF PublicRequest, StaffRequest, CliInvite, Handle, Drop, tables,
     Expire, RenewSession, Purge, Open, FindChange, SetPwdChange, Consume, Owner,
     SignOutReset, FindInvite, Details, Cancel, IssueReset, BreakDeadlock
<1>3. PICK k : calls' = [calls EXCEPT ![d] = k]
  BY <1>2 DEF CommitChange, CommitReset, Activate, CommitInvite, Return
<1>4. c = d
  BY <1>0, <1>3, OneCall
<1>5. calls[c].pc # "activate"
  BY DEF AInv, CallInv, CallShape
<1> QED BY <1>2, <1>4, <1>5 DEF Activate, CommitInvite, At

\* Ended sessions stay ended, also under a renewal that is under way; and a
\* password that is changed or reset leaves none of the sessions that were
\* alive when the request came in (changePassword(), resetPassword(),
\* revokeAllForUser()).
THEOREM EndedForGood == Spec => EndedStaysEnded
<1>1. ASSUME AInv, [Next]_vars, NEW s \in Sids, sessions[s].state = "gone"
      PROVE  sessions'[s].state = "gone"
  BY <1>1, GoneStays DEF Ended
<1>2. ASSUME AInv, [Next]_vars, NEW c \in Calls, calls'[c] # calls[c],
             calls[c].op \in {"change", "reset"}, calls[c].user # None,
             users'[calls[c].user] # users[calls[c].user]
      PROVE  \A s \in calls[c].old : sessions'[s].state = "gone"
  <2>0. TypeOK /\ CallInv(c) /\ calls[c] \in CallRows /\ calls[c].old \subseteq Sids
    BY <1>2, RowTypes, CallFields DEF AInv
  <2>1. DOMAIN sessions = Sids
    BY <2>0 DEF TypeOK
  <2>2. CASE CommitChange(c)
    <3>1. /\ calls[c].op = "change" /\ sessions' = Delete(sessions, SignedOut(c))
      BY <2>2 DEF CommitChange
    <3>2. \A s \in calls[c].old : Ended(s) \/ s \in SignedOut(c)
      BY <2>0, <3>1 DEF CallInv, OldOnes, OfUser, SignedOut, SessionsOf
    <3> QED BY <2>0, <2>1, <3>1, <3>2 DEF Delete, Gone, Ended
  <2>3. CASE CommitReset(c)
    <3>1. /\ calls[c].op = "reset" /\ calls[c].pc = "setpwd"
          /\ sessions' = Delete(sessions, calls[c].doomed)
      BY <2>3 DEF CommitReset, At
    <3>2. \A s \in calls[c].old : Ended(s) \/ s \in calls[c].doomed
      BY <2>0, <3>1 DEF CallInv, OldOnes
    <3> QED BY <2>0, <2>1, <3>1, <3>2 DEF Delete, Gone, Ended
  <2> QED BY <1>2, <2>2, <2>3, OnlyCommits
<1>3. AInv /\ [Next]_vars =>
        [/\ \A s \in Sids : sessions[s].state = "gone" => sessions'[s].state = "gone"
         /\ \A c \in Calls :
               /\ calls[c].op \in {"change", "reset"} /\ calls[c].user # None
               /\ users'[calls[c].user] # users[calls[c].user]
               /\ calls'[c] # calls[c]
               => \A s \in calls[c].old : sessions'[s].state = "gone"]_vars
  BY <1>1, <1>2
<1> QED BY <1>3, Invariance, PTL DEF Spec, EndedStaysEnded

-----------------------------------------------------------------------------
(***************************************************************************)
(* Auth implements AccountLife, for every value of the constants: whatever *)
(* the overlapping calls do to the rows is what AccountLife promises.      *)
(***************************************************************************)

\* What the owner of an account does once the guard has let the request in.
IsChange(k) == k.op = "change" /\ k.pc # "idle" /\ k.pc # "expire"

accountBar  == [u \in Users |-> [status |-> users[u].status, pwd |-> users[u].pwd]]
changingBar == {calls[c].user : c \in {d \in Calls : IsChange(calls[d])}}

\* One call moved: how the accounts being changed may have changed with it.
LEMMA ChangingMoves ==
    ASSUME NEW c \in Calls, \A d \in Calls \ {c} : calls'[d] = calls[d]
    PROVE  /\ ~IsChange(calls[c]) /\ ~IsChange(calls'[c]) => changingBar' = changingBar
           /\ /\ IsChange(calls[c]) /\ IsChange(calls'[c])
              /\ calls'[c].user = calls[c].user
              => changingBar' = changingBar
           /\ ~IsChange(calls[c]) /\ IsChange(calls'[c]) =>
                changingBar' = changingBar \cup {calls'[c].user}
           /\ IsChange(calls[c]) /\ ~IsChange(calls'[c]) =>
                changingBar' \in {changingBar, changingBar \ {calls[c].user}}
<1>1. CASE ~IsChange(calls[c]) /\ ~IsChange(calls'[c])
  BY <1>1 DEF changingBar, IsChange
<1>2. CASE IsChange(calls[c]) /\ IsChange(calls'[c]) /\ calls'[c].user = calls[c].user
  BY <1>2 DEF changingBar, IsChange
<1>3. CASE ~IsChange(calls[c]) /\ IsChange(calls'[c])
  BY <1>3 DEF changingBar, IsChange
<1>4. CASE IsChange(calls[c]) /\ ~IsChange(calls'[c])
  <2>1. CASE \E d \in Calls \ {c} : IsChange(calls[d]) /\ calls[d].user = calls[c].user
    <3>1. changingBar' = changingBar
      BY <1>4, <2>1 DEF changingBar, IsChange
    <3> QED BY <1>4, <3>1
  <2>2. CASE ~ \E d \in Calls \ {c} : IsChange(calls[d]) /\ calls[d].user = calls[c].user
    <3>1. changingBar' = changingBar \ {calls[c].user}
      BY <1>4, <2>2 DEF changingBar, IsChange
    <3> QED BY <1>4, <3>1
  <2> QED BY <2>1, <2>2
<1> QED BY <1>1, <1>2, <1>3, <1>4

LEMMA InitAccount == Init => Account!Init
<1> SUFFICES ASSUME Init PROVE Account!Init
  OBVIOUS
<1>1. accountBar = [u \in Users |-> [status |-> "NONE", pwd |-> None]]
  BY DEF Init, accountBar
<1>2. changingBar = {}
  BY DEF Init, Idle, changingBar, IsChange
<1> QED BY <1>1, <1>2 DEF Init, Account!Init, accountBar, changingBar, IsChange, Unused

\* A call that writes nothing that shows begins or ends a change, or neither.
LEMMA QuietAccount ==
    ASSUME AInv, NEW c \in Calls, UNCHANGED <<users, tokens>>,
           \A d \in Calls \ {c} : calls'[d] = calls[d],
           IsChange(calls[c]) /\ IsChange(calls'[c]) => calls'[c].user = calls[c].user,
           ~IsChange(calls[c]) /\ IsChange(calls'[c]) =>
               calls'[c].user \in Users /\ users[calls'[c].user].status = "ACTIVE"
    PROVE  [Account!Next]_Account!vars
<1>1. accountBar' = accountBar /\ tokens' = tokens
  BY DEF accountBar
<1>2. CASE changingBar' = changingBar
  BY <1>1, <1>2 DEF Account!vars, accountBar, changingBar, IsChange
<1>3. CASE ~IsChange(calls[c]) /\ IsChange(calls'[c])
  <2>1. changingBar' = changingBar \cup {calls'[c].user}
    BY <1>3, ChangingMoves
  <2>2. PICK u \in Users : u = calls'[c].user /\ users[u].status = "ACTIVE"
    BY <1>3
  <2>3. accountBar[u].status = "ACTIVE"
    BY <2>2 DEF accountBar
  <2>4. Account!BeginChange(u)
    BY <1>1, <2>1, <2>2, <2>3 DEF Account!BeginChange, accountBar, changingBar, IsChange
  <2>5. Account!Owners
    BY <2>4 DEF Account!Owners
  <2> QED BY <2>5 DEF Account!Next
<1>4. CASE /\ IsChange(calls[c]) /\ ~IsChange(calls'[c])
           /\ changingBar' = changingBar \ {calls[c].user}
  <2>1. PICK u \in Users : u = calls[c].user
    BY <1>4 DEF AInv, CallInv, CallShape, IsChange
  <2>2. Account!EndChange(u)
    BY <1>1, <1>4, <2>1 DEF Account!EndChange, accountBar, changingBar, IsChange
  <2>3. Account!Owners
    BY <2>2 DEF Account!Owners
  <2> QED BY <2>3 DEF Account!Next
<1> QED BY <1>2, <1>3, <1>4, ChangingMoves

-----------------------------------------------------------------------------
(* Arrivals.                                                                *)

LEMMA ArriveAccount ==
    ASSUME AInv, NEW c \in Calls, NEW k \in CallRows, Arrive(c, k), UNCHANGED <<users, tokens>>,
           IsChange(k) => k.user \in Users /\ users[k.user].status = "ACTIVE"
    PROVE  [Account!Next]_Account!vars
<1> DEFINE j == [k EXCEPT !.at = IF k.pc \in Timed THEN now ELSE 0]
<1>1. j.pc = k.pc /\ j.op = k.op /\ j.user = k.user
  BY DEF CallRows
<1>2. calls' = [calls EXCEPT ![c] = j] /\ ~IsChange(calls[c])
  BY DEF Arrive, IsChange
<1> HIDE DEF j
<1>3. calls'[c] = j /\ \A d \in Calls \ {c} : calls'[d] = calls[d]
  BY <1>2, OneCall DEF AInv
<1> QED BY <1>1, <1>2, <1>3, QuietAccount DEF IsChange

LEMMA PublicAccount ==
    ASSUME AInv, NEW c \in Calls, PublicRequest(c)
    PROVE  [Account!Next]_Account!vars
<1> USE NoneAssumption
<1>0. UNCHANGED <<users, tokens>>
  BY DEF PublicRequest, tables
<1>1. PICK k \in CallRows : Arrive(c, k) /\ k.op # "change"
  <2>1. ASSUME NEW u \in Users
        PROVE  /\ [Idle EXCEPT !.pc = "purge", !.op = "login", !.user = u] \in CallRows
               /\ [Idle EXCEPT !.pc = "purge", !.op = "login", !.user = u].op = "login"
               /\ [Idle EXCEPT !.pc = "cancel", !.op = "forgot", !.user = u] \in CallRows
               /\ [Idle EXCEPT !.pc = "cancel", !.op = "forgot", !.user = u].op = "forgot"
    BY DEF Idle, CallRows, Pcs, Ops, Roles
  <2>2. ASSUME NEW l \in Links, NEW p \in Passwords
        PROVE  /\ [Idle EXCEPT !.pc = "consume", !.op = "accept", !.link = l, !.pwd = p] \in CallRows
               /\ [Idle EXCEPT !.pc = "consume", !.op = "accept", !.link = l, !.pwd = p].op = "accept"
    BY DEF Idle, CallRows, Pcs, Ops, Roles
  <2>3. ASSUME NEW l \in Links, NEW p \in Passwords, NEW old \in SUBSET Sids
        PROVE  /\ [Idle EXCEPT !.pc = "consume", !.op = "reset", !.link = l, !.pwd = p,
                               !.old = old] \in CallRows
               /\ [Idle EXCEPT !.pc = "consume", !.op = "reset", !.link = l, !.pwd = p,
                               !.old = old].op = "reset"
    BY DEF Idle, CallRows, Pcs, Ops, Roles
  <2>4. \A u : SessionsOf(u) \in SUBSET Sids
    BY DEF SessionsOf
  <2>5. CASE \E u \in Users :
               \/ Arrive(c, [Idle EXCEPT !.pc = "purge", !.op = "login", !.user = u])
               \/ Arrive(c, [Idle EXCEPT !.pc = "cancel", !.op = "forgot", !.user = u])
    <3>1. "login" # "change" /\ "forgot" # "change"
      OBVIOUS
    <3> QED BY <2>1, <2>5, <3>1, Zenon
  <2>6. CASE \E l \in Links, p \in Passwords :
               Arrive(c, [Idle EXCEPT !.pc = "consume", !.op = "accept", !.link = l, !.pwd = p])
    <3>1. "accept" # "change"
      OBVIOUS
    <3> QED BY <2>2, <2>6, <3>1, Zenon
  <2>7. CASE \E l \in Links, p \in Passwords :
               Arrive(c, [Idle EXCEPT !.pc = "consume", !.op = "reset", !.link = l, !.pwd = p,
                                      !.old = SessionsOf(tokens[l].user)])
    <3>1. "reset" # "change"
      OBVIOUS
    <3> QED BY <2>3, <2>4, <2>7, <3>1, Zenon
  <2> QED BY <2>5, <2>6, <2>7, Zenon DEF PublicRequest
<1> QED BY <1>0, <1>1, ArriveAccount DEF IsChange

LEMMA CliAccount ==
    ASSUME AInv, NEW c \in Calls, CliInvite(c)
    PROVE  [Account!Next]_Account!vars
<1>1. PICK u \in Users :
          Arrive(c, [Idle EXCEPT !.pc = "find", !.op = "invite", !.user = u, !.role = "ADMIN"])
  BY DEF CliInvite
<1> DEFINE k == [Idle EXCEPT !.pc = "find", !.op = "invite", !.user = u, !.role = "ADMIN"]
<1>2. k \in CallRows /\ k.op = "invite"
  BY DEF Idle, CallRows, Pcs, Ops, Roles
<1>3. Arrive(c, k) /\ UNCHANGED <<users, tokens>>
  BY <1>1 DEF CliInvite, tables
<1> HIDE DEF k
<1> QED BY <1>2, <1>3, ArriveAccount DEF IsChange

\* The guard lets a change in only while its account is active.
LEMMA GuardedAccount ==
    ASSUME AInv, NEW c \in Calls, NEW s \in Sids, NEW k \in CallRows, k.sess = s,
           k.op = "change" => k.user = sessions[s].user /\ k.user \in Users,
           Guarded(c, k), UNCHANGED <<users, tokens>>
    PROVE  [Account!Next]_Account!vars
<1> DEFINE admin == users[sessions[s].user].role = "ADMIN"
<1>1. CASE Arrive(c, [k EXCEPT !.pc = "expire"])
  <2> DEFINE i == [k EXCEPT !.pc = "expire"]
  <2>1. i \in CallRows /\ i.pc = "expire"
    BY DEF CallRows, Pcs
  <2> HIDE DEF i
  <2> QED BY <1>1, <2>1, ArriveAccount DEF i, IsChange
<1>2. CASE SignedIn(s) /\ Arrive(c, [k EXCEPT !.pc = "renew", !.admin = admin])
  <2> DEFINE i == [k EXCEPT !.pc = "renew", !.admin = admin]
  <2>1. i \in CallRows /\ i.op = k.op /\ i.user = k.user
    BY DEF CallRows, Pcs
  <2>2. Arrive(c, i)
    BY <1>2
  <2> HIDE DEF i
  <2> QED BY <1>2, <2>1, <2>2, ArriveAccount DEF IsChange, SignedIn
<1>3. CASE SignedIn(s) /\ Arrive(c, [k EXCEPT !.pc = "find"])
  <2> DEFINE i == [k EXCEPT !.pc = "find"]
  <2>1. i \in CallRows /\ i.op = k.op /\ i.user = k.user
    BY DEF CallRows, Pcs
  <2>2. Arrive(c, i)
    BY <1>3
  <2> HIDE DEF i
  <2> QED BY <1>3, <2>1, <2>2, ArriveAccount DEF IsChange, SignedIn
<1> QED BY <1>1, <1>2, <1>3 DEF Guarded

LEMMA StaffAccount ==
    ASSUME AInv, NEW c \in Calls, StaffRequest(c)
    PROVE  [Account!Next]_Account!vars
<1> USE NoneAssumption
<1>1. PICK s \in Sids : LiveSession(s) /\
          \/ Guarded(c, [Idle EXCEPT !.op = "work", !.sess = s])
          \/ \E p \in Passwords :
                Guarded(c, [Idle EXCEPT !.op = "change", !.sess = s, !.pwd = p,
                    !.user = sessions[s].user,
                    !.old = SessionsOf(sessions[s].user) \ {s}])
          \/ \E u \in Users, r \in RolesOffered :
                Guarded(c, [Idle EXCEPT !.op = "invite", !.sess = s, !.user = u, !.role = r])
  BY DEF StaffRequest
<1>2. sessions[s].user \in Users /\ UNCHANGED <<users, tokens>>
  BY <1>1, SessionStates DEF StaffRequest, AInv, tables
<1>3. PICK k \in CallRows :
          /\ Guarded(c, k) /\ k.sess = s
          /\ k.op = "change" => k.user = sessions[s].user
  <2>1. /\ [Idle EXCEPT !.op = "work", !.sess = s] \in CallRows
        /\ [Idle EXCEPT !.op = "work", !.sess = s].sess = s
        /\ [Idle EXCEPT !.op = "work", !.sess = s].op = "work"
    BY DEF Idle, CallRows, Pcs, Ops, Roles
  <2>3. ASSUME NEW u \in Users, NEW r \in RolesOffered
        PROVE  LET k == [Idle EXCEPT !.op = "invite", !.sess = s, !.user = u, !.role = r]
               IN  k \in CallRows /\ k.sess = s /\ k.op = "invite"
    BY RolesAssumption DEF Idle, CallRows, Pcs, Ops
  <2>5. CASE Guarded(c, [Idle EXCEPT !.op = "work", !.sess = s])
    <3>1. "work" # "change"
      OBVIOUS
    <3> QED BY <2>1, <2>5, <3>1, Zenon
  <2>6. CASE \E p \in Passwords :
               Guarded(c, [Idle EXCEPT !.op = "change", !.sess = s, !.pwd = p,
                    !.user = sessions[s].user,
                    !.old = SessionsOf(sessions[s].user) \ {s}])
    <3>1. PICK p \in Passwords :
               Guarded(c, [Idle EXCEPT !.op = "change", !.sess = s, !.pwd = p,
                    !.user = sessions[s].user,
                    !.old = SessionsOf(sessions[s].user) \ {s}])
      BY <2>6
    <3> DEFINE k == [Idle EXCEPT !.op = "change", !.sess = s, !.pwd = p,
                    !.user = sessions[s].user,
                    !.old = SessionsOf(sessions[s].user) \ {s}]
    <3>2. k \in CallRows /\ k.sess = s /\ k.user = sessions[s].user
      BY <1>2 DEF Idle, CallRows, Pcs, Ops, Roles, SessionsOf
    <3>3. Guarded(c, k)
      BY <3>1
    <3> HIDE DEF k
    <3> QED BY <3>2, <3>3
  <2>7. CASE \E u \in Users, r \in RolesOffered :
               Guarded(c, [Idle EXCEPT !.op = "invite", !.sess = s, !.user = u, !.role = r])
    <3>1. "invite" # "change"
      OBVIOUS
    <3> QED BY <2>3, <2>7, <3>1, Zenon
  <2> QED BY <1>1, <2>5, <2>6, <2>7, Zenon
<1> QED BY <1>2, <1>3, GuardedAccount

-----------------------------------------------------------------------------
(* Statements.                                                              *)

\* A statement moves its own call, and makes no change of another operation.
OwnMove(c) ==
    /\ \A d \in Calls \ {c} : calls'[d] = calls[d]
    /\ IsChange(calls'[c]) => IsChange(calls[c]) /\ calls'[c].user = calls[c].user

LEMMA ReturnMoves ==
    ASSUME AInv, NEW c \in Calls, Return(c)
    PROVE  OwnMove(c)
<1>1. calls'[c] = Idle /\ \A d \in Calls \ {c} : calls'[d] = calls[d]
  BY OneCall DEF AInv, Return
<1> QED BY <1>1 DEF OwnMove, IsChange, Idle

LEMMA GotoGoes ==
    ASSUME AInv, NEW c \in Calls, NEW p \in Pcs, Goto(c, p), calls[c].pc \notin {"idle", "expire"}
    PROVE  OwnMove(c)
<1>1. MovedTo(c, p) /\ \A d \in Calls \ {c} : calls'[d] = calls[d]
  BY GotoMoves DEF AInv
<1> QED BY <1>1 DEF OwnMove, IsChange, MovedTo

\* The call becomes k, which keeps the operation unless it is no change.
LEMMA BecomesMoves ==
    ASSUME AInv, NEW c \in Calls, NEW k, calls' = [calls EXCEPT ![c] = k],
           k.op # "change" \/ (k.op = calls[c].op /\ k.user = calls[c].user),
           calls[c].pc \notin {"idle", "expire"}
    PROVE  OwnMove(c)
<1>1. calls'[c] = k /\ \A d \in Calls \ {c} : calls'[d] = calls[d]
  BY OneCall DEF AInv
<1> QED BY <1>1 DEF OwnMove, IsChange

LEMMA HandleMoves ==
    ASSUME AInv, NEW c \in Calls, Handle(c)
    PROVE  OwnMove(c)
<1>0. /\ calls \in [Calls -> CallRows] /\ calls[c] \in CallRows
      /\ {"find", "open", "setpwd", "signout", "owner", "cancel"} \subseteq Pcs
  BY RowTypes DEF AInv, TypeOK, Pcs
<1>1. CASE Return(c)
  BY <1>1, ReturnMoves
<1>2. CASE RenewSession(c) \/ Purge(c) \/ FindChange(c) \/ SetPwdChange(c) \/ Consume(c) \/ Details(c)
  <2>1. /\ calls[c].pc \notin {"idle", "expire"}
        /\ Return(c) \/ \E p \in Pcs : Goto(c, p)
    BY <1>0, <1>2 DEF RenewSession, Purge, FindChange, SetPwdChange, Consume, Details, At
  <2> QED BY <2>1, ReturnMoves, GotoGoes
<1>3. CASE Owner(c) /\ ~Return(c)
  <2> DEFINE k == [calls[c] EXCEPT !.user = tokens[calls[c].link].user, !.at = 0,
                                   !.pc = IF calls[c].op = "accept" THEN "activate" ELSE "signout"]
  <2>1. calls[c].pc = "owner" /\ calls' = [calls EXCEPT ![c] = k]
    BY <1>0, <1>3 DEF Owner, At
  <2>2. k.op = calls[c].op /\ calls[c].op # "change"
    BY <1>0, <2>1 DEF CallRows, AInv, CallInv, CallShape
  <2> HIDE DEF k
  <2> QED BY <2>1, <2>2, BecomesMoves
<1>4. CASE SignOutReset(c)
  <2> DEFINE k == [calls[c] EXCEPT !.pc = "setpwd", !.at = 0, !.doomed = SignedOut(c)]
  <2>1. calls[c].pc = "signout" /\ calls[c].op = "reset" /\ calls' = [calls EXCEPT ![c] = k]
    BY <1>0, <1>4 DEF SignOutReset, At
  <2>2. k.op = calls[c].op
    BY <1>0 DEF CallRows
  <2> HIDE DEF k
  <2> QED BY <2>1, <2>2, BecomesMoves
<1>5. CASE FindInvite(c) /\ ~Return(c)
  <2> DEFINE k == [calls[c] EXCEPT !.pc = "details", !.at = 0, !.sess = None, !.admin = FALSE,
                                   !.found = (users[calls[c].user].status = "INVITED")]
  <2>1. calls[c].pc = "find" /\ calls[c].op = "invite" /\ calls' = [calls EXCEPT ![c] = k]
    BY <1>0, <1>5 DEF FindInvite, At
  <2>2. k.op = calls[c].op
    BY <1>0 DEF CallRows
  <2> HIDE DEF k
  <2> QED BY <2>1, <2>2, BecomesMoves
<1>6. CASE Cancel(c)
  <2> DEFINE k == [calls[c] EXCEPT !.pc = "issue", !.at = now,
                     !.doomed = IF calls[c].op = "invite"
                                THEN TokensOf(calls[c].user, KindOf(calls[c].op)) ELSE {}]
  <2>1. calls[c].pc = "cancel" /\ calls' = [calls EXCEPT ![c] = k]
    BY <1>0, <1>6 DEF Cancel, At
  <2>2. k.op = calls[c].op /\ k.user = calls[c].user
    BY <1>0 DEF CallRows
  <2> HIDE DEF k
  <2> QED BY <2>1, <2>2, BecomesMoves
<1>7. CASE Activate(c)
  <2> DEFINE k == [Idle EXCEPT !.pc = "open", !.op = "accept", !.user = calls[c].user]
  <2>1. calls[c].pc = "activate" /\ calls' = [calls EXCEPT ![c] = k]
    BY <1>7 DEF Activate, At
  <2>2. k.op = "accept"
    BY DEF Idle
  <2> HIDE DEF k
  <2> QED BY <2>1, <2>2, BecomesMoves
<1> QED BY <1>1, <1>2, <1>3, <1>4, <1>5, <1>6, <1>7 DEF Handle, Expire, Open, CommitChange,
     CommitReset, IssueReset, CommitInvite, BreakDeadlock

\* A statement of a call that is no change leaves the changes alone.
LEMMA SameChanging ==
    ASSUME AInv, NEW c \in Calls, OwnMove(c), ~IsChange(calls[c])
    PROVE  changingBar' = changingBar
  BY ChangingMoves DEF OwnMove

-----------------------------------------------------------------------------
(* Writes.                                                                  *)

LEMMA CommitChangeAccount ==
    ASSUME AInv, NEW c \in Calls, CommitChange(c)
    PROVE  \E u \in Users, p \in Passwords : Account!Change(u, p)
<1>0. PICK u \in Users, p \in Passwords : u = calls[c].user /\ p = calls[c].pwd
  BY DEF AInv, CallInv, CallShape, CommitChange
<1>1. /\ calls[c].op = "change" /\ calls[c].pc = "signout" /\ CallInv(c)
      /\ users' = [users EXCEPT ![u].pwd = p] /\ users \in [Users -> UserRows]
      /\ tokens' = tokens /\ Return(c)
  BY <1>0 DEF CommitChange, At, AInv, TypeOK
<1>2. u \in changingBar /\ users[u].pwd # None
  <2>1. users[u].status \in Joined
    BY <1>0, <1>1 DEF CallInv, CallShape, Checked
  <2> QED BY <1>0, <1>1, <2>1 DEF changingBar, IsChange, AInv, UserShape
<1>3. /\ users'[u].status = users[u].status /\ users'[u].pwd = p
      /\ \A x \in Users \ {u} : users'[x] = users[x]
  BY <1>1, <1>2 DEF UserRows
<1>4. accountBar' = [accountBar EXCEPT ![u].pwd = p]
  BY <1>2, <1>3 DEF accountBar
<1>5. calls'[c] = Idle /\ \A d \in Calls \ {c} : calls'[d] = calls[d]
  BY <1>1, OneCall DEF AInv, Return
<1>6. changingBar' \in {changingBar, changingBar \ {u}}
  BY <1>0, <1>1, <1>5, ChangingMoves DEF IsChange, Idle
<1>7. accountBar[u].pwd # None
  BY <1>2 DEF accountBar
<1>8. Account!Change(u, p)
  BY <1>1, <1>2, <1>4, <1>6, <1>7 DEF Account!Change, accountBar, changingBar, IsChange
<1> QED BY <1>8

LEMMA UseUpAccount ==
    ASSUME AInv, NEW c \in Calls, CommitReset(c) \/ Activate(c)
    PROVE  \E u \in Users, l \in Links, p \in Passwords, kind \in Kinds :
              /\ u = calls[c].user /\ l = calls[c].link /\ p = calls[c].pwd
              /\ kind = KindOf(calls[c].op) /\ Account!UseUp(u, l, kind)
<1>1. /\ CallInv(c) /\ InLinkTx(calls[c]) /\ calls[c].pc # "owner" /\ calls[c].op # "change"
      /\ tokens' = [tokens EXCEPT ![calls[c].link].state = "used"]
  <2>1. CASE CommitReset(c)
    BY <2>1 DEF CommitReset, At, AInv, InLinkTx
  <2>2. CASE Activate(c)
    BY <2>2, CallFields, RowTypes DEF Activate, At, AInv, InLinkTx, CallInv, CallShape, Ops, Idle
  <2> QED BY <2>1, <2>2
<1>2. /\ LiveLink(calls[c].link, KindOf(calls[c].op)) /\ tokens[calls[c].link].user = calls[c].user
      /\ calls[c].link \in Links /\ calls[c].user \in Users /\ calls[c].pwd \in Passwords
  BY <1>1 DEF CallInv, Checked, CallShape, InLinkTx
<1>3. PICK u \in Users, l \in Links, p \in Passwords, kind \in Kinds :
          u = calls[c].user /\ l = calls[c].link /\ p = calls[c].pwd /\ kind = KindOf(calls[c].op)
  BY <1>2 DEF KindOf, Kinds
<1>4. Account!UseUp(u, l, kind)
  BY <1>1, <1>2, <1>3 DEF Account!UseUp, LiveLink
<1> QED BY <1>3, <1>4

LEMMA CommitResetAccount ==
    ASSUME AInv, NEW c \in Calls, CommitReset(c)
    PROVE  /\ \E u \in Users, l \in Links, p \in Passwords : Account!Reset(u, l, p)
           /\ changingBar' = changingBar
<1>0. PICK u \in Users, l \in Links, p \in Passwords, kind \in Kinds :
          /\ u = calls[c].user /\ l = calls[c].link /\ p = calls[c].pwd
          /\ kind = KindOf(calls[c].op) /\ Account!UseUp(u, l, kind)
  BY UseUpAccount
<1>1. /\ calls[c].op = "reset" /\ calls[c].pc = "setpwd" /\ CallInv(c)
      /\ users' = [users EXCEPT ![u].pwd = p] /\ users \in [Users -> UserRows]
  BY <1>0 DEF CommitReset, At, AInv, TypeOK
<1>2. users[u].status \in {"ACTIVE", "DEACTIVATED"} /\ Account!UseUp(u, l, "PASSWORD_RESET")
  <2>1. kind = "PASSWORD_RESET"
    BY <1>0, <1>1 DEF KindOf
  <2> QED BY <1>0, <1>1, <2>1 DEF CallInv, Checked, Joined
<1>3. /\ users'[u].status = users[u].status /\ users'[u].pwd = p
      /\ \A x \in Users \ {u} : users'[x] = users[x]
  BY <1>1, <1>2 DEF UserRows
<1>4. accountBar' = [accountBar EXCEPT ![u].pwd = p]
  BY <1>2, <1>3 DEF accountBar
<1>5. accountBar[u].status \in {"ACTIVE", "DEACTIVATED"}
  BY <1>2 DEF accountBar
<1>6. changingBar' = changingBar
  BY <1>1, HandleMoves, SameChanging DEF IsChange, Handle
<1>7. Account!Reset(u, l, p)
  BY <1>2, <1>4, <1>5 DEF Account!Reset, accountBar
<1> QED BY <1>6, <1>7

LEMMA ActivateAccount ==
    ASSUME AInv, NEW c \in Calls, Activate(c)
    PROVE  /\ \E u \in Users, l \in Links, p \in Passwords : Account!Activate(u, l, p)
           /\ changingBar' = changingBar
<1>0. PICK u \in Users, l \in Links, p \in Passwords, kind \in Kinds :
          /\ u = calls[c].user /\ l = calls[c].link /\ p = calls[c].pwd
          /\ kind = KindOf(calls[c].op) /\ Account!UseUp(u, l, kind)
  BY UseUpAccount
<1> DEFINE row == [users[u] EXCEPT !.status = "ACTIVE", !.pwd = p]
<1>1. /\ calls[c].pc = "activate" /\ CallInv(c)
      /\ users' = [users EXCEPT ![u] = row] /\ users \in [Users -> UserRows]
  BY <1>0 DEF Activate, At, AInv, TypeOK
<1>2. /\ users[u].status = "INVITED" /\ calls[c].op = "accept"
      /\ Account!UseUp(u, l, "INVITATION")
  <2>1. calls[c].op = "accept" /\ users[u].status = "INVITED"
    BY <1>0, <1>1, CallFields, RowTypes DEF CallInv, CallShape, Checked, Ops, Idle, AInv
  <2>2. kind = "INVITATION"
    BY <1>0, <2>1 DEF KindOf
  <2> QED BY <1>0, <2>1, <2>2
<1>3. row.status = "ACTIVE" /\ row.pwd = p
  BY <1>1, <1>2 DEF UserRows
<1> HIDE DEF row
<1>4. users'[u] = row /\ \A x \in Users \ {u} : users'[x] = users[x]
  BY <1>1, <1>2
<1>5. accountBar' = [accountBar EXCEPT ![u] = [status |-> "ACTIVE", pwd |-> p]]
  BY <1>2, <1>3, <1>4 DEF accountBar
<1>6. accountBar[u].status = "INVITED"
  BY <1>2 DEF accountBar
<1>7. changingBar' = changingBar
  BY <1>2, HandleMoves, SameChanging DEF IsChange, Handle
<1>8. Account!Activate(u, l, p)
  BY <1>2, <1>5, <1>6 DEF Account!Activate, accountBar
<1> QED BY <1>7, <1>8

\* forgotPassword()'s issue() deletes the earlier links by itself.
LEMMA CancelAccount ==
    ASSUME AInv, NEW c \in Calls, Cancel(c), calls[c].op = "forgot"
    PROVE  /\ \E gone \in SUBSET Links : Account!Cancel(gone)
           /\ changingBar' = changingBar
<1> DEFINE mine == TokensOf(calls[c].user, KindOf("forgot"))
<1>1. /\ tokens' = Delete(tokens, mine) /\ users' = users /\ DOMAIN tokens = Links
  BY DEF Cancel, AInv, TypeOK
<1>2. mine \in SUBSET Links /\ \A k \in mine : ~Account!Unissued(k)
  BY DEF TokensOf, ThereToken, Account!Unissued
<1>3. tokens' = [k \in Links |-> IF k \in mine THEN Gone ELSE tokens[k]]
  BY <1>1 DEF Delete
<1> HIDE DEF mine
<1>4. Account!Cancel(mine)
  BY <1>1, <1>2, <1>3 DEF Account!Cancel, Account!Gone, Gone
<1>5. changingBar' = changingBar
  BY HandleMoves, SameChanging DEF IsChange, Handle
<1> QED BY <1>2, <1>4, <1>5

LEMMA IssueResetAccount ==
    ASSUME AInv, NEW c \in Calls, IssueReset(c)
    PROVE  /\ \E u \in Users, l \in Links : Account!Invite(u, l)
           /\ changingBar' = changingBar
<1> DEFINE u == calls[c].user
           row == Created(u, "PASSWORD_RESET", calls[c].at + ResetTTL)
<1>1. /\ calls[c].op = "forgot" /\ CallInv(c) /\ users' = users
      /\ tokens \in [Links -> TokenRows]
  BY DEF IssueReset, AInv, TypeOK
<1>2. PICK l \in FreshLinks : tokens' = [tokens EXCEPT ![l] = row]
  BY DEF IssueReset
<1>3. /\ l \in Links /\ Account!Unissued(l) /\ u \in Users /\ row.state = "live" /\ row.user = u
      /\ users[u].status # "NONE"
  BY <1>1 DEF FreshLinks, UnusedToken, Account!Unissued, Created, CallInv, CallShape, Checked, Joined
<1> HIDE DEF row
<1>4. Account!Send(u, l, {})
  BY <1>1, <1>2, <1>3 DEF Account!Send
<1>5. accountBar' = accountBar /\ accountBar[u].status # "NONE"
  BY <1>1, <1>3 DEF accountBar
<1>6. Account!Invite(u, l)
  BY <1>4, <1>5 DEF Account!Invite, accountBar
<1>7. changingBar' = changingBar
  BY <1>1, HandleMoves, SameChanging DEF IsChange, Handle
<1> QED BY <1>3, <1>6, <1>7

\* An account that was there keeps its status and password: only the role
\* changes, which AccountLife says nothing about.
LEMMA CommitInviteAccount ==
    ASSUME AInv, NEW c \in Calls, CommitInvite(c)
    PROVE  /\ \E u \in Users, l \in Links : Account!Invite(u, l)
           /\ changingBar' = changingBar
<1> DEFINE u == calls[c].user
           row == IF calls[c].found THEN [users[u] EXCEPT !.role = calls[c].role]
                  ELSE [status |-> "INVITED", pwd |-> None, role |-> calls[c].role]
           sent == Created(u, "INVITATION", calls[c].at + InviteTTL)
           gone == calls[c].doomed
<1>1. /\ calls[c].op = "invite" /\ calls[c].pc = "issue" /\ CallInv(c)
      /\ users' = [users EXCEPT ![u] = row] /\ users \in [Users -> UserRows]
  BY DEF CommitInvite, At, AInv, TypeOK
<1>2. PICK l \in FreshLinks :
          tokens' = [k \in Links |-> IF k = l THEN sent
                                     ELSE IF k \in gone THEN Gone ELSE tokens[k]]
  BY DEF CommitInvite, InviteTokens
<1>3. /\ l \in Links /\ Account!Unissued(l) /\ u \in Users
      /\ sent.state = "live" /\ sent.user = u
  BY <1>1 DEF FreshLinks, UnusedToken, Account!Unissued, Created, CallInv, CallShape
<1>4. gone \in SUBSET {k \in Links : ~Account!Unissued(k)}
  BY <1>1 DEF CallInv, Checked, ThereToken, Account!Unissued
<1> HIDE DEF sent, gone
<1>5. Account!Send(u, l, gone)
  BY <1>2, <1>3 DEF Account!Send, Account!Gone, Gone
<1>6. /\ calls[c].found  => row.status = users[u].status /\ row.pwd = users[u].pwd
                            /\ users[u].status # "NONE"
      /\ ~calls[c].found => row.status = "INVITED" /\ row.pwd = None /\ users[u].status = "NONE"
  BY <1>1, <1>3 DEF UserRows, CallInv, Checked
<1> HIDE DEF row
<1>7. users'[u] = row /\ \A x \in Users \ {u} : users'[x] = users[x]
  BY <1>1, <1>3
<1>8. ASSUME calls[c].found PROVE Account!Invite(u, l)
  <2>1. accountBar' = accountBar /\ accountBar[u].status # "NONE"
    BY <1>3, <1>6, <1>7, <1>8 DEF accountBar
  <2> QED BY <1>4, <1>5, <2>1, Zenon DEF Account!Invite, accountBar
<1>9. ASSUME ~calls[c].found PROVE Account!Invite(u, l)
  <2>1. /\ accountBar' = [accountBar EXCEPT ![u] = [status |-> "INVITED", pwd |-> None]]
        /\ accountBar[u].status = "NONE"
    BY <1>3, <1>6, <1>7, <1>9 DEF accountBar
  <2> QED BY <1>4, <1>5, <2>1, Zenon DEF Account!Invite, accountBar
<1>10. changingBar' = changingBar
  BY <1>1, HandleMoves, SameChanging DEF IsChange, Handle
<1>11. Account!Invite(u, l)
  BY <1>8, <1>9
<1> QED BY <1>3, <1>10, <1>11

LEMMA DeactivateAccount ==
    ASSUME AInv, NEW u \in Users, Deactivate(u)
    PROVE  Account!Deactivate(u) /\ changingBar' = changingBar
<1>1. /\ users[u].status = "ACTIVE" /\ users' = [users EXCEPT ![u].status = "DEACTIVATED"]
      /\ tokens' = tokens /\ calls' = calls /\ users \in [Users -> UserRows]
  BY DEF Deactivate, AInv, TypeOK
<1>2. /\ users'[u].status = "DEACTIVATED" /\ users'[u].pwd = users[u].pwd
      /\ \A x \in Users \ {u} : users'[x] = users[x]
  BY <1>1 DEF UserRows
<1>3. accountBar' = [accountBar EXCEPT ![u].status = "DEACTIVATED"]
  BY <1>2 DEF accountBar
<1>4. accountBar[u].status = "ACTIVE"
  BY <1>1 DEF accountBar
<1> QED BY <1>1, <1>3, <1>4 DEF Account!Deactivate, accountBar, changingBar

-----------------------------------------------------------------------------
(* Every step.                                                              *)

\* A step that leaves the changes alone and is one of AccountLife's others.
LEMMA OtherStep ==
    ASSUME changingBar' = changingBar,
           \/ \E gone \in SUBSET Links : Account!Cancel(gone)
           \/ \E u \in Users : Account!Deactivate(u)
           \/ \E u \in Users, l \in Links : Account!Invite(u, l)
           \/ \E u \in Users, l \in Links, p \in Passwords :
                 Account!Activate(u, l, p) \/ Account!Reset(u, l, p)
    PROVE  [Account!Next]_Account!vars
<1>1. Account!LinksAndAdmins
  BY Zenon DEF Account!LinksAndAdmins, changingBar, IsChange
<1> QED BY <1>1 DEF Account!Next

LEMMA HandleAccount ==
    ASSUME AInv, NEW c \in Calls, Handle(c)
    PROVE  [Account!Next]_Account!vars
<1>2. CASE CommitChange(c)
  <2>1. Account!Owners
    BY <1>2, CommitChangeAccount DEF Account!Owners
  <2> QED BY <2>1 DEF Account!Next
<1>3. CASE CommitReset(c)
  BY <1>3, CommitResetAccount, OtherStep
<1>4. CASE Activate(c)
  BY <1>4, ActivateAccount, OtherStep
<1>5. CASE Cancel(c) /\ calls[c].op = "forgot"
  BY <1>5, CancelAccount, OtherStep
<1>6. CASE IssueReset(c)
  BY <1>6, IssueResetAccount, OtherStep
<1>7. CASE CommitInvite(c)
  BY <1>7, CommitInviteAccount, OtherStep
<1>8. CASE UNCHANGED <<users, tokens>>
  BY <1>8, HandleMoves, QuietAccount DEF OwnMove
<1>9. Cancel(c) /\ calls[c].op # "forgot" => UNCHANGED <<users, tokens>>
  BY RowTypes, CallFields DEF Cancel, At, AInv, CallInv, CallShape, Ops, Idle
<1> QED BY <1>2, <1>3, <1>4, <1>5, <1>6, <1>7, <1>8, <1>9
        DEF Handle, Expire, RenewSession, Purge, Open, FindChange, SetPwdChange, Consume, Owner,
            SignOutReset, FindInvite, Details, BreakDeadlock, tables

LEMMA StepAccount == AInv /\ [Next]_vars => [Account!Next]_Account!vars
<1> SUFFICES ASSUME AInv, [Next]_vars PROVE [Account!Next]_Account!vars
  OBVIOUS
<1>1. CASE UNCHANGED <<users, tokens, calls>>
  BY <1>1 DEF Account!vars
<1>2. CASE \E u \in Users : Deactivate(u)
  BY <1>2, DeactivateAccount, OtherStep
<1>3. ASSUME NEW c \in Calls, Drop(c) PROVE [Account!Next]_Account!vars
  BY <1>3, ReturnMoves, QuietAccount DEF Drop, OwnMove, tables
<1>4. UNCHANGED vars \/ Tick \/ (\E s \in Sids : Logout(s)) => UNCHANGED <<users, tokens, calls>>
  BY DEF vars, Tick, Logout, tables
<1> QED BY <1>1, <1>2, <1>3, <1>4, PublicAccount, StaffAccount, CliAccount, HandleAccount DEF Next

\* The calls of AuthService and InvitationsService, however they overlap, wait,
\* deadlock or fail, activate an account once, set a password only by using up
\* one live link of that account or by a change its owner was let in for, and
\* bring no link back.
THEOREM Implementation == Spec => ImplementsAccount
  BY InitAccount, StepAccount, Invariance, PTL DEF Spec, ImplementsAccount, Account!Spec

=============================================================================
