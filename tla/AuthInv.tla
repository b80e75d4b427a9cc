------------------------------- MODULE AuthInv -------------------------------
(***************************************************************************)
(* The inductive invariant of Auth: what the rows promise, what a call may *)
(* rely on at each of its awaits, and who holds which row.                 *)
(***************************************************************************)
EXTENDS Auth

Joined == {"ACTIVE", "DEACTIVATED"}

\* An account has a password from its activation on.
UserShape(u) == users[u].pwd # None <=> users[u].status \in Joined

LiveLink(l, kind) == tokens[l].state = "live" /\ tokens[l].type = kind

OneLiveLink ==
    \A k, l \in Links :
        /\ LiveLink(k, "INVITATION") /\ LiveLink(l, "INVITATION")
        /\ tokens[k].user = tokens[l].user
        => k = l

\* No two transactions have written the same row.
LocksExclusive ==
    \A c, d \in Calls : c # d => Holds(c) \cap Holds(d) = {}

InLinkTx(k) == k.op \in {"reset", "accept"} /\ k.pc \in {"owner", "signout", "setpwd", "activate"}

\* Each operation goes through its own statements, with its arguments.
CallShape(c) ==
    LET k == calls[c] IN
    /\ k.op = "none"   => k = Idle
    /\ k.op = "work"   => k.pc \in {"expire", "renew"}
    /\ k.op = "change" => k.pc \in {"expire", "renew", "find", "setpwd", "signout"}
    /\ k.op = "invite" => k.pc \in {"expire", "renew", "find", "details", "cancel", "issue"}
    /\ k.op = "login"  => k.pc \in {"purge", "open"}
    /\ k.op = "forgot" => k.pc \in {"cancel", "issue"}
    /\ k.op = "reset"  => k.pc \in {"consume", "owner", "signout", "setpwd"}
    /\ k.op = "accept" => k.pc \in {"consume", "owner", "activate", "open"}
    /\ k.op \in {"change", "invite", "login", "forgot"} => k.user \in Users
    /\ k.pc \in {"open", "signout", "setpwd", "activate"} => k.user \in Users
    /\ k.pc \in {"expire", "renew"} => k.sess \in Sids
    /\ k.op = "change" => k.pwd \in Passwords
    /\ k.pc \in {"consume", "owner", "activate"} \/ k.op = "reset" =>
          k.link \in Links /\ k.pwd \in Passwords
    /\ k.pc \in {"consume", "owner"} => k.user = None
    /\ k.op = "reset" => k.sess = None
    /\ k.doomed # {} => \/ k.op = "invite" /\ k.pc = "issue"
                        \/ k.op = "reset" /\ k.pc = "setpwd"

\* validate() saw the session before its absolute end.
Validated(c) ==
    LET k == calls[c] IN
    /\ k.pc \in {"expire", "renew"} => ~UnusedSid(k.sess)
    /\ k.pc = "renew" /\ LiveSession(k.sess) => k.at < sessions[k.sess].created + Absolute

Ended(s) == sessions[s].state = "gone"
OfUser(s, u) == LiveSession(s) /\ sessions[s].user = u

\* The sessions that were alive when the request came in are of its account.
OldOnes(c) ==
    LET k == calls[c] IN
    /\ k.op = "change" => \A s \in k.old : s # k.sess /\ (Ended(s) \/ OfUser(s, k.user))
    /\ k.op = "reset" /\ k.pc \in {"consume", "owner"} =>
          /\ ~UnusedToken(k.link)
          /\ ThereToken(k.link) =>
                \A s \in k.old : Ended(s) \/ OfUser(s, tokens[k.link].user)
    /\ k.op = "reset" /\ k.pc = "signout" => \A s \in k.old : Ended(s) \/ OfUser(s, k.user)
    /\ k.op = "reset" /\ k.pc = "setpwd"  =>
          /\ \A s \in k.old : Ended(s) \/ s \in k.doomed
          /\ \A s \in k.doomed : s \in Sids /\ ~UnusedSid(s)

\* What a transaction has checked stays true while it holds its rows.
Checked(c) ==
    LET k == calls[c] IN
    /\ k.op = "accept" /\ k.pc = "consume" => ~UnusedToken(k.link)
    /\ InLinkTx(k) => LiveLink(k.link, KindOf(k.op))
    /\ InLinkTx(k) /\ k.pc # "owner" => tokens[k.link].user = k.user
    /\ k.pc = "activate" => users[k.user].status = "INVITED"
    /\ \/ k.op = "change" /\ k.pc # "expire"
       \/ k.op = "forgot"
       \/ k.op = "reset" /\ k.pc \in {"signout", "setpwd"}
       => users[k.user].status \in Joined
    /\ k.op = "invite" /\ k.found => users[k.user].status # "NONE"
    /\ k.op = "invite" /\ ~k.found /\ k.pc \in {"cancel", "issue"} =>
          users[k.user].status = "NONE"
    /\ k.op = "invite" /\ k.pc = "issue" =>
          /\ \A l \in Links :
                LiveLink(l, "INVITATION") /\ tokens[l].user = k.user => l \in k.doomed
          /\ \A l \in k.doomed : l \in Links /\ ThereToken(l)

CallInv(c) == CallShape(c) /\ Validated(c) /\ OldOnes(c) /\ Checked(c)

AInv ==
    /\ TypeOK
    /\ \A u \in Users : UserShape(u)
    /\ OneLiveLink
    /\ EndsInTime
    /\ LocksExclusive
    /\ \A c \in Calls : CallInv(c)

=============================================================================
