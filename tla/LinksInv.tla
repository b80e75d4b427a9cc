------------------------------ MODULE LinksInv ------------------------------
(***************************************************************************)
(* The inductive invariant of Links: what create() and resend() may rely   *)
(* on at each of their awaits.                                             *)
(***************************************************************************)
EXTENDS Links

\* A stored link has a token of its own time and only sendable copies.
LinkShape(l) ==
    Exists(l) => /\ link[l].token <= tokens
                 /\ \A t \in TestsOf(link[l]) : link[l].attempts[t].snapshot \in Sendable

\* An email names a link that exists, and if its token is the one that works,
\* its expiry is the link's.  Tokens are never used twice, so it stays so.
MailTrue(m) ==
    /\ m.link \in Links /\ Exists(m.link)
    /\ m.token <= tokens
    /\ m.token = link[m.link].token => m.expiresAt = link[m.link].expiresAt

CallShape(r) ==
    LET c == req[r] IN
    /\ c.pc \in {"open", "insert"} =>
          \A t \in c.tests : c.read[t] \in Sendable
    /\ c.pc \in {"sweep", "find", "update", "compose", "mail", "stamp",
                 "lastsweep", "detail"} => c.link \in Links /\ Exists(c.link)
    /\ c.pc = "update" => c.row \in Invitation
    /\ c.pc \in {"compose", "mail", "stamp", "lastsweep", "detail"} =>
          c.token \in Nat /\ c.token <= tokens
    /\ c.pc = "mail" => c.mail \in Mail /\ MailTrue(c.mail)

LInv ==
    /\ TypeOK
    /\ \A l \in Links : LinkShape(l)
    /\ \A m \in mails : MailTrue(m)
    /\ \A r \in Requests : CallShape(r)

=============================================================================
