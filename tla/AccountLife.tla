----------------------------- MODULE AccountLife -----------------------------
(***************************************************************************)
(* What the server promises about staff accounts and the links it emails:  *)
(* an account is activated once, by an invitation; a password is set by    *)
(* its owner, signed in, or by using up one live link of that account; a   *)
(* link that was used or cancelled never works again.                      *)
(***************************************************************************)
EXTENDS Integers

CONSTANTS Users, Links, Passwords, None

VARIABLES
    account,  \* account[u]: the status and the password
    link,     \* link[l]: where an emailed link is in its life
    changing  \* the accounts whose owner, signed in, is changing the password

vars == <<account, link, changing>>

\* A link's owner, kind and end never change while it exists.
Init ==
    /\ account = [u \in Users |-> [status |-> "NONE", pwd |-> None]]
    /\ link = [l \in Links |-> [state |-> "unused"]]
    /\ changing = {}

Gone == [state |-> "gone"]

Unissued(l) == link[l].state = "unused"

\* A link is sent to u; earlier ones may be cancelled with it.
Send(u, l, cancelled) ==
    /\ Unissued(l)
    /\ DOMAIN link' = Links
    /\ link'[l].state = "live" /\ link'[l].user = u
    /\ \A k \in Links \ {l} :
          link'[k] = IF k \in cancelled THEN Gone ELSE link[k]

Invite(u, l) ==
    /\ \E gone \in SUBSET {k \in Links : ~Unissued(k)} : Send(u, l, gone)
    /\ \/ account[u].status = "NONE"
          /\ account' = [account EXCEPT ![u] = [status |-> "INVITED", pwd |-> None]]
       \/ account[u].status # "NONE" /\ UNCHANGED account

Cancel(gone) ==
    /\ \A k \in gone : ~Unissued(k)
    /\ link' = [k \in Links |-> IF k \in gone THEN Gone
                                ELSE link[k]]
    /\ UNCHANGED account

\* The only ways a link acts, and it acts once.
UseUp(u, l, kind) ==
    /\ link[l].state = "live" /\ link[l].user = u /\ link[l].type = kind
    /\ link' = [link EXCEPT ![l].state = "used"]

Activate(u, l, p) ==
    /\ UseUp(u, l, "INVITATION")
    /\ account[u].status = "INVITED"
    /\ account' = [account EXCEPT ![u] = [status |-> "ACTIVE", pwd |-> p]]

Reset(u, l, p) ==
    /\ UseUp(u, l, "PASSWORD_RESET")
    /\ account[u].status \in {"ACTIVE", "DEACTIVATED"}
    /\ account' = [account EXCEPT ![u].pwd = p]

\* Only while the account is active can its owner be let in.
BeginChange(u) ==
    /\ account[u].status = "ACTIVE"
    /\ changing' = changing \cup {u}
    /\ UNCHANGED <<account, link>>

EndChange(u) ==
    /\ changing' = changing \ {u}
    /\ UNCHANGED <<account, link>>

Change(u, p) ==
    /\ u \in changing
    /\ account[u].pwd # None
    /\ account' = [account EXCEPT ![u].pwd = p]
    /\ changing' \in {changing, changing \ {u}}
    /\ UNCHANGED link

Deactivate(u) ==
    /\ account[u].status = "ACTIVE"
    /\ account' = [account EXCEPT ![u].status = "DEACTIVATED"]
    /\ UNCHANGED link

Owners == \E u \in Users :
    BeginChange(u) \/ EndChange(u) \/ \E p \in Passwords : Change(u, p)

LinksAndAdmins ==
    /\ UNCHANGED changing
    /\ \/ \E gone \in SUBSET Links : Cancel(gone)
       \/ \E u \in Users :
             \/ Deactivate(u)
             \/ \E l \in Links :
                   Invite(u, l) \/ \E p \in Passwords : Activate(u, l, p) \/ Reset(u, l, p)

Next == vars' # vars /\ (Owners \/ LinksAndAdmins)

Spec == Init /\ [][Next]_vars

=============================================================================
