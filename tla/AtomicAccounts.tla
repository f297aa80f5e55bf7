--------------------------- MODULE AtomicAccounts ---------------------------
(***************************************************************************)
(* What registration and login promise, with no transactions, retries or   *)
(* replica: an account comes into being in one step, together with the     *)
(* Google identity that opens it if it has no password; no address and no  *)
(* subject is used twice; and a token goes only to somebody who has shown  *)
(* the password or the identity of the account it is for.                  *)
(* (internal/user/service.go, oauth_handler.go:75-81)                      *)
(***************************************************************************)
CONSTANTS Requests, Bodies, Hash(_), NoHash, NoUser

VARIABLES
    want,     \* the body of each request
    members,  \* the accounts
    links,    \* which Google subject opens which account
    answer,   \* the HTTP status sent, 0 before
    token     \* whom the access token is for

vars == <<want, members, links, answer, token>>

Init ==
    /\ want \in [Requests -> Bodies]
    /\ members = {} /\ links = {}
    /\ answer = [q \in Requests |-> 0]
    /\ token = [q \in Requests |-> NoUser]

Reply(q, code, u) ==
    /\ answer' = [answer EXCEPT ![q] = code]
    /\ token' = [token EXCEPT ![q] = u]

Taken(e) == \E m \in members : m.email = e

\* q has no account yet, and makes one.
Join(q, hash) ==
    /\ \A m \in members : m.id # q
    /\ ~Taken(want[q].email)
    /\ members' = members \cup {[id |-> q, email |-> want[q].email, hash |-> hash]}

Register(q) ==
    /\ want[q].kind = "register"
    /\ Join(q, Hash(want[q].password))
    /\ Reply(q, 201, q) \/ Reply(q, 500, NoUser)
    /\ UNCHANGED links

\* The first login of a subject; the token follows, unless the answer is lost.
Connect(q) ==
    /\ want[q].kind = "oauth"
    /\ \A l \in links : l.subject # want[q].subject
    /\ Join(q, NoHash)
    /\ links' = links \cup {[subject |-> want[q].subject, user |-> q]}
    /\ UNCHANGED <<answer, token>> \/ Reply(q, 500, NoUser)

Enter(q) ==
    /\ \/ /\ want[q].kind = "login"
          /\ \E m \in members : /\ m.email = want[q].email
                                /\ m.hash = Hash(want[q].password)
                                /\ Reply(q, 200, m.id)
       \/ /\ want[q].kind = "oauth"
          /\ \E l \in links : l.subject = want[q].subject /\ Reply(q, 302, l.user)
    /\ UNCHANGED <<members, links>>

\* Only 409 says something about the accounts: a login may miss a new one.
Refuse(q) ==
    /\ \E code \in {400, 401, 409, 500, 502} :
         /\ code = 409 => want[q].kind = "register" /\ Taken(want[q].email)
         /\ code = 401 => want[q].kind # "register"
         /\ code = 502 => want[q].kind = "oauth"
         /\ Reply(q, code, NoUser)
    /\ UNCHANGED <<members, links>>

Next ==
    \E q \in Requests :
        /\ answer[q] = 0
        /\ Register(q) \/ Connect(q) \/ Enter(q) \/ Refuse(q)
        /\ UNCHANGED want

Spec == Init /\ [][Next]_vars

\* No two accounts share an address, and no two subjects an account or the
\* other way round.
Apart ==
    /\ \A m, n \in members : m.email = n.email \/ m.id = n.id => m = n
    /\ \A k, l \in links : k.subject = l.subject \/ k.user = l.user => k = l

============================================================================
