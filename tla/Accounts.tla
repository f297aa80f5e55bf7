------------------------------ MODULE Accounts ------------------------------
(***************************************************************************)
(* Accounts: registration and login with a password, and login with Google *)
(* (internal/user).  The callback of the latter looks the identity up and  *)
(* creates the user and the identity in one transaction of                 *)
(* db.WithinTransaction, while other requests do the same.                 *)
(*                                                                         *)
(* MySQL is external: an INSERT waits while another transaction holds an   *)
(* uncommitted row with the same unique key and fails with error 1062 if   *)
(* there is a committed one; a plain SELECT sees committed rows; readers   *)
(* go to a replica, which applies the commits in order.  A user's id is    *)
(* the request that created it.                                            *)
(***************************************************************************)
EXTENDS Integers, Sequences

CONSTANTS
    Requests,      \* HTTP requests
    Emails, Passwords, Subjects,
    MaxTxRetries,  \* maxTxRetries = 3
    Faults,        \* which of FaultKinds may happen
    NoUser

\* A deadlock or lock wait timeout, a broken connection, a failure of Google.
FaultKinds == {"deadlock", "connection", "google"}

ASSUME AccountsAssumption ==
    /\ MaxTxRetries \in Nat \ {0}
    /\ Faults \subseteq FaultKinds
    /\ NoUser \notin Requests

\* The requests: POST register, POST login, GET oauth/google/callback.
Bodies ==
    [kind : {"register", "login"}, email : Emails, password : Passwords]
        \cup [kind : {"oauth"}, email : Emails, subject : Subjects]

\* bcrypt, and the empty hash of a user who came through Google.
Hash(p) == [kind |-> "bcrypt", of |-> p]
NoHash == [kind |-> "empty"]
Verify(p, h) == h.kind = "bcrypt" /\ h.of = p

VARIABLES
    users,       \* table users, in the order of the commits
    identities,  \* table oauth_identities
    applied,     \* how many of the users the replica has
    req,         \* body of each request
    pc,          \* where its handler is
    attempt,     \* attempts of its transaction
    newUser, newIdentity,  \* rows its open transaction has inserted
    userID,      \* the user the callback works with
    token,       \* the user its access token is for
    status       \* HTTP status, 0 while it is open

tables == <<users, identities>>
txRows == <<newUser, newIdentity>>
vars == <<tables, applied, req, pc, attempt, txRows, userID, token, status>>

User == [id : Requests, email : Emails, hash : {Hash(p) : p \in Passwords} \cup {NoHash}]
Identity == [subject : Subjects, user : Requests]
Users == {users[i] : i \in 1 .. Len(users)}
ReplicaUsers == {users[i] : i \in 1 .. applied}

TypeOK ==
    /\ users \in Seq(User)
    /\ identities \subseteq Identity
    /\ applied \in 0 .. Len(users)
    /\ req \in [Requests -> Bodies]
    /\ pc \in [Requests -> {"start", "insert", "read", "begin", "lookup", "user",
                            "identity", "commit", "load", "done"}]
    /\ attempt \in [Requests -> 0 .. MaxTxRetries]
    /\ newUser \in [Requests -> SUBSET User]
    /\ newIdentity \in [Requests -> SUBSET Identity]
    /\ userID \in [Requests -> Requests \cup {NoUser}]
    /\ token \in [Requests -> Requests \cup {NoUser}]
    /\ status \in [Requests -> {0, 200, 201, 302, 400, 401, 409, 500, 502}]

Init ==
    /\ users = <<>> /\ identities = {} /\ applied = 0
    /\ req \in [Requests -> Bodies]
    /\ pc = [q \in Requests |-> "start"]
    /\ attempt = [q \in Requests |-> 0]
    /\ newUser = [q \in Requests |-> {}]
    /\ newIdentity = [q \in Requests |-> {}]
    /\ userID = [q \in Requests |-> NoUser]
    /\ token = [q \in Requests |-> NoUser]
    /\ status = [q \in Requests |-> 0]

----------------------------------------------------------------------------

Goto(q, l) == pc' = [pc EXCEPT ![q] = l]

\* The response is written, with an access token for user u, if any, and the
\* handler's variables are gone.
Answer(q, code, u) ==
    /\ Goto(q, "done")
    /\ status' = [status EXCEPT ![q] = code]
    /\ token' = [token EXCEPT ![q] = u]
    /\ attempt' = [attempt EXCEPT ![q] = 0]
    /\ userID' = [userID EXCEPT ![q] = NoUser]

\* An INSERT with this email: another transaction's open row makes it wait.
EmailFree(q, e) == \A o \in Requests \ {q} : \A u \in newUser[o] : u.email # e
EmailTaken(e) == \E u \in Users : u.email = e

(***************************************************************************)
(* Register and Login.                                                     *)
(***************************************************************************)

\* The handler decodes and checks the body, and hashes the password.
Register(q) ==
    /\ pc[q] = "start" /\ req[q].kind = "register"
    /\ \/ Answer(q, 400, NoUser)
       \/ Goto(q, "insert") /\ UNCHANGED <<attempt, userID, token, status>>
    /\ UNCHANGED <<tables, applied, req, txRows>>

\* Repository.Create: one INSERT on the primary, outside a transaction.
Create(q) ==
    /\ pc[q] = "insert"
    /\ EmailFree(q, req[q].email)
    /\ IF EmailTaken(req[q].email)
         THEN Answer(q, 409, NoUser) /\ UNCHANGED users
         ELSE /\ users' = Append(users, [id |-> q, email |-> req[q].email,
                                         hash |-> Hash(req[q].password)])
              /\ Answer(q, 201, q)
    /\ UNCHANGED <<identities, applied, req, txRows>>

\* Another error: 500; if the connection broke, the row may be there.
CreateFails(q) ==
    /\ pc[q] = "insert"
    /\ "connection" \in Faults
    /\ Answer(q, 500, NoUser)
    /\ \/ UNCHANGED users
       \/ /\ EmailFree(q, req[q].email) /\ ~EmailTaken(req[q].email)
          /\ users' = Append(users, [id |-> q, email |-> req[q].email,
                                     hash |-> Hash(req[q].password)])
    /\ UNCHANGED <<identities, applied, req, txRows>>

\* The handler decodes the body.
StartLogin(q) ==
    /\ pc[q] = "start" /\ req[q].kind = "login"
    /\ \/ Answer(q, 400, NoUser)
       \/ Goto(q, "read") /\ UNCHANGED <<attempt, userID, token, status>>
    /\ UNCHANGED <<tables, applied, req, txRows>>

\* Mutant: a user without a hash is let in.
LoginEmptyHash(q) ==
    /\ pc[q] = "read"
    /\ \E u \in ReplicaUsers :
         /\ u.email = req[q].email
         /\ Verify(req[q].password, u.hash) \/ u.hash = NoHash
         /\ Answer(q, 200, u.id)
    /\ UNCHANGED <<tables, applied, req, txRows>>

\* GetByEmail on the reader, then Verify.
Login(q) ==
    /\ pc[q] = "read"
    /\ \E u \in ReplicaUsers :
         /\ u.email = req[q].email
         /\ Verify(req[q].password, u.hash)
         /\ Answer(q, 200, u.id)
    /\ UNCHANGED <<tables, applied, req, txRows>>

\* No such user (on the replica), or the wrong password.
LoginRefused(q) ==
    /\ pc[q] = "read"
    /\ ~\E u \in ReplicaUsers : u.email = req[q].email /\ Verify(req[q].password, u.hash)
    /\ Answer(q, 401, NoUser)
    /\ UNCHANGED <<tables, applied, req, txRows>>

LoginFails(q) ==
    /\ pc[q] = "read"
    /\ "connection" \in Faults
    /\ Answer(q, 500, NoUser)
    /\ UNCHANGED <<tables, applied, req, txRows>>

(***************************************************************************)
(* Callback of the login with Google.                                      *)
(***************************************************************************)

\* The state matches the cookie, the code is exchanged, the token verified.
Callback(q) ==
    /\ pc[q] = "start" /\ req[q].kind = "oauth"
    /\ Goto(q, "begin")
    /\ UNCHANGED <<tables, applied, req, attempt, txRows, userID, token, status>>

\* Wrong state, failed exchange, no or an invalid id_token.
CallbackRefused(q) ==
    /\ pc[q] = "start" /\ req[q].kind = "oauth"
    /\ \E code \in {400} \cup (IF "google" \in Faults THEN {401, 502} ELSE {}) :
         Answer(q, code, NoUser)
    /\ UNCHANGED <<tables, applied, req, txRows>>

Begin(q) ==
    /\ pc[q] = "begin"
    /\ attempt' = [attempt EXCEPT ![q] = @ + 1]
    /\ Goto(q, "lookup")
    /\ UNCHANGED <<tables, applied, req, txRows, userID, token, status>>

\* UpsertOAuthIdentity: the SELECT.  A known subject needs no insert.
Lookup(q) ==
    /\ pc[q] = "lookup"
    /\ LET linked == {i \in identities : i.subject = req[q].subject} IN
         IF linked = {}
           THEN Goto(q, "user") /\ UNCHANGED userID
           ELSE /\ \E i \in linked : userID' = [userID EXCEPT ![q] = i.user]
                /\ Goto(q, "commit")
    /\ UNCHANGED <<tables, applied, req, attempt, txRows, token, status>>

\* Mutant: the user is created on the primary, outside the transaction.
InsertUserAtOnce(q) ==
    /\ pc[q] = "user"
    /\ EmailFree(q, req[q].email) /\ ~EmailTaken(req[q].email)
    /\ users' = Append(users, [id |-> q, email |-> req[q].email, hash |-> NoHash])
    /\ Goto(q, "identity")
    /\ UNCHANGED <<identities, applied, req, attempt, txRows, userID, token, status>>

InsertUser(q) ==
    /\ pc[q] = "user"
    /\ EmailFree(q, req[q].email) /\ ~EmailTaken(req[q].email)
    /\ newUser' = [newUser EXCEPT ![q] =
                     {[id |-> q, email |-> req[q].email, hash |-> NoHash]}]
    /\ Goto(q, "identity")
    /\ UNCHANGED <<tables, applied, req, attempt, newIdentity, userID, token, status>>

SubjectFree(q) ==
    \A o \in Requests \ {q} : \A i \in newIdentity[o] : i.subject # req[q].subject
SubjectTaken(q) == \E i \in identities : i.subject = req[q].subject

\* Mutant: (provider, provider_user_id) is not unique.
InsertIdentityTwice(q) ==
    /\ pc[q] = "identity"
    /\ newIdentity' = [newIdentity EXCEPT ![q] = {[subject |-> req[q].subject, user |-> q]}]
    /\ userID' = [userID EXCEPT ![q] = q]
    /\ Goto(q, "commit")
    /\ UNCHANGED <<tables, applied, req, attempt, newUser, token, status>>

InsertIdentity(q) ==
    /\ pc[q] = "identity"
    /\ SubjectFree(q) /\ ~SubjectTaken(q)
    /\ newIdentity' = [newIdentity EXCEPT ![q] = {[subject |-> req[q].subject, user |-> q]}]
    /\ userID' = [userID EXCEPT ![q] = q]
    /\ Goto(q, "commit")
    /\ UNCHANGED <<tables, applied, req, attempt, newUser, token, status>>

\* Rows of the open transaction are gone.
EndTx(q) ==
    /\ newUser' = [newUser EXCEPT ![q] = {}]
    /\ newIdentity' = [newIdentity EXCEPT ![q] = {}]

\* Mutant: the transaction is left open.
DuplicateLeftOpen(q) ==
    /\ \/ pc[q] = "user" /\ EmailFree(q, req[q].email) /\ EmailTaken(req[q].email)
       \/ pc[q] = "identity" /\ SubjectFree(q) /\ SubjectTaken(q)
    /\ Answer(q, 500, NoUser)
    /\ UNCHANGED <<tables, applied, req, txRows>>

\* Error 1062 of one of the inserts: rolled back and not retried, 500.
Duplicate(q) ==
    /\ \/ pc[q] = "user" /\ EmailFree(q, req[q].email) /\ EmailTaken(req[q].email)
       \/ pc[q] = "identity" /\ SubjectFree(q) /\ SubjectTaken(q)
    /\ EndTx(q)
    /\ Answer(q, 500, NoUser)
    /\ UNCHANGED <<tables, applied, req>>

\* Error 1213 or 1205: rolled back and tried again, up to MaxTxRetries times.
Deadlock(q) ==
    /\ pc[q] \in {"user", "identity"}
    /\ "deadlock" \in Faults
    /\ EndTx(q)
    /\ IF attempt[q] < MaxTxRetries
         THEN Goto(q, "begin") /\ UNCHANGED <<attempt, userID, token, status>>
         ELSE Answer(q, 500, NoUser)
    /\ UNCHANGED <<tables, applied, req>>

CommitRows(q) ==
    /\ users' = IF newUser[q] = {} THEN users
                ELSE Append(users, CHOOSE u \in newUser[q] : TRUE)
    /\ identities' = identities \cup newIdentity[q]

Commit(q) ==
    /\ pc[q] = "commit"
    /\ CommitRows(q)
    /\ EndTx(q)
    /\ Goto(q, "load")
    /\ UNCHANGED <<applied, req, attempt, userID, token, status>>

\* The connection breaks: 500.  During the COMMIT the outcome is unknown.
TxFails(q) ==
    /\ pc[q] \in {"begin", "lookup", "user", "identity", "commit"}
    /\ "connection" \in Faults
    /\ \/ pc[q] = "commit" /\ CommitRows(q)
       \/ UNCHANGED tables
    /\ EndTx(q)
    /\ Answer(q, 500, NoUser)
    /\ UNCHANGED <<applied, req>>

\* GetByID on the reader, then the token and the redirect.
LoadUser(q) ==
    /\ pc[q] = "load"
    /\ \E u \in ReplicaUsers : u.id = userID[q]
    /\ Answer(q, 302, userID[q])
    /\ UNCHANGED <<tables, applied, req, txRows>>

\* The replica does not have the user yet, or fails.
LoadUserFails(q) ==
    /\ pc[q] = "load"
    /\ "connection" \in Faults \/ ~\E u \in ReplicaUsers : u.id = userID[q]
    /\ Answer(q, 500, NoUser)
    /\ UNCHANGED <<tables, applied, req, txRows>>

----------------------------------------------------------------------------

Replicate ==
    /\ applied < Len(users)
    /\ applied' = applied + 1
    /\ UNCHANGED <<tables, req, pc, attempt, txRows, userID, token, status>>

\* Every request is answered.
Done ==
    /\ \A q \in Requests : pc[q] = "done"
    /\ UNCHANGED vars

Handle(q) ==
    \/ Register(q) \/ Create(q) \/ StartLogin(q) \/ Login(q) \/ LoginRefused(q)
    \/ Callback(q) \/ CallbackRefused(q) \/ Begin(q) \/ Lookup(q) \/ InsertUser(q)
    \/ InsertIdentity(q) \/ Duplicate(q) \/ Commit(q) \/ LoadUser(q)
Fail(q) ==
    CreateFails(q) \/ LoginFails(q) \/ Deadlock(q) \/ TxFails(q) \/ LoadUserFails(q)

Next == Replicate \/ Done \/ \E q \in Requests : Handle(q) \/ Fail(q)

Spec == Init /\ [][Next]_vars

\* Handlers run, MySQL answers and the replica follows; faults need not happen.
FairSpec == Spec /\ WF_vars(Replicate) /\ \A q \in Requests : WF_vars(Handle(q))

----------------------------------------------------------------------------
(***************************************************************************)
(* Properties.                                                             *)
(***************************************************************************)

\* A user without a password has an identity to come in by, and an identity
\* its user: no failure, retry or race leaves half of the pair behind.
NoHalfAccount ==
    /\ \A u \in Users : u.hash = NoHash => \E i \in identities : i.user = u.id
    /\ \A i \in identities : \E u \in Users : u.id = i.user

\* All logins of one Google subject get tokens for one and the same user, also
\* the first ones that race each other with different addresses.
OneUserPerSubject ==
    \A q, o \in Requests :
        /\ req[q].kind = "oauth" /\ req[o].kind = "oauth"
        /\ req[q].subject = req[o].subject
        /\ status[q] = 302 /\ status[o] = 302
        => token[q] = token[o]

\* Every answer agrees with the committed tables: a token is for a committed
\* user who registered with that address and password or whom the subject is
\* linked to; 409 means that the address is taken.
AnswersAgree ==
    \A q \in Requests :
        /\ status[q] \in {200, 201} =>
             \E u \in Users : /\ u.id = token[q] /\ u.email = req[q].email
                              /\ u.hash = Hash(req[q].password)
        /\ status[q] = 302 => [subject |-> req[q].subject, user |-> token[q]] \in identities
        /\ status[q] = 409 => EmailTaken(req[q].email)

Atomic == INSTANCE AtomicAccounts WITH
              want <- req, members <- Users, links <- identities, answer <- status

\* The handlers, with their transactions, retries, failures and late replica,
\* do what the abstract specification does in single steps.
ImplementsAtomicAccounts == Atomic!Spec

\* No request waits for ever for the locks of another.
EveryRequestEnds == \A q \in Requests : <>(pc[q] = "done")

============================================================================
