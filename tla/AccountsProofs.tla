--------------------------- MODULE AccountsProofs ---------------------------
(***************************************************************************)
(* Proofs about accounts, for any number of requests, addresses, passwords *)
(* and Google subjects and any number of retries.                          *)
(*                                                                         *)
(* What a request knows of the tables stays true because rows are never    *)
(* removed.  That the callbacks of one subject agree on a user rests on    *)
(* the unique key, which has to hold for the rows of the open transactions *)
(* too (SubjectsOK), and on the two rows of a new account being inserted   *)
(* by one transaction (TxOK).                                              *)
(***************************************************************************)
EXTENDS Accounts, SequenceTheorems, TLAPS

CallbackSteps == {"begin", "lookup", "user", "identity", "commit", "load"}

\* Which handler is where, and how often it has begun its transaction.
HandlersOK ==
    \A q \in Requests :
        /\ pc[q] = "insert" => req[q].kind = "register"
        /\ pc[q] = "read" => req[q].kind = "login"
        /\ pc[q] \in CallbackSteps => req[q].kind = "oauth"
        /\ pc[q] = "start" => attempt[q] = 0
        /\ pc[q] = "begin" => attempt[q] < MaxTxRetries
        /\ status[q] # 0 => pc[q] = "done"

Link(q, u) == [subject |-> req[q].subject, user |-> u]
GoogleUser(q) == [id |-> q, email |-> req[q].email, hash |-> NoHash]

\* The rows of a request's transaction, and what a callback knows of its user.
TxPart(q) ==
    /\ pc[q] \notin {"identity", "commit"} => newUser[q] = {}
    /\ pc[q] # "commit" => newIdentity[q] = {}
    /\ pc[q] = "identity" => newUser[q] = {GoogleUser(q)}
    /\ pc[q] = "commit" =>
          \/ newUser[q] = {} /\ newIdentity[q] = {} /\ Link(q, userID[q]) \in identities
          \/ /\ newUser[q] = {GoogleUser(q)} /\ newIdentity[q] = {Link(q, q)}
             /\ userID[q] = q
    /\ pc[q] = "load" => Link(q, userID[q]) \in identities

TxOK == \A q \in Requests : TxPart(q)

\* The unique key (provider, provider_user_id), over committed rows and those of
\* open transactions.
SubjectsOK ==
    /\ \A i, j \in identities : i.subject = j.subject => i = j
    /\ \A q \in Requests : \A i \in newIdentity[q] :
          /\ \A j \in identities : i.subject # j.subject
          /\ \A o \in Requests \ {q} : \A j \in newIdentity[o] : i.subject # j.subject

AccountsInv ==
    TypeOK /\ HandlersOK /\ TxOK /\ SubjectsOK /\ NoHalfAccount /\ AnswersAgree

----------------------------------------------------------------------------
(***************************************************************************)
(* Bodies and rows.                                                        *)
(***************************************************************************)

\* What the bodies of the three requests have.
LEMMA BodyFacts ==
    ASSUME NEW b \in Bodies
    PROVE  /\ b.email \in Emails
           /\ b.kind # "oauth" => b.password \in Passwords
           /\ b.kind = "oauth" => b.subject \in Subjects
BY DEF Bodies

\* bcrypt accepts only the password a hash was made from, and no empty hash.
LEMMA VerifyFacts ==
    ASSUME NEW u \in User, NEW p, Verify(p, u.hash)
    PROVE  u.hash = Hash(p)
<1>1. u.hash \in {Hash(x) : x \in Passwords} \cup {NoHash}
  BY DEF User
<1>2. u.hash.kind = "bcrypt" /\ u.hash.of = p
  BY DEF Verify
<1>3. u.hash # NoHash
  BY <1>2 DEF NoHash
<1> QED  BY <1>1, <1>2, <1>3 DEF Hash

\* An INSERT into users adds one row and removes none.
LEMMA AppendFacts ==
    ASSUME users \in Seq(User), NEW u \in User, users' = Append(users, u)
    PROVE  /\ users' \in Seq(User)
           /\ Len(users) \in Nat /\ Len(users') = Len(users) + 1
           /\ \A i \in 1 .. Len(users) : users'[i] = users[i]
           /\ Users' = Users \cup {u}
<1>1. /\ users' \in Seq(User) /\ Len(users) \in Nat /\ Len(users') = Len(users) + 1
      /\ \A i \in 1 .. Len(users) : users'[i] = users[i]
      /\ users'[Len(users) + 1] = u
  BY AppendProperties, LenProperties
<1>2. \A i \in 1 .. Len(users') : i \in 1 .. Len(users) \/ i = Len(users) + 1
  BY <1>1
<1>3. \A i \in 1 .. Len(users) : i \in 1 .. Len(users')
  BY <1>1
<1>4. Len(users) + 1 \in 1 .. Len(users')
  BY <1>1
<1>5. Users' \subseteq Users \cup {u}
  BY <1>1, <1>2 DEF Users
<1>6. Users \cup {u} \subseteq Users'
  BY <1>1, <1>3, <1>4 DEF Users
<1> QED  BY <1>1, <1>5, <1>6

\* The replica has some of the users.
LEMMA ReplicaFacts ==
    ASSUME TypeOK
    PROVE  ReplicaUsers \subseteq Users /\ Users \subseteq User
<1>1. Len(users) \in Nat /\ applied \in 0 .. Len(users)
  BY LenProperties DEF TypeOK
<1>2. \A i \in 1 .. Len(users) : users[i] \in User
  BY ElementOfSeq DEF TypeOK
<1> QED  BY <1>1, <1>2 DEF ReplicaUsers, Users

LEMMA RowsTyped ==
    ASSUME TypeOK, NEW q \in Requests
    PROVE  /\ GoogleUser(q) \in User
           /\ req[q].kind # "oauth" =>
                 [id |-> q, email |-> req[q].email, hash |-> Hash(req[q].password)] \in User
           /\ req[q].kind = "oauth" => Link(q, q) \in Identity
<1>1. req[q] \in Bodies
  BY DEF TypeOK
<1>2. req[q].email \in Emails
  BY <1>1, BodyFacts
<1> QED  BY <1>1, <1>2, BodyFacts DEF GoogleUser, Link, User, Identity

\* What a COMMIT, or an INSERT outside a transaction, adds to the tables.
LEMMA CommitFacts ==
    ASSUME AccountsInv, NEW q \in Requests, pc[q] = "commit", CommitRows(q)
    PROVE  /\ users' \in Seq(User) /\ applied \in 0 .. Len(users')
           /\ Users' = Users \cup newUser[q]
           /\ identities' = identities \cup newIdentity[q]
           /\ identities' \subseteq Identity
<1>0. TypeOK /\ applied \in 0 .. Len(users) /\ Len(users) \in Nat
  BY LenProperties DEF AccountsInv, TypeOK
<1>1. identities' = identities \cup newIdentity[q] /\ identities' \subseteq Identity
  BY <1>0 DEF CommitRows, TypeOK
<1>2. CASE newUser[q] = {}
  <2>1. users' = users
    BY <1>2 DEF CommitRows
  <2> QED  BY <1>0, <1>1, <1>2, <2>1 DEF TypeOK, Users
<1>3. CASE newUser[q] = {GoogleUser(q)}
  <2>1. (CHOOSE u \in newUser[q] : TRUE) = GoogleUser(q)
    BY <1>3
  <2>2. newUser[q] # {}
    BY <1>3
  <2>3. users' = Append(users, GoogleUser(q))
    BY <2>1, <2>2 DEF CommitRows
  <2>4. /\ users' \in Seq(User) /\ Len(users') = Len(users) + 1
        /\ Users' = Users \cup {GoogleUser(q)}
    BY <1>0, <2>3, RowsTyped, AppendFacts DEF TypeOK
  <2> QED  BY <1>0, <1>1, <1>3, <2>4
<1> QED  BY <1>2, <1>3 DEF AccountsInv, TxOK, TxPart

----------------------------------------------------------------------------
(***************************************************************************)
(* Types.                                                                  *)
(***************************************************************************)

\* The types of a handler's own variables.
HandlerTypeOK ==
    /\ pc \in [Requests -> {"start", "insert", "read", "begin", "lookup", "user",
                            "identity", "commit", "load", "done"}]
    /\ attempt \in [Requests -> 0 .. MaxTxRetries]
    /\ userID \in [Requests -> Requests \cup {NoUser}]
    /\ token \in [Requests -> Requests \cup {NoUser}]
    /\ status \in [Requests -> {0, 200, 201, 302, 400, 401, 409, 500, 502}]

LEMMA AnswerTyped ==
    ASSUME TypeOK, NEW q \in Requests,
           NEW code \in {200, 201, 302, 400, 401, 409, 500, 502},
           NEW u \in Requests \cup {NoUser}, Answer(q, code, u)
    PROVE  HandlerTypeOK'
BY AccountsAssumption DEF Answer, Goto, TypeOK, HandlerTypeOK

\* A step of the handler that writes no response.
LEMMA GotoTyped ==
    ASSUME TypeOK, NEW q \in Requests,
           NEW l \in {"insert", "read", "begin", "lookup", "user", "identity", "commit",
                      "load"},
           Goto(q, l), UNCHANGED <<attempt, token, status>>,
           userID' \in [Requests -> Requests \cup {NoUser}]
    PROVE  HandlerTypeOK'
BY DEF Goto, TypeOK, HandlerTypeOK

\* Types of the tables and of the open transactions.
RowTypeOK ==
    /\ users \in Seq(User)
    /\ identities \subseteq Identity
    /\ applied \in 0 .. Len(users)
    /\ req \in [Requests -> Bodies]
    /\ newUser \in [Requests -> SUBSET User]
    /\ newIdentity \in [Requests -> SUBSET Identity]

LEMMA TypeParts == TypeOK <=> RowTypeOK /\ HandlerTypeOK
BY DEF TypeOK, RowTypeOK, HandlerTypeOK

LEMMA EndTxTyped ==
    ASSUME TypeOK, NEW q \in Requests, EndTx(q)
    PROVE  /\ newUser' \in [Requests -> SUBSET User]
           /\ newIdentity' \in [Requests -> SUBSET Identity]
BY DEF TypeOK, EndTx

\* A new user row outside a transaction.
LEMMA CreateTyped ==
    ASSUME TypeOK, NEW u \in User, users' = Append(users, u) \/ UNCHANGED users
    PROVE  users' \in Seq(User) /\ applied \in 0 .. Len(users')
<1>1. applied \in 0 .. Len(users) /\ Len(users) \in Nat
  BY LenProperties DEF TypeOK
<1>2. CASE users' = Append(users, u)
  BY <1>1, <1>2, AppendFacts DEF TypeOK
<1>3. CASE UNCHANGED users
  BY <1>1, <1>3 DEF TypeOK
<1> QED  BY <1>2, <1>3

\* Every variable keeps its type.
LEMMA TypeStep ==
    ASSUME AccountsInv, [Next]_vars
    PROVE  TypeOK'
<1>0. TypeOK /\ HandlersOK /\ TxOK
  BY DEF AccountsInv
<1>a. ASSUME NEW q \in Requests, req[q].kind # "oauth",
             \/ UNCHANGED users
             \/ users' = Append(users, [id |-> q, email |-> req[q].email,
                                        hash |-> Hash(req[q].password)]),
             UNCHANGED <<identities, applied, req, newUser, newIdentity>>
      PROVE  RowTypeOK'
  <2>1. users' \in Seq(User) /\ applied \in 0 .. Len(users')
    BY <1>0, <1>a, RowsTyped, CreateTyped
  <2> QED  BY <1>0, <1>a, <2>1 DEF TypeOK, RowTypeOK
<1>b. ASSUME UNCHANGED <<users, identities, applied, req, newUser, newIdentity>>
      PROVE  RowTypeOK'
  BY <1>0, <1>b DEF TypeOK, RowTypeOK
<1> SUFFICES RowTypeOK' /\ HandlerTypeOK'
  BY TypeParts, PTL
<1>1. CASE Replicate \/ UNCHANGED vars
  <2>1. Len(users) \in Nat
    BY <1>0, LenProperties DEF TypeOK
  <2> QED  BY <1>0, <1>1, <2>1
           DEF Replicate, vars, tables, txRows, TypeOK, RowTypeOK, HandlerTypeOK
<1>2. ASSUME NEW q \in Requests, Register(q) \/ StartLogin(q)
      PROVE  RowTypeOK' /\ HandlerTypeOK'
  <2>1. HandlerTypeOK'
    BY <1>0, <1>2, AnswerTyped, GotoTyped DEF Register, StartLogin, TypeOK
  <2> QED  BY <1>2, <1>b, <2>1 DEF Register, StartLogin, tables, txRows
<1>3. ASSUME NEW q \in Requests, Create(q) \/ CreateFails(q)
      PROVE  RowTypeOK' /\ HandlerTypeOK'
  <2>0. \/ Answer(q, 409, NoUser) \/ Answer(q, 201, q) \/ Answer(q, 500, NoUser)
    BY <1>3 DEF Create, CreateFails
  <2>1. HandlerTypeOK'
    BY <1>0, <2>0, AnswerTyped
  <2>2. req[q].kind # "oauth"
    BY <1>0, <1>3 DEF Create, CreateFails, HandlersOK
  <2> QED  BY <1>3, <1>a, <2>1, <2>2 DEF Create, CreateFails, txRows
<1>4. ASSUME NEW q \in Requests, Callback(q) PROVE RowTypeOK' /\ HandlerTypeOK'
  <2>1. HandlerTypeOK'
    BY <1>0, <1>4, GotoTyped DEF Callback, TypeOK
  <2> QED  BY <1>4, <1>b, <2>1 DEF Callback, tables, txRows
<1>5. ASSUME NEW q \in Requests, Login(q) PROVE RowTypeOK' /\ HandlerTypeOK'
  <2>1. PICK u \in ReplicaUsers : Answer(q, 200, u.id)
    BY <1>5 DEF Login
  <2>2. u.id \in Requests
    BY <1>0, ReplicaFacts DEF User
  <2>3. HandlerTypeOK'
    BY <1>0, <2>1, <2>2, AnswerTyped
  <2> QED  BY <1>5, <1>b, <2>3 DEF Login, tables, txRows
<1>6. ASSUME NEW q \in Requests,
             LoginRefused(q) \/ LoginFails(q) \/ CallbackRefused(q) \/ LoadUserFails(q)
      PROVE  RowTypeOK' /\ HandlerTypeOK'
  <2>1. \E code \in {400, 401, 500, 502} : Answer(q, code, NoUser)
    BY <1>6 DEF LoginRefused, LoginFails, CallbackRefused, LoadUserFails
  <2>2. HandlerTypeOK'
    BY <1>0, <2>1, AnswerTyped
  <2> QED  BY <1>6, <1>b, <2>2
           DEF LoginRefused, LoginFails, CallbackRefused, LoadUserFails, tables, txRows
<1>7. ASSUME NEW q \in Requests, Begin(q) PROVE RowTypeOK' /\ HandlerTypeOK'
  <2>1. HandlerTypeOK'
    BY <1>0, <1>7, AccountsAssumption DEF Begin, Goto, TypeOK, HandlersOK, HandlerTypeOK
  <2> QED  BY <1>7, <1>b, <2>1 DEF Begin, tables, txRows
<1>8. ASSUME NEW q \in Requests, Lookup(q) PROVE RowTypeOK' /\ HandlerTypeOK'
  <2>0. UNCHANGED userID \/ \E i \in identities : userID' = [userID EXCEPT ![q] = i.user]
    BY <1>8 DEF Lookup
  <2>1. userID' \in [Requests -> Requests \cup {NoUser}]
    <3>1. \A i \in identities : i.user \in Requests \cup {NoUser}
      BY <1>0 DEF TypeOK, Identity
    <3>2. userID \in [Requests -> Requests \cup {NoUser}]
      BY <1>0 DEF TypeOK
    <3> QED  BY <2>0, <3>1, <3>2
  <2>2. Goto(q, "user") \/ Goto(q, "commit")
    BY <1>8 DEF Lookup
  <2>3. HandlerTypeOK'
    BY <1>0, <1>8, <2>1, <2>2, GotoTyped DEF Lookup
  <2> QED  BY <1>8, <1>b, <2>3 DEF Lookup, tables, txRows
<1>9. ASSUME NEW q \in Requests, InsertUser(q) PROVE RowTypeOK' /\ HandlerTypeOK'
  <2>1. HandlerTypeOK'
    BY <1>0, <1>9, GotoTyped DEF InsertUser, TypeOK
  <2>2. newUser' \in [Requests -> SUBSET User]
    <3>1. {GoogleUser(q)} \in SUBSET User
      BY <1>0, RowsTyped
    <3>2. newUser' = [newUser EXCEPT ![q] = {GoogleUser(q)}]
      BY <1>9 DEF InsertUser, GoogleUser
    <3> QED  BY <1>0, <3>1, <3>2 DEF TypeOK
  <2> QED  BY <1>0, <1>9, <2>1, <2>2 DEF InsertUser, TypeOK, RowTypeOK, tables
<1>10. ASSUME NEW q \in Requests, InsertIdentity(q) PROVE RowTypeOK' /\ HandlerTypeOK'
  <2>1. userID' \in [Requests -> Requests \cup {NoUser}]
    BY <1>0, <1>10 DEF InsertIdentity, TypeOK
  <2>2. HandlerTypeOK'
    BY <1>0, <1>10, <2>1, GotoTyped DEF InsertIdentity
  <2>3. Link(q, q) \in Identity
    BY <1>0, <1>10, RowsTyped DEF InsertIdentity, HandlersOK, CallbackSteps
  <2>4. newIdentity' \in [Requests -> SUBSET Identity]
    BY <1>0, <1>10, <2>3 DEF InsertIdentity, TypeOK, Link
  <2> QED  BY <1>0, <1>10, <2>2, <2>4 DEF InsertIdentity, TypeOK, RowTypeOK, tables
<1>11. ASSUME NEW q \in Requests, Duplicate(q) \/ Deadlock(q)
       PROVE  RowTypeOK' /\ HandlerTypeOK'
  <2>1. HandlerTypeOK'
    BY <1>0, <1>11, AnswerTyped, GotoTyped DEF Duplicate, Deadlock, TypeOK
  <2>2. EndTx(q) /\ UNCHANGED <<users, identities, applied, req>>
    BY <1>11 DEF Duplicate, Deadlock, tables
  <2> QED  BY <1>0, <2>1, <2>2, EndTxTyped DEF TypeOK, RowTypeOK
<1>12. ASSUME NEW q \in Requests, Commit(q) \/ TxFails(q)
       PROVE  RowTypeOK' /\ HandlerTypeOK'
  <2>1. HandlerTypeOK'
    BY <1>0, <1>12, AnswerTyped, GotoTyped DEF Commit, TxFails, TypeOK
  <2>2. EndTx(q) /\ UNCHANGED <<applied, req>>
    BY <1>12 DEF Commit, TxFails
  <2>3. (pc[q] = "commit" /\ CommitRows(q)) \/ UNCHANGED <<users, identities>>
    BY <1>12 DEF Commit, TxFails, tables
  <2>4. users' \in Seq(User) /\ identities' \subseteq Identity /\ applied' \in 0 .. Len(users')
    BY <1>0, <2>2, <2>3, CommitFacts DEF TypeOK
  <2> QED  BY <1>0, <2>1, <2>2, <2>4, EndTxTyped DEF TypeOK, RowTypeOK
<1>13. ASSUME NEW q \in Requests, LoadUser(q) PROVE RowTypeOK' /\ HandlerTypeOK'
  <2>1. HandlerTypeOK'
    BY <1>0, <1>13, AnswerTyped DEF LoadUser, TypeOK
  <2> QED  BY <1>13, <1>b, <2>1 DEF LoadUser, tables, txRows
<1> QED
  BY <1>1, <1>2, <1>3, <1>4, <1>5, <1>6, <1>7, <1>8, <1>9, <1>10, <1>11, <1>12, <1>13
     DEF Next, Handle, Fail, Done

----------------------------------------------------------------------------
(***************************************************************************)
(* The other parts of the invariant.                                       *)
(***************************************************************************)

\* Handlers move from place to place as the code does.
LEMMA HandlersStep ==
    ASSUME AccountsInv, [Next]_vars
    PROVE  HandlersOK'
<1>0. TypeOK /\ HandlersOK
  BY DEF AccountsInv
<1>1. ASSUME NEW q \in Requests, NEW code, NEW u, Answer(q, code, u), UNCHANGED req
      PROVE  HandlersOK'
  BY <1>0, <1>1 DEF TypeOK, HandlersOK, Answer, Goto, CallbackSteps
<1>2. CASE Replicate \/ UNCHANGED vars
  BY <1>0, <1>2 DEF Replicate, vars, HandlersOK
<1>3. ASSUME NEW q \in Requests, Register(q) \/ StartLogin(q) \/ Callback(q)
      PROVE  HandlersOK'
  <2>1. pc[q] = "start" /\ attempt[q] = 0 /\ 0 < MaxTxRetries
    BY <1>0, <1>3, AccountsAssumption DEF HandlersOK, Register, StartLogin, Callback
  <2>2. CASE Register(q)
    <3>1. CASE Answer(q, 400, NoUser)
      BY <1>1, <2>2, <3>1 DEF Register
    <3>2. CASE Goto(q, "insert") /\ UNCHANGED <<attempt, userID, token, status>>
      BY <1>0, <2>2, <3>2 DEF Register, TypeOK, HandlersOK, Goto, CallbackSteps
    <3> QED  BY <2>2, <3>1, <3>2 DEF Register
  <2>3. CASE StartLogin(q)
    <3>1. CASE Answer(q, 400, NoUser)
      BY <1>1, <2>3, <3>1 DEF StartLogin
    <3>2. CASE Goto(q, "read") /\ UNCHANGED <<attempt, userID, token, status>>
      BY <1>0, <2>3, <3>2 DEF StartLogin, TypeOK, HandlersOK, Goto, CallbackSteps
    <3> QED  BY <2>3, <3>1, <3>2 DEF StartLogin
  <2>4. CASE Callback(q)
    BY <1>0, <2>1, <2>4 DEF Callback, TypeOK, HandlersOK, Goto, CallbackSteps
  <2> QED  BY <1>3, <2>2, <2>3, <2>4
<1>4. ASSUME NEW q \in Requests,
             Create(q) \/ CreateFails(q) \/ Login(q) \/ LoginRefused(q) \/ LoginFails(q)
             \/ CallbackRefused(q) \/ Duplicate(q) \/ TxFails(q) \/ LoadUser(q)
             \/ LoadUserFails(q)
      PROVE  HandlersOK'
  BY <1>1, <1>4
     DEF Create, CreateFails, Login, LoginRefused, LoginFails, CallbackRefused, Duplicate,
         TxFails, LoadUser, LoadUserFails
<1>5. ASSUME NEW q \in Requests,
             Begin(q) \/ Lookup(q) \/ InsertUser(q) \/ InsertIdentity(q) \/ Commit(q)
      PROVE  HandlersOK'
  <2>1. req[q].kind = "oauth" /\ pc[q] # "done"
    BY <1>0, <1>5
       DEF HandlersOK, CallbackSteps, Begin, Lookup, InsertUser, InsertIdentity, Commit
  <2>2. CASE Begin(q)
    BY <1>0, <2>1, <2>2 DEF Begin, TypeOK, HandlersOK, Goto, CallbackSteps
  <2>3. CASE Lookup(q)
    <3>1. Goto(q, "user") \/ Goto(q, "commit")
      BY <2>3 DEF Lookup
    <3> QED  BY <1>0, <2>1, <2>3, <3>1 DEF Lookup, TypeOK, HandlersOK, Goto, CallbackSteps
  <2>4. CASE InsertUser(q)
    BY <1>0, <2>1, <2>4 DEF InsertUser, TypeOK, HandlersOK, Goto, CallbackSteps
  <2>5. CASE InsertIdentity(q)
    BY <1>0, <2>1, <2>5 DEF InsertIdentity, TypeOK, HandlersOK, Goto, CallbackSteps
  <2>6. CASE Commit(q)
    BY <1>0, <2>1, <2>6 DEF Commit, TypeOK, HandlersOK, Goto, CallbackSteps
  <2> QED  BY <1>5, <2>2, <2>3, <2>4, <2>5, <2>6
<1>6. ASSUME NEW q \in Requests, Deadlock(q) PROVE HandlersOK'
  <2>1. req[q].kind = "oauth" /\ UNCHANGED req
    BY <1>0, <1>6 DEF HandlersOK, CallbackSteps, Deadlock
  <2>2. CASE Answer(q, 500, NoUser)
    BY <1>1, <2>1, <2>2
  <2>3. CASE /\ attempt[q] < MaxTxRetries
             /\ Goto(q, "begin") /\ UNCHANGED <<attempt, userID, token, status>>
    BY <1>0, <1>6, <2>1, <2>3 DEF Deadlock, TypeOK, HandlersOK, Goto, CallbackSteps
  <2> QED  BY <1>6, <2>2, <2>3 DEF Deadlock
<1> QED
  BY <1>2, <1>3, <1>4, <1>5, <1>6 DEF Next, Handle, Fail, Done

\* Committed rows stay, and requests keep their bodies.
LEMMA RowsStay ==
    ASSUME AccountsInv, [Next]_vars
    PROVE  Users \subseteq Users' /\ identities \subseteq identities' /\ UNCHANGED req
<1>0. TypeOK /\ HandlersOK
  BY DEF AccountsInv
<1>1. ASSUME NEW q \in Requests, Create(q) \/ CreateFails(q)
      PROVE  Users \subseteq Users' /\ identities \subseteq identities' /\ UNCHANGED req
  <2>1. req[q].kind # "oauth"
    BY <1>0, <1>1 DEF Create, CreateFails, HandlersOK
  <2>2. \/ UNCHANGED users
        \/ users' = Append(users, [id |-> q, email |-> req[q].email,
                                    hash |-> Hash(req[q].password)])
    BY <1>1 DEF Create, CreateFails
  <2>3. Users \subseteq Users'
    <3>1. CASE UNCHANGED users
      BY <3>1 DEF Users
    <3>2. CASE ~UNCHANGED users
      BY <1>0, <2>1, <2>2, <3>2, RowsTyped, AppendFacts DEF TypeOK
    <3> QED  BY <3>1, <3>2
  <2> QED  BY <1>1, <2>3 DEF Create, CreateFails
<1>2. ASSUME NEW q \in Requests, Commit(q) \/ TxFails(q)
      PROVE  Users \subseteq Users' /\ identities \subseteq identities' /\ UNCHANGED req
  <2>1. CASE pc[q] = "commit" /\ CommitRows(q)
    BY <1>2, <2>1, CommitFacts DEF Commit, TxFails
  <2>2. CASE UNCHANGED <<users, identities>>
    BY <1>2, <2>2 DEF Commit, TxFails, Users
  <2> QED  BY <1>2, <2>1, <2>2 DEF Commit, TxFails, tables
<1>3. ASSUME UNCHANGED <<users, identities, req>>
      PROVE  Users \subseteq Users' /\ identities \subseteq identities' /\ UNCHANGED req
  BY <1>3 DEF Users
<1> QED
  BY <1>1, <1>2, <1>3
     DEF Next, Handle, Fail, Done, Replicate, Register, StartLogin, Login, LoginRefused,
         LoginFails, Callback, CallbackRefused, Begin, Lookup, InsertUser, InsertIdentity,
         Duplicate, Deadlock, LoadUser, LoadUserFails, vars, tables

\* A request touches no other request's variables.
LEMMA OthersKeep ==
    ASSUME AccountsInv, NEW q \in Requests, Handle(q) \/ Fail(q), NEW o \in Requests, o # q
    PROVE  /\ pc'[o] = pc[o] /\ userID'[o] = userID[o]
           /\ token'[o] = token[o] /\ status'[o] = status[o]
           /\ newUser'[o] = newUser[o] /\ newIdentity'[o] = newIdentity[o]
<1> USE DEF Goto, Answer, EndTx, txRows
<1>0. TypeOK
  BY DEF AccountsInv
<1>1. CASE Register(q) \/ StartLogin(q) \/ Callback(q) \/ Begin(q)
  BY <1>0, <1>1 DEF TypeOK, Register, StartLogin, Callback, Begin
<1>2. CASE Create(q) \/ CreateFails(q)
  BY <1>0, <1>2 DEF TypeOK, Create, CreateFails
<1>3. CASE Login(q) \/ LoginRefused(q) \/ LoginFails(q) \/ CallbackRefused(q)
  BY <1>0, <1>3 DEF TypeOK, Login, LoginRefused, LoginFails, CallbackRefused
<1>4. CASE Lookup(q) \/ InsertUser(q) \/ InsertIdentity(q)
  BY <1>0, <1>4 DEF TypeOK, Lookup, InsertUser, InsertIdentity
<1>5. CASE Duplicate(q) \/ Deadlock(q)
  BY <1>0, <1>5 DEF TypeOK, Duplicate, Deadlock
<1>6. CASE Commit(q) \/ TxFails(q)
  BY <1>0, <1>6 DEF TypeOK, Commit, TxFails
<1>7. CASE LoadUser(q) \/ LoadUserFails(q)
  BY <1>0, <1>7 DEF TypeOK, LoadUser, LoadUserFails
<1> QED  BY <1>1, <1>2, <1>3, <1>4, <1>5, <1>6, <1>7 DEF Handle, Fail

\* The two rows of a new account are inserted, committed and dropped together.
LEMMA TxStep ==
    ASSUME AccountsInv, [Next]_vars
    PROVE  TxOK'
<1>0. TypeOK /\ TxOK /\ HandlersOK /\ UNCHANGED req /\ identities \subseteq identities'
  BY RowsStay DEF AccountsInv
<1>1. CASE Replicate \/ UNCHANGED vars
  BY <1>0, <1>1
     DEF Replicate, vars, tables, txRows, TxOK, TxPart, Link, GoogleUser
<1>2. ASSUME NEW q \in Requests, Handle(q) \/ Fail(q) PROVE TxOK'
  <2>1. ASSUME NEW o \in Requests, o # q PROVE TxPart(o)'
    BY <1>0, <1>2, <2>1, OthersKeep DEF TxOK, TxPart, Link, GoogleUser
  <2>a. TxPart(q)
    BY <1>0 DEF TxOK
  <2>2. TxPart(q)'
    <3> USE DEF TxPart, Link, GoogleUser
    <3>1. ASSUME EndTx(q), pc'[q] = "done" \/ pc'[q] = "begin" PROVE TxPart(q)'
      BY <1>0, <3>1 DEF EndTx, TypeOK
    <3>2. ASSUME UNCHANGED <<newUser, newIdentity>>,
                 pc[q] \notin {"identity", "commit"},
                 pc'[q] \notin {"identity", "commit", "load"}
          PROVE  TxPart(q)'
      BY <1>0, <2>a, <3>2
    <3>3. CASE Register(q) \/ StartLogin(q) \/ Callback(q) \/ Begin(q)
      BY <1>0, <3>2, <3>3
         DEF Register, StartLogin, Callback, Begin, Goto, Answer, txRows, TypeOK
    <3>4. CASE Create(q) \/ CreateFails(q) \/ Login(q) \/ LoginRefused(q) \/ LoginFails(q)
               \/ CallbackRefused(q) \/ LoadUser(q) \/ LoadUserFails(q)
      BY <1>0, <3>2, <3>4
         DEF Create, CreateFails, Login, LoginRefused, LoginFails, CallbackRefused,
             LoadUser, LoadUserFails, Goto, Answer, txRows, TypeOK
    <3>5. CASE Lookup(q)
      <4>1. CASE pc'[q] = "user"
        BY <3>2, <3>5, <4>1 DEF Lookup, txRows
      <4>2. CASE pc'[q] = "commit"
        <5>1. PICK i \in identities : i.subject = req[q].subject /\ userID'[q] = i.user
          BY <1>0, <3>5, <4>2 DEF Lookup, Goto, TypeOK
        <5>2. i = [subject |-> req[q].subject, user |-> userID'[q]]
          BY <1>0, <5>1 DEF TypeOK, Identity
        <5> QED  BY <1>0, <2>a, <3>5, <4>2, <5>1, <5>2 DEF Lookup, txRows
      <4> QED  BY <1>0, <3>5, <4>1, <4>2 DEF Lookup, Goto, TypeOK
    <3>6. CASE InsertUser(q)
      BY <1>0, <2>a, <3>6 DEF InsertUser, Goto, TypeOK
    <3>7. CASE InsertIdentity(q)
      BY <1>0, <2>a, <3>7 DEF InsertIdentity, Goto, TypeOK
    <3>8. CASE Duplicate(q) \/ Deadlock(q) \/ TxFails(q)
      BY <1>0, <3>1, <3>8 DEF Duplicate, Deadlock, TxFails, Goto, Answer, TypeOK
    <3>9. CASE Commit(q)
      <4>1. /\ identities' = identities \cup newIdentity[q] /\ userID' = userID
            /\ newUser'[q] = {} /\ newIdentity'[q] = {} /\ pc'[q] = "load"
            /\ pc[q] = "commit"
        BY <1>0, <3>9 DEF Commit, CommitRows, EndTx, Goto, TypeOK
      <4> QED  BY <1>0, <2>a, <4>1
    <3> QED  BY <1>2, <3>3, <3>4, <3>5, <3>6, <3>7, <3>8, <3>9 DEF Handle, Fail
  <2> QED  BY <2>1, <2>2 DEF TxOK
<1> QED  BY <1>1, <1>2 DEF Next, Done

\* No two rows of oauth_identities get the same subject, whoever inserts them and
\* whenever they are committed.
LEMMA SubjectsStep ==
    ASSUME AccountsInv, [Next]_vars
    PROVE  SubjectsOK'
<1>0. TypeOK /\ TxOK /\ SubjectsOK
  BY DEF AccountsInv
<1>1. ASSUME UNCHANGED <<identities, newIdentity>> PROVE SubjectsOK'
  BY <1>0, <1>1 DEF SubjectsOK
<1>2. ASSUME NEW q \in Requests, EndTx(q), UNCHANGED identities PROVE SubjectsOK'
  <2>1. \A o \in Requests : newIdentity'[o] \subseteq newIdentity[o]
    BY <1>0, <1>2 DEF EndTx, TypeOK
  <2> QED  BY <1>0, <1>2, <2>1 DEF SubjectsOK
<1>3. ASSUME NEW q \in Requests, EndTx(q), identities' = identities \cup newIdentity[q]
      PROVE  SubjectsOK'
  <2>1. /\ newIdentity'[q] = {}
        /\ \A o \in Requests \ {q} : newIdentity'[o] = newIdentity[o]
    BY <1>0, <1>3 DEF EndTx, TypeOK
  <2>2. \A i, j \in newIdentity[q] : i = j
    BY <1>0 DEF TxOK, TxPart
  <2> QED  BY <1>0, <1>3, <2>1, <2>2 DEF SubjectsOK
<1>4. ASSUME NEW q \in Requests, InsertIdentity(q) PROVE SubjectsOK'
  <2>1. /\ newIdentity'[q] = {Link(q, q)} /\ UNCHANGED identities
        /\ \A o \in Requests \ {q} : newIdentity'[o] = newIdentity[o]
    BY <1>0, <1>4 DEF InsertIdentity, TypeOK, Link, tables
  <2>2. Link(q, q).subject = req[q].subject
    BY DEF Link
  <2>3. /\ \A j \in identities : j.subject # req[q].subject
        /\ \A o \in Requests \ {q} : \A j \in newIdentity[o] : j.subject # req[q].subject
    BY <1>4 DEF InsertIdentity, SubjectFree, SubjectTaken
  <2> HIDE DEF Link
  <2> QED  BY <1>0, <2>1, <2>2, <2>3 DEF SubjectsOK
<1>5. ASSUME NEW q \in Requests, Commit(q) \/ TxFails(q) PROVE SubjectsOK'
  BY <1>2, <1>3, <1>5 DEF Commit, TxFails, CommitRows, tables
<1>6. ASSUME NEW q \in Requests, Duplicate(q) \/ Deadlock(q) PROVE SubjectsOK'
  BY <1>2, <1>6 DEF Duplicate, Deadlock, tables
<1> QED
  BY <1>1, <1>4, <1>5, <1>6
     DEF Next, Handle, Fail, Done, Replicate, Register, Create, CreateFails, StartLogin,
         Login, LoginRefused, LoginFails, Callback, CallbackRefused, Begin, Lookup,
         InsertUser, LoadUser, LoadUserFails, vars, tables, txRows

\* Neither an error, nor a retry, nor a lost connection leaves half an account.
LEMMA HalfStep ==
    ASSUME AccountsInv, [Next]_vars
    PROVE  NoHalfAccount'
<1>0. TypeOK /\ TxOK /\ HandlersOK /\ NoHalfAccount
  BY DEF AccountsInv
<1>1. ASSUME UNCHANGED <<users, identities>> PROVE NoHalfAccount'
  BY <1>0, <1>1 DEF NoHalfAccount, Users
<1>2. ASSUME NEW q \in Requests, Create(q) \/ CreateFails(q) PROVE NoHalfAccount'
  <2> DEFINE row == [id |-> q, email |-> req[q].email, hash |-> Hash(req[q].password)]
  <2>1. UNCHANGED identities /\ (UNCHANGED users \/ users' = Append(users, row))
    BY <1>2 DEF Create, CreateFails
  <2>2. row \in User
    BY <1>0, <1>2, RowsTyped DEF Create, CreateFails, HandlersOK
  <2>3. row.hash # NoHash
    <3>1. Hash(req[q].password).kind = "bcrypt" /\ NoHash.kind = "empty"
      BY DEF Hash, NoHash
    <3> QED  BY <3>1
  <2>4. CASE users' = Append(users, row)
    <3> HIDE DEF row
    <3>1. Users' = Users \cup {row}
      BY <1>0, <2>2, <2>4, AppendFacts DEF TypeOK
    <3> QED  BY <1>0, <2>1, <2>3, <3>1 DEF NoHalfAccount
  <2> QED  BY <1>1, <2>1, <2>4
<1>3. ASSUME NEW q \in Requests, pc[q] = "commit", CommitRows(q) PROVE NoHalfAccount'
  <2>1. Users' = Users \cup newUser[q] /\ identities' = identities \cup newIdentity[q]
    BY <1>3, CommitFacts
  <2>2. CASE newUser[q] = {} /\ newIdentity[q] = {}
    BY <1>0, <2>1, <2>2 DEF NoHalfAccount
  <2>3. CASE newUser[q] = {GoogleUser(q)} /\ newIdentity[q] = {Link(q, q)}
    <3>1. GoogleUser(q).id = q /\ Link(q, q).user = q
      BY DEF GoogleUser, Link
    <3> QED  BY <1>0, <2>1, <2>3, <3>1 DEF NoHalfAccount
  <2> QED  BY <1>0, <1>3, <2>2, <2>3 DEF TxOK, TxPart
<1>4. ASSUME NEW q \in Requests, Commit(q) \/ TxFails(q) PROVE NoHalfAccount'
  BY <1>1, <1>3, <1>4 DEF Commit, TxFails, tables
<1> QED
  BY <1>1, <1>2, <1>4
     DEF Next, Handle, Fail, Done, Replicate, Register, StartLogin,
         Login, LoginRefused, LoginFails, Callback, CallbackRefused, Begin, Lookup,
         InsertUser, InsertIdentity, Duplicate, Deadlock, LoadUser, LoadUserFails, vars,
         tables

\* What AnswersAgree says of one request.
AnswerPart(q) ==
    /\ status[q] \in {200, 201} =>
         \E u \in Users : /\ u.id = token[q] /\ u.email = req[q].email
                          /\ u.hash = Hash(req[q].password)
    /\ status[q] = 302 => Link(q, token[q]) \in identities
    /\ status[q] = 409 => EmailTaken(req[q].email)

LEMMA AnswerParts == AnswersAgree <=> \A q \in Requests : AnswerPart(q)
BY DEF AnswersAgree, AnswerPart, Link

\* An answer agrees with the tables when it is given, and they only grow.
LEMMA AnswersStep ==
    ASSUME AccountsInv, [Next]_vars
    PROVE  AnswersAgree'
<1>0. /\ TypeOK /\ TxOK /\ HandlersOK
      /\ UNCHANGED req /\ Users \subseteq Users' /\ identities \subseteq identities'
      /\ \A q \in Requests : AnswerPart(q)
  BY RowsStay, AnswerParts DEF AccountsInv
<1>a. ASSUME NEW q \in Requests, status'[q] = status[q], token'[q] = token[q]
      PROVE  AnswerPart(q)'
  BY <1>0, <1>a DEF AnswerPart, Link, EmailTaken
<1> SUFFICES \A q \in Requests : AnswerPart(q)'
  BY DEF AnswersAgree, AnswerPart, Link
<1>1. CASE Replicate \/ UNCHANGED vars
  BY <1>a, <1>1 DEF Replicate, vars
<1>2. ASSUME NEW q \in Requests, Handle(q) \/ Fail(q) PROVE \A o \in Requests : AnswerPart(o)'
  <2>1. \A o \in Requests \ {q} : AnswerPart(o)'
    BY <1>2, <1>a, OthersKeep
  <2> SUFFICES AnswerPart(q)'
    BY <2>1
  <2>a. ASSUME NEW code \in {200, 201, 302, 400, 401, 409, 500, 502}, NEW u,
               Answer(q, code, u)
        PROVE  status'[q] = code /\ token'[q] = u
    BY <1>0, <2>a DEF Answer, TypeOK
  <2>2. ASSUME NEW code \in {400, 401, 500, 502}, Answer(q, code, NoUser)
        PROVE  AnswerPart(q)'
    BY <2>2, <2>a DEF AnswerPart
  <2>3. CASE Register(q) \/ StartLogin(q) \/ Callback(q) \/ Begin(q) \/ Lookup(q)
             \/ InsertUser(q) \/ InsertIdentity(q) \/ Deadlock(q) \/ Commit(q)
    <3>1. CASE UNCHANGED <<token, status>>
      BY <1>a, <3>1
    <3> QED  BY <2>2, <2>3, <3>1
             DEF Register, StartLogin, Callback, Begin, Lookup, InsertUser, InsertIdentity,
                 Deadlock, Commit
  <2>4. CASE CreateFails(q) \/ LoginRefused(q) \/ LoginFails(q) \/ CallbackRefused(q)
             \/ Duplicate(q) \/ TxFails(q) \/ LoadUserFails(q)
    BY <2>2, <2>4
       DEF CreateFails, LoginRefused, LoginFails, CallbackRefused, Duplicate, TxFails,
           LoadUserFails
  <2>5. CASE Create(q)
    <3>1. CASE EmailTaken(req[q].email)
      <4>1. Answer(q, 409, NoUser)
        BY <2>5, <3>1 DEF Create
      <4>2. EmailTaken(req[q].email)'
        BY <1>0, <3>1 DEF EmailTaken
      <4> QED  BY <2>a, <4>1, <4>2 DEF AnswerPart
    <3>2. CASE ~EmailTaken(req[q].email)
      <4> DEFINE row == [id |-> q, email |-> req[q].email, hash |-> Hash(req[q].password)]
      <4>1. Answer(q, 201, q) /\ users' = Append(users, row)
        BY <2>5, <3>2 DEF Create
      <4>2. row \in User
        BY <1>0, <2>5, RowsTyped DEF Create, HandlersOK
      <4>3. row.id = q /\ row.email = req[q].email /\ row.hash = Hash(req[q].password)
        OBVIOUS
      <4> HIDE DEF row
      <4>4. row \in Users'
        BY <1>0, <4>1, <4>2, AppendFacts DEF TypeOK
      <4>5. status'[q] = 201 /\ token'[q] = q
        BY <2>a, <4>1
      <4>6. \E u \in Users' : /\ u.id = token'[q] /\ u.email = req'[q].email
                              /\ u.hash = Hash(req'[q].password)
        BY <1>0, <4>3, <4>4, <4>5
      <4> QED  BY <4>5, <4>6 DEF AnswerPart
    <3> QED  BY <3>1, <3>2
  <2>6. CASE Login(q)
    <3>1. PICK u \in ReplicaUsers : /\ u.email = req[q].email
                                    /\ Verify(req[q].password, u.hash)
                                    /\ Answer(q, 200, u.id)
      BY <2>6 DEF Login
    <3>2. u \in User /\ u \in Users'
      BY <1>0, ReplicaFacts
    <3>3. u.hash = Hash(req[q].password)
      BY <3>1, <3>2, VerifyFacts
    <3>4. status'[q] = 200 /\ token'[q] = u.id
      BY <2>a, <3>1
    <3>5. \E v \in Users' : /\ v.id = token'[q] /\ v.email = req'[q].email
                            /\ v.hash = Hash(req'[q].password)
      BY <1>0, <3>1, <3>2, <3>3, <3>4
    <3> QED  BY <3>4, <3>5 DEF AnswerPart
  <2>7. CASE LoadUser(q)
    <3>1. status'[q] = 302 /\ token'[q] = userID[q]
      BY <2>a, <2>7 DEF LoadUser
    <3>2. Link(q, userID[q]) \in identities
      BY <1>0, <2>7 DEF LoadUser, TxOK, TxPart
    <3> QED  BY <1>0, <3>1, <3>2 DEF AnswerPart, Link
  <2> QED  BY <1>2, <2>3, <2>4, <2>5, <2>6, <2>7 DEF Handle, Fail
<1> QED  BY <1>1, <1>2 DEF Next, Done

----------------------------------------------------------------------------
(***************************************************************************)
(* Theorems.                                                               *)
(***************************************************************************)

\* Before the first request the tables are empty.
LEMMA AccountsInit == Init => AccountsInv
<1> SUFFICES ASSUME Init PROVE AccountsInv
  OBVIOUS
<1>1. users \in Seq(User) /\ Len(users) = 0 /\ Users = {}
  <2>1. users = <<>>
    BY DEF Init
  <2>2. users \in Seq(User) /\ Len(users) = 0
    BY <2>1, EmptySeq
  <2> QED  BY <2>2 DEF Users
<1>2. TypeOK
  BY <1>1, AccountsAssumption DEF Init, TypeOK
<1>3. HandlersOK
  BY AccountsAssumption DEF Init, HandlersOK, CallbackSteps
<1>4. TxOK /\ SubjectsOK
  BY DEF Init, TxOK, TxPart, SubjectsOK
<1>5. NoHalfAccount /\ AnswersAgree
  BY <1>1 DEF Init, NoHalfAccount, AnswersAgree
<1> QED  BY <1>2, <1>3, <1>4, <1>5 DEF AccountsInv

\* AccountsInv is inductive: it holds in every reachable state.
THEOREM AccountsInvariant == Spec => []AccountsInv
<1>1. AccountsInv /\ [Next]_vars => AccountsInv'
  BY TypeStep, HandlersStep, TxStep, SubjectsStep, HalfStep, AnswersStep DEF AccountsInv
<1> QED  BY <1>1, AccountsInit, PTL DEF Spec

\* Every variable keeps its type, whatever the requests do and whatever fails.
THEOREM TypeCorrect == Spec => []TypeOK
<1>1. AccountsInv => TypeOK
  BY DEF AccountsInv
<1> QED  BY <1>1, AccountsInvariant, PTL

\* UpsertOAuthIdentity and WithinTransaction leave no user without a password
\* that nobody can come in by, and no identity without its user.
THEOREM NoHalfAccountHolds == Spec => []NoHalfAccount
<1>1. AccountsInv => NoHalfAccount
  BY DEF AccountsInv
<1> QED  BY <1>1, AccountsInvariant, PTL

\* The answers of Register, Login and Callback agree with the committed tables,
\* then and ever after.
THEOREM AnswersAgreeHolds == Spec => []AnswersAgree
<1>1. AccountsInv => AnswersAgree
  BY DEF AccountsInv
<1> QED  BY <1>1, AccountsInvariant, PTL

\* However many callbacks of one Google subject race, all that succeed get tokens
\* for the same user.
THEOREM OneUserPerSubjectHolds == Spec => []OneUserPerSubject
<1>1. AccountsInv => OneUserPerSubject
  <2> SUFFICES ASSUME AccountsInv, NEW q \in Requests, NEW o \in Requests,
                      req[q].subject = req[o].subject, status[q] = 302, status[o] = 302
               PROVE  token[q] = token[o]
    BY DEF OneUserPerSubject
  <2>1. Link(q, token[q]) \in identities /\ Link(o, token[o]) \in identities
    BY DEF AccountsInv, AnswersAgree, Link
  <2>2. Link(q, token[q]).subject = Link(o, token[o]).subject
    BY DEF Link
  <2>3. Link(q, token[q]) = Link(o, token[o])
    BY <2>1, <2>2 DEF AccountsInv, SubjectsOK
  <2>4. Link(q, token[q]).user = token[q] /\ Link(o, token[o]).user = token[o]
    BY DEF Link
  <2> QED  BY <2>3, <2>4
<1> QED  BY <1>1, AccountsInvariant, PTL

----------------------------------------------------------------------------
(***************************************************************************)
(* The refinement.  What is added to users is new: EmailsOK is the unique  *)
(* key on addresses over committed and open rows, and IdsOK says that a    *)
(* request that has made its account makes no other.                       *)
(***************************************************************************)

EmailsOK ==
    \A q \in Requests : \A u \in newUser[q] :
        /\ ~EmailTaken(u.email)
        /\ \A o \in Requests \ {q} : \A v \in newUser[o] : u.email # v.email

Late == {"load", "done"}
IdsOK == \A u \in Users : u.id \in Requests /\ pc[u.id] \in Late

PasswordUser(q) == [id |-> q, email |-> req[q].email, hash |-> Hash(req[q].password)]

\* The row that q adds, with its password or without.
Adds(q, u) == u.id = q /\ u.email = req[q].email /\ Users' = Users \cup {u}

\* q's account is new, and nobody else is about to take its address.
Unclaimed(q) ==
    /\ ~EmailTaken(req[q].email)
    /\ \A o \in Requests \ {q} : \A v \in newUser[o] : v.email # req[q].email

\* Where rows are added: by the INSERT of Create, and by the COMMIT.
LEMMA CreateAdds ==
    ASSUME AccountsInv, NEW q \in Requests, Create(q) \/ CreateFails(q)
    PROVE  \/ UNCHANGED users
           \/ Adds(q, PasswordUser(q)) /\ Unclaimed(q)
<1>0. TypeOK /\ HandlersOK
  BY DEF AccountsInv
<1>1. PasswordUser(q) \in User
  BY <1>0, RowsTyped DEF Create, CreateFails, HandlersOK, PasswordUser
<1>2. PasswordUser(q).id = q /\ PasswordUser(q).email = req[q].email
  BY DEF PasswordUser
<1>3. ASSUME ~UNCHANGED users
      PROVE  /\ users' = Append(users, PasswordUser(q))
             /\ EmailFree(q, req[q].email) /\ ~EmailTaken(req[q].email)
  BY <1>3 DEF Create, CreateFails, PasswordUser
<1>4. ASSUME ~UNCHANGED users PROVE Users' = Users \cup {PasswordUser(q)}
  BY <1>0, <1>1, <1>3, <1>4, AppendFacts DEF TypeOK
<1> QED  BY <1>2, <1>3, <1>4 DEF Adds, Unclaimed, EmailFree

LEMMA CommitAdds ==
    ASSUME AccountsInv, EmailsOK, NEW q \in Requests, pc[q] = "commit", CommitRows(q)
    PROVE  \/ Users' = Users /\ UNCHANGED identities
           \/ /\ Adds(q, GoogleUser(q)) /\ Unclaimed(q)
              /\ identities' = identities \cup {Link(q, q)}
              /\ \A i \in identities : i.subject # req[q].subject
<1>1. Users' = Users \cup newUser[q] /\ identities' = identities \cup newIdentity[q]
  BY CommitFacts
<1>2. GoogleUser(q).id = q /\ GoogleUser(q).email = req[q].email
      /\ Link(q, q).subject = req[q].subject
  BY DEF GoogleUser, Link
<1>3. CASE newUser[q] = {} /\ newIdentity[q] = {}
  BY <1>1, <1>3
<1>4. CASE newUser[q] = {GoogleUser(q)} /\ newIdentity[q] = {Link(q, q)}
  <2>1. Unclaimed(q)
    <3>1. GoogleUser(q) \in newUser[q]
      BY <1>4
    <3> QED  BY <1>2, <3>1 DEF EmailsOK, Unclaimed
  <2>2. \A i \in identities : i.subject # req[q].subject
    <3>1. Link(q, q) \in newIdentity[q]
      BY <1>4
    <3> QED  BY <1>2, <3>1 DEF AccountsInv, SubjectsOK
  <2> QED  BY <1>1, <1>2, <1>4, <2>1, <2>2 DEF Adds
<1> QED  BY <1>3, <1>4 DEF AccountsInv, TxOK, TxPart

\* A request that is past its transaction stays so.
LEMMA LateStays ==
    ASSUME AccountsInv, NEW q \in Requests, Handle(q) \/ Fail(q), NEW o \in Requests,
           pc[o] \in Late
    PROVE  pc'[o] \in Late
<1> USE DEF Late
<1>1. CASE o # q
  BY <1>1, OthersKeep
<1>2. CASE o = q
  <2>1. LoadUser(q) \/ LoadUserFails(q)
    BY <1>2
       DEF Handle, Fail, Register, Create, CreateFails, StartLogin, Login, LoginRefused,
           LoginFails, Callback, CallbackRefused, Begin, Lookup, InsertUser, InsertIdentity,
           Duplicate, Deadlock, Commit, TxFails
  <2>2. Goto(q, "done") /\ TypeOK
    BY <2>1 DEF LoadUser, LoadUserFails, Answer, AccountsInv
  <2> QED  BY <1>2, <2>2 DEF Goto, TypeOK
<1> QED  BY <1>1, <1>2

FreshInv == EmailsOK /\ IdsOK

\* The account of q is added when q is done with its transaction.
LEMMA AddsKeepFresh ==
    ASSUME AccountsInv, FreshInv, NEW q \in Requests, Handle(q) \/ Fail(q),
           NEW u, Adds(q, u), Unclaimed(q), newUser'[q] = {}, pc'[q] \in Late
    PROVE  FreshInv'
<1>1. \A o \in Requests \ {q} : newUser'[o] = newUser[o]
  BY OthersKeep
<1>2. \A v \in Users' : v \in Users \/ v = u
  BY DEF Adds
<1>3. EmailsOK'
  <2> SUFFICES ASSUME NEW o \in Requests, NEW v \in newUser'[o]
               PROVE  /\ ~EmailTaken(v.email)'
                      /\ \A p \in Requests \ {o} : \A w \in newUser'[p] : v.email # w.email
    BY DEF EmailsOK
  <2>1. o # q /\ v \in newUser[o]
    BY <1>1
  <2>2. v.email # req[q].email /\ ~EmailTaken(v.email)
    BY <2>1 DEF FreshInv, EmailsOK, Unclaimed
  <2>3. ~EmailTaken(v.email)'
    BY <1>2, <2>2 DEF EmailTaken, Adds
  <2> QED  BY <1>1, <2>1, <2>3 DEF FreshInv, EmailsOK
<1>4. IdsOK'
  BY <1>2, LateStays DEF FreshInv, IdsOK, Adds
<1> QED  BY <1>3, <1>4 DEF FreshInv

LEMMA FreshStep ==
    ASSUME AccountsInv, FreshInv, [Next]_vars
    PROVE  FreshInv'
<1>0. TypeOK /\ TxOK /\ EmailsOK /\ IdsOK
  BY DEF AccountsInv, FreshInv
<1>1. CASE Replicate \/ UNCHANGED vars
  BY <1>0, <1>1
     DEF Replicate, vars, tables, txRows, FreshInv, EmailsOK, IdsOK, EmailTaken, Users
<1>2. ASSUME NEW q \in Requests, Handle(q) \/ Fail(q), Users' = Users,
             newUser'[q] \subseteq newUser[q]
      PROVE  FreshInv'
  <2>1. \A o \in Requests : newUser'[o] \subseteq newUser[o]
    BY <1>2, OthersKeep
  <2>2. EmailsOK'
    BY <1>0, <1>2, <2>1 DEF EmailsOK, EmailTaken
  <2>3. IdsOK'
    BY <1>0, <1>2, LateStays DEF IdsOK
  <2> QED  BY <2>2, <2>3 DEF FreshInv
<1>3. ASSUME NEW q \in Requests, Create(q) \/ CreateFails(q) PROVE FreshInv'
  <2>1. UNCHANGED newUser /\ pc'[q] = "done" /\ newUser[q] = {}
    <3>1. pc[q] = "insert" /\ UNCHANGED newUser /\ Goto(q, "done")
      BY <1>3 DEF Create, CreateFails, Answer, txRows
    <3>2. TxPart(q)
      BY <1>0 DEF TxOK
    <3>3. newUser[q] = {}
      BY <3>1, <3>2 DEF TxPart
    <3> QED  BY <1>0, <3>1, <3>3 DEF Goto, TypeOK
  <2>2. Handle(q) \/ Fail(q)
    BY <1>3 DEF Handle, Fail
  <2>3. CASE UNCHANGED users
    BY <1>2, <2>1, <2>2, <2>3 DEF Users
  <2>4. CASE Adds(q, PasswordUser(q)) /\ Unclaimed(q)
    BY <2>1, <2>2, <2>4, AddsKeepFresh DEF Late
  <2> QED  BY <1>3, <2>3, <2>4, CreateAdds
<1>4. ASSUME NEW q \in Requests, Commit(q) \/ TxFails(q) PROVE FreshInv'
  <2>1. newUser'[q] = {} /\ pc'[q] \in Late
    BY <1>0, <1>4 DEF Commit, TxFails, EndTx, Answer, Goto, TypeOK, Late
  <2>2. Handle(q) \/ Fail(q)
    BY <1>4 DEF Handle, Fail
  <2>3. CASE UNCHANGED users \/ Users' = Users
    BY <1>2, <2>1, <2>2, <2>3 DEF Users
  <2>4. CASE Adds(q, GoogleUser(q)) /\ Unclaimed(q)
    BY <2>1, <2>2, <2>4, AddsKeepFresh
  <2>5. UNCHANGED users \/ (pc[q] = "commit" /\ CommitRows(q))
    BY <1>4 DEF Commit, TxFails, tables
  <2> QED  BY <1>0, <2>3, <2>4, <2>5, CommitAdds
<1>5. ASSUME NEW q \in Requests, InsertUser(q) PROVE FreshInv'
  <2>1. /\ newUser'[q] = {GoogleUser(q)} /\ UNCHANGED users
        /\ \A o \in Requests \ {q} : newUser'[o] = newUser[o]
        /\ EmailFree(q, req[q].email) /\ ~EmailTaken(req[q].email)
    BY <1>0, <1>5 DEF InsertUser, TypeOK, GoogleUser, tables
  <2>2. GoogleUser(q).email = req[q].email
    BY DEF GoogleUser
  <2>3. EmailsOK'
    <3>1. Users' = Users
      BY <2>1 DEF Users
    <3> QED  BY <1>0, <2>1, <2>2, <3>1 DEF EmailsOK, EmailFree, EmailTaken
  <2>4. IdsOK'
    BY <1>0, <1>5, <2>1, LateStays DEF IdsOK, Users, Handle
  <2> QED  BY <2>3, <2>4 DEF FreshInv
<1>6. ASSUME NEW q \in Requests, Duplicate(q) \/ Deadlock(q) PROVE FreshInv'
  <2>1. newUser'[q] = {} /\ UNCHANGED users
    BY <1>0, <1>6 DEF Duplicate, Deadlock, EndTx, TypeOK, tables
  <2> QED  BY <1>2, <1>6, <2>1 DEF Users, Handle, Fail
<1>7. ASSUME NEW q \in Requests, Handle(q) \/ Fail(q), UNCHANGED <<users, newUser>>
      PROVE  FreshInv'
  BY <1>2, <1>7 DEF Users
<1> QED
  BY <1>1, <1>3, <1>4, <1>5, <1>6, <1>7
     DEF Next, Handle, Fail, Done, Register, StartLogin, Login, LoginRefused, LoginFails,
         Callback, CallbackRefused, Begin, Lookup, InsertIdentity, LoadUser, LoadUserFails,
         tables, txRows

\* Every step is one of AtomicAccounts or invisible there.
LEMMA RefinementStep ==
    ASSUME AccountsInv, FreshInv, [Next]_vars
    PROVE  [Atomic!Next]_Atomic!vars
<1>0. TypeOK /\ TxOK /\ HandlersOK /\ EmailsOK /\ IdsOK /\ UNCHANGED req
  BY RowsStay DEF AccountsInv, FreshInv
<1>1. ASSUME UNCHANGED <<users, identities, status, token>> PROVE UNCHANGED Atomic!vars
  BY <1>0, <1>1 DEF Atomic!vars, Users
<1>2. ASSUME NEW q \in Requests, pc[q] # "done",
             Atomic!Register(q) \/ Atomic!Connect(q) \/ Atomic!Enter(q) \/ Atomic!Refuse(q)
      PROVE  Atomic!Next
  BY <1>0, <1>2 DEF Atomic!Next, HandlersOK
<1>3. ASSUME NEW q \in Requests, NEW code, NEW u, Answer(q, code, u)
      PROVE  Atomic!Reply(q, code, u)
  BY <1>3 DEF Answer, Atomic!Reply
<1>4. ASSUME NEW q \in Requests, NEW code \in {400, 401, 500, 502}, Answer(q, code, NoUser),
             code = 401 => req[q].kind # "register", code = 502 => req[q].kind = "oauth",
             Users' = Users, UNCHANGED identities
      PROVE  Atomic!Refuse(q)
  BY <1>3, <1>4 DEF Atomic!Refuse
<1>5. ASSUME NEW q \in Requests, pc[q] \notin Late, NEW u, Adds(q, u), Unclaimed(q),
             NEW h, u = [id |-> q, email |-> req[q].email, hash |-> h]
      PROVE  Atomic!Join(q, h)
  BY <1>0, <1>5 DEF Atomic!Join, Atomic!Taken, Adds, Unclaimed, EmailTaken, IdsOK
<1>6. ASSUME NEW q \in Requests, Handle(q) \/ Fail(q) PROVE [Atomic!Next]_Atomic!vars
  <2>1. CASE Callback(q) \/ Begin(q) \/ Lookup(q) \/ InsertUser(q) \/ InsertIdentity(q)
    BY <1>1, <2>1 DEF Callback, Begin, Lookup, InsertUser, InsertIdentity, tables
  <2>2. CASE Register(q) \/ StartLogin(q) \/ Deadlock(q) \/ Duplicate(q) \/ LoginFails(q)
             \/ LoadUserFails(q) \/ LoginRefused(q) \/ CallbackRefused(q)
    <3>1. pc[q] # "done" /\ UNCHANGED <<users, identities>>
      BY <2>2
         DEF Register, StartLogin, Deadlock, Duplicate, LoginFails, LoadUserFails,
             LoginRefused, CallbackRefused, tables
    <3>2. \/ UNCHANGED <<status, token>>
          \/ \E code \in {400, 401, 500, 502} :
               /\ Answer(q, code, NoUser)
               /\ code = 401 => req[q].kind # "register"
               /\ code = 502 => req[q].kind = "oauth"
      BY <1>0, <2>2
         DEF HandlersOK, Register, StartLogin, Deadlock, Duplicate, LoginFails,
             LoadUserFails, LoginRefused, CallbackRefused
    <3>3. Users' = Users
      BY <3>1 DEF Users
    <3> QED  BY <1>1, <1>2, <1>4, <3>1, <3>2, <3>3
  <2>3. CASE Create(q) \/ CreateFails(q)
    <3>1. pc[q] = "insert" /\ UNCHANGED identities /\ req[q].kind = "register"
      BY <1>0, <2>3 DEF Create, CreateFails, HandlersOK
    <3>2. CASE UNCHANGED users
      <4>1. Users' = Users
        BY <3>2 DEF Users
      <4>2. CASE Answer(q, 409, NoUser) /\ EmailTaken(req[q].email)
        BY <1>2, <1>3, <3>1, <4>1, <4>2 DEF Atomic!Refuse, Atomic!Taken, EmailTaken
      <4>3. CASE Answer(q, 500, NoUser)
        BY <1>2, <1>4, <3>1, <4>1, <4>3
      <4>4. users' # Append(users, PasswordUser(q))
        <5>1. PasswordUser(q) \in User
          BY <1>0, <3>1, RowsTyped DEF PasswordUser
        <5> QED  BY <1>0, <3>2, <5>1, AppendProperties, LenProperties DEF TypeOK
      <4> QED  BY <2>3, <4>2, <4>3, <4>4 DEF Create, CreateFails, PasswordUser
    <3>3. CASE ~UNCHANGED users
      <4>1. Adds(q, PasswordUser(q)) /\ Unclaimed(q)
        BY <2>3, <3>3, CreateAdds
      <4>2. Atomic!Join(q, Hash(req[q].password))
        BY <1>5, <3>1, <4>1 DEF PasswordUser, Late
      <4>3. Answer(q, 201, q) \/ Answer(q, 500, NoUser)
        BY <2>3, <3>3 DEF Create, CreateFails
      <4>4. Atomic!Register(q)
        BY <1>3, <3>1, <4>2, <4>3 DEF Atomic!Register
      <4> QED  BY <1>2, <3>1, <4>4
    <3> QED  BY <3>2, <3>3
  <2>4. CASE Commit(q) \/ TxFails(q)
    <3>1. pc[q] \notin Late /\ pc[q] # "done" /\ req[q].kind = "oauth"
      BY <1>0, <2>4 DEF Commit, TxFails, HandlersOK, CallbackSteps, Late
    <3>2. UNCHANGED <<status, token>> \/ Answer(q, 500, NoUser)
      BY <2>4 DEF Commit, TxFails
    <3>3. \/ UNCHANGED <<users, identities>>
          \/ pc[q] = "commit" /\ CommitRows(q)
      BY <2>4 DEF Commit, TxFails, tables
    <3>4. CASE Users' = Users /\ UNCHANGED identities
      <4>1. CASE UNCHANGED <<status, token>>
        BY <1>0, <3>4, <4>1 DEF Atomic!vars
      <4> QED  BY <1>2, <1>4, <3>1, <3>2, <3>4, <4>1
    <3>5. CASE /\ Adds(q, GoogleUser(q)) /\ Unclaimed(q)
               /\ identities' = identities \cup {Link(q, q)}
               /\ \A i \in identities : i.subject # req[q].subject
      <4>1. Atomic!Join(q, NoHash)
        BY <1>5, <3>1, <3>5 DEF GoogleUser
      <4>2. Atomic!Connect(q)
        BY <1>3, <3>1, <3>2, <3>5, <4>1 DEF Atomic!Connect, Link
      <4> QED  BY <1>2, <3>1, <4>2
    <3>6. UNCHANGED users => Users' = Users
      BY DEF Users
    <3> QED  BY <1>0, <3>3, <3>4, <3>5, <3>6, CommitAdds
  <2>5. CASE Login(q)
    <3>1. PICK u \in ReplicaUsers : /\ u.email = req[q].email
                                    /\ Verify(req[q].password, u.hash)
                                    /\ Answer(q, 200, u.id)
      BY <2>5 DEF Login
    <3>2. u \in Users /\ u.hash = Hash(req[q].password)
      BY <1>0, <3>1, ReplicaFacts, VerifyFacts
    <3>3. /\ pc[q] = "read" /\ req[q].kind = "login" /\ UNCHANGED <<users, identities>>
      BY <1>0, <2>5 DEF Login, HandlersOK, tables
    <3>4. Atomic!Enter(q)
      BY <1>3, <3>1, <3>2, <3>3 DEF Atomic!Enter, Users
    <3> QED  BY <1>2, <3>3, <3>4
  <2>6. CASE LoadUser(q)
    <3>1. /\ pc[q] = "load" /\ req[q].kind = "oauth" /\ UNCHANGED <<users, identities>>
          /\ Answer(q, 302, userID[q])
      BY <1>0, <2>6 DEF LoadUser, HandlersOK, CallbackSteps, tables
    <3>2. Link(q, userID[q]) \in identities
      BY <1>0, <3>1 DEF TxOK, TxPart
    <3>3. Link(q, userID[q]).subject = req[q].subject /\ Link(q, userID[q]).user = userID[q]
      BY DEF Link
    <3>4. Atomic!Reply(q, 302, userID[q]) /\ Users' = Users
      BY <1>3, <3>1 DEF Users
    <3>5. Atomic!Enter(q)
      BY <3>1, <3>2, <3>3, <3>4 DEF Atomic!Enter
    <3> QED  BY <1>2, <3>1, <3>5
  <2> QED  BY <1>6, <2>1, <2>2, <2>3, <2>4, <2>5, <2>6 DEF Handle, Fail
<1>7. CASE Replicate \/ UNCHANGED vars
  BY <1>1, <1>7 DEF Replicate, vars, tables
<1> QED  BY <1>6, <1>7 DEF Next, Done

LEMMA FreshInvariant == Spec => []FreshInv
<1>1. Init => FreshInv
  BY AccountsInit DEF Init, FreshInv, EmailsOK, IdsOK, Users
<1>2. AccountsInv /\ FreshInv /\ [Next]_vars => FreshInv'
  BY FreshStep
<1> QED  BY <1>1, <1>2, AccountsInvariant, PTL DEF Spec

\* Register, Login and the OAuth callback, with their transactions, retries, lost
\* connections and late replica, do what AtomicAccounts does in single steps.
THEOREM Refinement == Spec => ImplementsAtomicAccounts
<1>1. Init => Atomic!Init
  <2> SUFFICES ASSUME Init PROVE Atomic!Init
    OBVIOUS
  <2>1. Users = {}
    <3>1. Len(users) = 0
      BY EmptySeq DEF Init
    <3> QED  BY <3>1 DEF Users
  <2> QED  BY <2>1 DEF Init, Atomic!Init
<1>2. AccountsInv /\ FreshInv /\ [Next]_vars => [Atomic!Next]_Atomic!vars
  BY RefinementStep
<1> QED
  BY <1>1, <1>2, AccountsInvariant, FreshInvariant, PTL
     DEF Spec, ImplementsAtomicAccounts, Atomic!Spec

\* No two accounts ever share an address, and a Google subject opens one account
\* only, as the unique keys of the schema ask; this is shown of AtomicAccounts
\* and carries over.
THEOREM AccountsApart == Spec => []Atomic!Apart
<1> DEFINE Owned == \A l \in identities : \E m \in Users : m.id = l.user
           Inv == Atomic!Apart /\ Owned
<1>1. Atomic!Init => Inv
  BY DEF Atomic!Init, Atomic!Apart
<1>2. Inv /\ [Atomic!Next]_Atomic!vars => Inv'
  <2> SUFFICES ASSUME Inv, [Atomic!Next]_Atomic!vars PROVE Inv'
    OBVIOUS
  <2>1. ASSUME Users' = Users, UNCHANGED identities PROVE Inv'
    BY <2>1 DEF Atomic!Apart
  <2>2. ASSUME NEW q \in Requests, NEW h, Atomic!Join(q, h)
        PROVE  \E u : /\ u.id = q /\ Users' = Users \cup {u}
                      /\ \A m \in Users : m.id # u.id /\ m.email # u.email
    <3> DEFINE u == [id |-> q, email |-> req[q].email, hash |-> h]
    <3>1. u.id = q /\ u.email = req[q].email
      OBVIOUS
    <3>2. Users' = Users \cup {u} /\ \A m \in Users : m.id # q /\ m.email # req[q].email
      BY <2>2 DEF Atomic!Join, Atomic!Taken
    <3> HIDE DEF u
    <3> QED  BY <3>1, <3>2
  <2>3. ASSUME NEW q \in Requests, Atomic!Register(q) PROVE Inv'
    <3>1. PICK u : /\ u.id = q /\ Users' = Users \cup {u}
                   /\ \A m \in Users : m.id # u.id /\ m.email # u.email
      BY <2>2, <2>3 DEF Atomic!Register
    <3>2. UNCHANGED identities
      BY <2>3 DEF Atomic!Register
    <3> QED  BY <3>1, <3>2 DEF Atomic!Apart
  <2>4. ASSUME NEW q \in Requests, Atomic!Connect(q) PROVE Inv'
    <3>1. PICK u : /\ u.id = q /\ Users' = Users \cup {u}
                   /\ \A m \in Users : m.id # u.id /\ m.email # u.email
      BY <2>2, <2>4 DEF Atomic!Connect
    <3>2. Link(q, q).subject = req[q].subject /\ Link(q, q).user = q
      BY DEF Link
    <3>3. /\ identities' = identities \cup {Link(q, q)}
          /\ \A l \in identities : l.subject # req[q].subject
      BY <2>4 DEF Atomic!Connect, Link
    <3>4. \A l \in identities : l.user # q
      BY <3>1
    <3>5. \A k, l \in identities' : k.subject = l.subject \/ k.user = l.user => k = l
      BY <3>2, <3>3, <3>4 DEF Atomic!Apart
    <3>6. \A m, n \in Users' : m.email = n.email \/ m.id = n.id => m = n
      BY <3>1 DEF Atomic!Apart
    <3>7. Owned'
      BY <3>1, <3>2, <3>3
    <3> QED  BY <3>5, <3>6, <3>7 DEF Atomic!Apart
  <2> QED  BY <2>1, <2>3, <2>4 DEF Atomic!Next, Atomic!Enter, Atomic!Refuse, Atomic!vars
<1>3. Atomic!Spec => [](Atomic!Apart /\ Owned)
  <2> HIDE DEF Owned
  <2> QED  BY <1>1, <1>2, PTL DEF Atomic!Spec
<1> QED  BY <1>3, Refinement, PTL DEF ImplementsAtomicAccounts

=============================================================================
