------------------------- MODULE Connections_proofs -------------------------
(***************************************************************************)
(* The safety of sessions and stored tokens, for any number of accounts,   *)
(* tokens, repositories, requests, arrivals and key versions.              *)
(***************************************************************************)
EXTENDS Connections, SequenceTheorems, TLAPS

(* What a request knows is right, each thing from the step that found it   *)
(* out: q is its state, and us, ss and rs are the tables it refers to.     *)
RequestOK(q, us, ss, rs) ==
    /\ q \in RequestType
    /\ q.cookie <= Len(ss) /\ q.user <= Len(us) /\ q.row <= Len(rs)
    /\ q.op \in {"connect", "reconnect"} /\ q.pc # "using" => q.token \in Tokens
    /\ q.op = "connect" => q.repo \in Names
    /\ q.pc \in {"signin", "session"} => q.token \in Tokens /\ q.op \in {"login", "connect"}
    /\ q.pc = "session" => q.user \in 1..Len(us) /\ us[q.user] = Owner[q.token]
    /\ q.pc = "authenticate" => q.op \notin {"none", "login"}
    /\ q.pc = "logout" => q.cookie \in 1..Len(ss)
    /\ q.pc \in {"revoke", "find", "validate", "save", "reload", "using"} => q.user \in 1..Len(us)
    /\ q.pc \in {"validate", "save", "reload"} => q.op \in {"connect", "reconnect"}
    /\ q.pc = "validate" => q.repo \in Names
    /\ q.pc = "save" => q.repo \in Repos /\ Owner[q.token] = us[q.user]
    /\ q.pc = "reload" => /\ q.row \in 1..Len(rs)
                          /\ rs[q.row].user = q.user /\ rs[q.row].repo = q.repo
    /\ q.pc = "using" =>
          /\ q.row \in 1..Len(rs) /\ rs[q.row].user = q.user
          /\ q.copy \in RowType /\ Owner[q.copy.material.token] = us[q.user]
          /\ q.op \in {"use", "connect"} => rs[q.row].repo = q.repo

Tables ==
    /\ users \in Seq(Accounts)
    /\ sessions \in Seq([user : Users, live : BOOLEAN])
    /\ rows \in Seq(RowType) /\ \A i \in Rows : rows[i].user \in Users
    /\ key \in Nat \ {0} /\ arrivals \in Nat

Inv ==
    /\ Tables
    /\ StoredTokenIsOwn
    /\ req \in [Requests -> RequestType]
    /\ \A r \in Requests : RequestOK(req[r], users, sessions, rows)

(* Tables only grow, and keep who a user is and what a row is about.       *)
TablesGrow ==
    /\ Len(users') \in Nat /\ Len(users) <= Len(users')
    /\ Len(sessions') \in Nat /\ Len(sessions) <= Len(sessions')
    /\ Len(rows') \in Nat /\ Len(rows) <= Len(rows')
    /\ \A u \in Users : users'[u] = users[u]
    /\ \A i \in Rows : rows'[i].user = rows[i].user /\ rows'[i].repo = rows[i].repo

USE ConnectionsAssumption

-----------------------------------------------------------------------------
(* Lemmas about one step *)

LEMMA Same_tables == ASSUME Inv, UNCHANGED <<users, sessions, rows>> PROVE TablesGrow
  BY DEF Inv, Tables, TablesGrow

(* Whoever does not move stays right while the tables grow.                *)
LEMMA RequestStays ==
  ASSUME Inv, TablesGrow, NEW q, RequestOK(q, users, sessions, rows)
  PROVE  RequestOK(q, users', sessions', rows')
<1>1. /\ Len(users) \in Nat /\ Len(sessions) \in Nat /\ Len(rows) \in Nat
      /\ q.cookie \in Nat /\ q.user \in Nat /\ q.row \in Nat
  BY DEF Inv, Tables, RequestOK, RequestType
<1>2. /\ 1..Len(users) \subseteq 1..Len(users') /\ 1..Len(sessions) \subseteq 1..Len(sessions')
      /\ 1..Len(rows) \subseteq 1..Len(rows')
      /\ q.cookie <= Len(sessions') /\ q.user <= Len(users') /\ q.row <= Len(rows')
  BY <1>1 DEF TablesGrow, RequestOK
<1>3. /\ q.user \in 1..Len(users) => users'[q.user] = users[q.user]
      /\ q.row \in 1..Len(rows) => /\ rows'[q.row].user = rows[q.row].user
                                   /\ rows'[q.row].repo = rows[q.row].repo
  BY DEF TablesGrow, Users, Rows
<1> QED  BY <1>2, <1>3 DEF RequestOK

(* One request moves.                                                      *)
LEMMA OneMoves ==
  ASSUME Inv, TablesGrow, NEW r \in Requests, NEW x, req' = [req EXCEPT ![r] = x],
         RequestOK(x, users', sessions', rows')
  PROVE  /\ req' \in [Requests -> RequestType]
         /\ \A q \in Requests : RequestOK(req'[q], users', sessions', rows')
<1>1. x \in RequestType
  BY DEF RequestOK
<1>2. req' \in [Requests -> RequestType] /\ req'[r] = x
      /\ \A q \in Requests \ {r} : req'[q] = req[q]
  BY <1>1 DEF Inv
<1>3. ASSUME NEW q \in Requests PROVE RequestOK(req'[q], users', sessions', rows')
  BY <1>2, RequestStays DEF Inv
<1> QED  BY <1>2, <1>3

LEMMA IdleOK == ASSUME NEW us, NEW ss, NEW rs, Len(us) \in Nat, Len(ss) \in Nat, Len(rs) \in Nat
                PROVE RequestOK(Idle, us, ss, rs)
  BY DEF RequestOK, RequestType, Idle, Ask, Names

(* A step that changes no table.                                           *)
LEMMA QuietStep ==
  ASSUME Inv, UNCHANGED <<users, sessions, rows, key>>, arrivals' \in Nat,
         NEW r \in Requests, NEW x, req' = [req EXCEPT ![r] = x],
         RequestOK(x, users, sessions, rows)
  PROVE  Inv'
<1>1. TablesGrow
  BY Same_tables
<1>2. /\ req' \in [Requests -> RequestType]
      /\ \A q \in Requests : RequestOK(req'[q], users', sessions', rows')
  BY <1>1, OneMoves
<1>3. Tables' /\ StoredTokenIsOwn'
  BY DEF Inv, Tables, StoredTokenIsOwn, Users, Rows
<1> QED  BY <1>2, <1>3 DEF Inv

LEMMA RequestKnown ==
  ASSUME Inv, NEW r \in Requests
  PROVE  /\ RequestOK(req[r], users, sessions, rows) /\ req[r] \in RequestType
         /\ Len(users) \in Nat /\ Len(sessions) \in Nat /\ Len(rows) \in Nat
  BY DEF Inv, Tables

-----------------------------------------------------------------------------
(* Steps that change no table *)

LEMMA ArrivePreserves == ASSUME Inv, NEW r \in Requests, Arrive(r) PROVE Inv'
<1> DEFINE Right(x) == RequestOK(x, users, sessions, rows)
<1>1. /\ Len(users) \in Nat /\ Len(sessions) \in Nat /\ Len(rows) \in Nat
      /\ arrivals' \in Nat /\ UNCHANGED <<users, sessions, rows, key>>
  BY RequestKnown DEF Arrive, Inv, Tables
<1>2. PICK cookie \in 0..Len(sessions) :
          \/ \E token \in Tokens : req' = [req EXCEPT ![r] = Ask("login", 0, token, None, 0)]
          \/ req' = [req EXCEPT ![r] = Ask("logout", cookie, None, None, 0)]
          \/ \E token \in Tokens, name \in Names :
                req' = [req EXCEPT ![r] = Ask("connect", cookie, token, name, 0)]
          \/ \E i \in Rows, token \in Tokens, name \in Names \cup {None} :
                req' = [req EXCEPT ![r] = Ask("reconnect", cookie, token, name, i)]
          \/ \E i \in Rows, op \in {"revoke", "read"} :
                req' = [req EXCEPT ![r] = Ask(op, cookie, None, None, i)]
          \/ \E name \in Repos : req' = [req EXCEPT ![r] = Ask("use", cookie, None, name, 0)]
  BY DEF Arrive
<1>3. ASSUME NEW op, NEW token \in Tokens \cup {None}, NEW name \in Names \cup {None},
             NEW i \in 0..Len(rows), NEW c \in 0..Len(sessions),
             op \in {"login", "logout", "connect", "reconnect", "revoke", "read", "use"},
             op \in {"login", "connect", "reconnect"} => token \in Tokens,
             op = "connect" => name \in Names
      PROVE  Right(Ask(op, c, token, name, i))
  <2>1. Ask(op, c, token, name, i).pc = IF op = "login" THEN "signin" ELSE "authenticate"
    BY <1>3 DEF Ask
  <2>2. LET q == Ask(op, c, token, name, i)
        IN  /\ q = [op |-> op, cookie |-> c, user |-> 0, token |-> token, repo |-> name, row |-> i,
                    copy |-> NoCopy, pc |-> q.pc]
            /\ q.op = op /\ q.cookie = c /\ q.user = 0 /\ q.token = token /\ q.repo = name
            /\ q.row = i /\ q.copy = NoCopy
    BY DEF Ask
  <2> HIDE DEF Ask
  <2> QED  BY <1>1, <1>3, <2>1, <2>2 DEF RequestOK, RequestType
<1>4. 0 \in 0..Len(rows) /\ 0 \in 0..Len(sessions) /\ Rows \subseteq 0..Len(rows)
      /\ Repos \subseteq Names
  BY <1>1 DEF Rows, Names
<1>5. \E x : req' = [req EXCEPT ![r] = x] /\ Right(x)
  <2> HIDE DEF Right
  <2>1. CASE \E token \in Tokens : req' = [req EXCEPT ![r] = Ask("login", 0, token, None, 0)]
    <3>1. PICK token \in Tokens : req' = [req EXCEPT ![r] = Ask("login", 0, token, None, 0)]
      BY <2>1
    <3> QED  BY <1>3, <1>4, <3>1
  <2>2. CASE req' = [req EXCEPT ![r] = Ask("logout", cookie, None, None, 0)]
    BY <1>3, <1>4, <2>2
  <2>3. CASE \E token \in Tokens, name \in Names :
                req' = [req EXCEPT ![r] = Ask("connect", cookie, token, name, 0)]
    <3>1. PICK token \in Tokens, name \in Names :
             req' = [req EXCEPT ![r] = Ask("connect", cookie, token, name, 0)]
      BY <2>3
    <3> QED  BY <1>3, <1>4, <3>1
  <2>4. CASE \E i \in Rows, token \in Tokens, name \in Names \cup {None} :
                req' = [req EXCEPT ![r] = Ask("reconnect", cookie, token, name, i)]
    <3>1. PICK i \in Rows, token \in Tokens, name \in Names \cup {None} :
             req' = [req EXCEPT ![r] = Ask("reconnect", cookie, token, name, i)]
      BY <2>4
    <3> QED  BY <1>3, <1>4, <3>1
  <2>5. CASE \E i \in Rows, op \in {"revoke", "read"} :
                req' = [req EXCEPT ![r] = Ask(op, cookie, None, None, i)]
    <3>1. PICK i \in Rows, op \in {"revoke", "read"} :
             req' = [req EXCEPT ![r] = Ask(op, cookie, None, None, i)]
      BY <2>5
    <3> QED  BY <1>3, <1>4, <3>1
  <2>6. CASE \E name \in Repos : req' = [req EXCEPT ![r] = Ask("use", cookie, None, name, 0)]
    <3>1. PICK name \in Repos : req' = [req EXCEPT ![r] = Ask("use", cookie, None, name, 0)]
      BY <2>6
    <3> QED  BY <1>3, <1>4, <3>1
  <2> QED  BY <1>2, <2>1, <2>2, <2>3, <2>4, <2>5, <2>6
<1> QED  BY <1>1, <1>5, QuietStep

LEMMA RefusePreserves == ASSUME Inv, NEW r \in Requests, Refuse(r) PROVE Inv'
<1>1. RequestOK(Idle, users, sessions, rows) /\ arrivals' \in Nat
  BY IdleOK, RequestKnown DEF Refuse, Inv, Tables
<1> QED  BY <1>1, QuietStep DEF Refuse, End

LEMMA AfterSessionIs ==
  ASSUME NEW op
  PROVE  /\ op = "connect" => AfterSession(op) = "validate"
         /\ op \in {"logout", "revoke"} => AfterSession(op) = op
         /\ op \notin {"connect", "logout", "revoke"} => AfterSession(op) = "find"
  BY DEF AfterSession

LEMMA AuthenticatePreserves == ASSUME Inv, NEW r \in Requests, Authenticate(r) PROVE Inv'
<1> DEFINE q == req[r]
           live == q.cookie # 0 /\ sessions[q.cookie].live
           pc == IF live THEN AfterSession(q.op) ELSE "signin"
           cookie == IF q.op = "logout" THEN q.cookie ELSE 0
           user == IF live THEN sessions[q.cookie].user ELSE 0
           x == [q EXCEPT !.pc = pc, !.cookie = cookie, !.user = user]
<1>1. /\ RequestOK(q, users, sessions, rows) /\ q \in RequestType /\ q.pc = "authenticate"
      /\ Len(users) \in Nat /\ Len(sessions) \in Nat /\ Len(rows) \in Nat
      /\ (live \/ q.op = "connect") /\ q.op \notin {"none", "login"}
  BY RequestKnown DEF Authenticate, At, RequestOK
<1>2. ASSUME live PROVE q.cookie \in 1..Len(sessions) /\ user \in 1..Len(users)
  <2>1. q.cookie \in 1..Len(sessions)
    <3>1. q.cookie # 0 /\ q.cookie \in Nat /\ q.cookie <= Len(sessions)
      BY <1>1, <1>2 DEF RequestOK, RequestType
    <3>2. Len(sessions) \in Nat
      BY <1>1
    <3> HIDE DEF q
    <3> QED  BY <3>1, <3>2
  <2>2. sessions[q.cookie] \in [user : Users, live : BOOLEAN]
    BY <2>1, ElementOfSeq DEF Inv, Tables
  <2> QED  BY <1>2, <2>1, <2>2 DEF Users
<1>3. req' = [req EXCEPT ![r] = x] /\ UNCHANGED <<users, sessions, rows, key, arrivals>>
  BY DEF Authenticate
<1>4. /\ pc \in {"signin", "validate", "logout", "revoke", "find"}
      /\ pc \in {"signin", "validate"} => q.op = "connect"
      /\ pc # "signin" => live
      /\ pc = "logout" => q.op = "logout"
  BY <1>1, AfterSessionIs DEF RequestType
<1>5. /\ cookie \in Nat /\ cookie <= Len(sessions) /\ user \in Nat /\ user <= Len(users)
      /\ live => user \in 1..Len(users)
      /\ q.op = "logout" /\ live => cookie \in 1..Len(sessions)
  BY <1>1, <1>2 DEF RequestOK, RequestType
<1>6. RequestOK(x, users, sessions, rows)
  <2> HIDE DEF pc, cookie, user, live
  <2>1. x \in RequestType
    BY <1>1, <1>4, <1>5 DEF RequestType
  <2> QED  BY <1>1, <1>4, <1>5, <2>1 DEF RequestOK, RequestType
<1> QED  BY <1>3, <1>6, QuietStep DEF Inv, Tables

LEMMA ConnectionFromRequestPreserves ==
  ASSUME Inv, NEW r \in Requests, ConnectionFromRequest(r) PROVE Inv'
<1> DEFINE q == req[r]
           x == [q EXCEPT !.pc = "save", !.repo = ResolveRepository(q.repo)]
<1>1. RequestOK(q, users, sessions, rows) /\ q \in RequestType /\ q.pc = "validate"
      /\ Owner[q.token] = users[q.user]
  BY RequestKnown DEF ConnectionFromRequest, At, CurrentUser
<1>2. req' = [req EXCEPT ![r] = x] /\ UNCHANGED <<users, sessions, rows, key, arrivals>>
  BY DEF ConnectionFromRequest
<1>3. ResolveRepository(q.repo) \in Repos
  BY <1>1 DEF RequestOK, Names, ResolveRepository
<1>4. x \in RequestType
  BY <1>1, <1>3 DEF RequestType, Names
<1>5. RequestOK(x, users, sessions, rows)
  BY <1>1, <1>3, <1>4 DEF RequestOK, RequestType, Names
<1> QED  BY <1>2, <1>5, QuietStep DEF Inv, Tables

(* What a request goes on to use was the row of its own account.           *)
LEMMA UsePreserves ==
  ASSUME Inv, NEW r \in Requests, NEW i \in Rows, NEW token \in {req[r].token, None},
         rows[i].user = req[r].user, req[r].user \in Users,
         req[r].op \in {"use", "connect"} => rows[i].repo = req[r].repo,
         req' = [req EXCEPT ![r] = [@ EXCEPT !.pc = "using", !.row = i, !.token = token,
                                             !.copy = rows[i]]],
         UNCHANGED <<users, sessions, rows, key, arrivals>>
  PROVE  Inv'
<1> DEFINE q == req[r]
           x == [q EXCEPT !.pc = "using", !.row = i, !.token = token, !.copy = rows[i]]
<1>1. RequestOK(q, users, sessions, rows) /\ q \in RequestType
      /\ Len(users) \in Nat /\ Len(sessions) \in Nat /\ Len(rows) \in Nat
  BY RequestKnown
<1>2. rows[i] \in RowType /\ Owner[rows[i].material.token] = users[q.user]
      /\ i \in Nat /\ i <= Len(rows)
  BY <1>1 DEF Inv, Tables, StoredTokenIsOwn, Rows
<1>3. x \in RequestType
  BY <1>1, <1>2 DEF RequestType
<1>4. RequestOK(x, users, sessions, rows)
  BY <1>1, <1>2, <1>3 DEF RequestOK, Rows, Users, RequestType
<1> QED  BY <1>4, QuietStep DEF Inv, Tables

LEMMA ReloadPreserves == ASSUME Inv, NEW r \in Requests, Reload(r) PROVE Inv'
<1>1. RequestOK(req[r], users, sessions, rows) /\ req[r] \in RequestType /\ req[r].pc = "reload"
  BY RequestKnown DEF Reload, At
<1>2. req[r].row \in Rows /\ rows[req[r].row].user = req[r].user /\ req[r].user \in Users
      /\ rows[req[r].row].repo = req[r].repo
  BY <1>1 DEF RequestOK, Rows, Users
<1>3. req' = [req EXCEPT ![r] = [@ EXCEPT !.pc = "using", !.row = req[r].row, !.token = None,
                                          !.copy = rows[req[r].row]]]
  BY <1>1 DEF Reload, RequestType
<1> QED  BY <1>2, <1>3, UsePreserves DEF Reload

LEMMA FindExistingPreserves == ASSUME Inv, NEW r \in Requests, FindExisting(r) PROVE Inv'
<1> DEFINE q == req[r]
           name == IF q.repo \in Repos THEN q.repo ELSE rows[q.row].repo
           x == [q EXCEPT !.pc = "validate", !.repo = name]
<1>1. RequestOK(q, users, sessions, rows) /\ q \in RequestType /\ q.pc = "find"
      /\ q.op = "reconnect" /\ q.row \in Rows
  BY RequestKnown DEF FindExisting, At, UserGitFlameConnection
<1>2. name \in Names
  <2>1. rows[q.row] \in RowType
    BY <1>1 DEF Inv, Tables, Rows
  <2> QED  BY <1>1, <2>1 DEF RequestType, RowType, Names
<1>3. req' = [req EXCEPT ![r] = x] /\ UNCHANGED <<users, sessions, rows, key, arrivals>>
  BY DEF FindExisting
<1>4. RequestOK(x, users, sessions, rows)
  <2> HIDE DEF name
  <2>1. x \in RequestType
    BY <1>1, <1>2 DEF RequestType
  <2> QED  BY <1>1, <1>2, <2>1 DEF RequestOK, RequestType
<1> QED  BY <1>3, <1>4, QuietStep DEF Inv, Tables

LEMMA OpenConnectionPreserves == ASSUME Inv, NEW r \in Requests, OpenConnection(r) PROVE Inv'
<1>1. RequestOK(req[r], users, sessions, rows) /\ req[r] \in RequestType /\ req[r].pc = "find"
      /\ req[r].op = "read" /\ req[r].row \in Rows /\ rows[req[r].row].user = req[r].user
  BY RequestKnown DEF OpenConnection, At, UserGitFlameConnection
<1>2. req[r].user \in Users
  BY <1>1 DEF RequestOK, Users
<1>3. req' = [req EXCEPT ![r] = [@ EXCEPT !.pc = "using", !.row = req[r].row, !.token = None,
                                          !.copy = rows[req[r].row]]]
  BY <1>1 DEF OpenConnection, RequestType
<1> QED  BY <1>1, <1>2, <1>3, UsePreserves DEF OpenConnection

LEMMA OpenRepositoryPreserves == ASSUME Inv, NEW r \in Requests, OpenRepository(r) PROVE Inv'
<1>1. RequestOK(req[r], users, sessions, rows) /\ req[r] \in RequestType /\ req[r].pc = "find"
  BY RequestKnown DEF OpenRepository, At
<1>2. PICK i \in Rows :
          /\ rows[i].user = req[r].user /\ rows[i].repo = req[r].repo
          /\ req' = [req EXCEPT ![r].pc = "using", ![r].row = i, ![r].copy = rows[i]]
  BY DEF OpenRepository, UserGitFlameConnectionByRepository
<1>3. req[r].user \in Users
  BY <1>1 DEF RequestOK, Users
<1>4. req' = [req EXCEPT ![r] = [@ EXCEPT !.pc = "using", !.row = i, !.token = req[r].token,
                                          !.copy = rows[i]]]
  BY <1>1, <1>2 DEF RequestType
<1> QED  BY <1>2, <1>3, <1>4, UsePreserves DEF OpenRepository

LEMMA TouchPreserves ==
  ASSUME Inv, NEW r \in Requests, TouchGitFlameConnection(r) PROVE Inv'
<1>1. RequestOK(Idle, users, sessions, rows) /\ arrivals' \in Nat
  BY IdleOK, RequestKnown DEF TouchGitFlameConnection, Inv, Tables
<1> QED  BY <1>1, QuietStep DEF TouchGitFlameConnection, End

-----------------------------------------------------------------------------
(* Steps that change a table *)

LEMMA TableStep ==
  ASSUME Inv, TablesGrow, Tables', StoredTokenIsOwn',
         NEW r \in Requests, NEW x, req' = [req EXCEPT ![r] = x],
         RequestOK(x, users', sessions', rows')
  PROVE  Inv'
  BY OneMoves DEF Inv

(* Time passes for a table while no request moves.                         *)
LEMMA QuietTables ==
  ASSUME Inv, TablesGrow, Tables', StoredTokenIsOwn', req' = req
  PROVE  Inv'
<1>1. ASSUME NEW r \in Requests PROVE RequestOK(req'[r], users', sessions', rows')
  BY RequestStays DEF Inv
<1> QED  BY <1>1 DEF Inv

(* The tables of users and connections stay as they are.                   *)
LEMMA OnlySessions ==
  ASSUME Inv, UNCHANGED <<users, rows, key>>, arrivals' \in Nat,
         sessions' \in Seq([user : Users, live : BOOLEAN]), Len(sessions) <= Len(sessions')
  PROVE  TablesGrow /\ Tables' /\ StoredTokenIsOwn'
<1>1. TablesGrow
  BY DEF Inv, Tables, TablesGrow
<1>2. Tables'
  BY DEF Inv, Tables, Users, Rows
<1>3. StoredTokenIsOwn'
  BY DEF Inv, StoredTokenIsOwn, Users, Rows
<1> QED  BY <1>1, <1>2, <1>3

LEMMA SignInPreserves == ASSUME Inv, NEW r \in Requests, SignIn(r) PROVE TablesGrow /\ Inv'
<1> DEFINE q == req[r]
           account == Owner[q.token]
<1>1. /\ RequestOK(q, users, sessions, rows) /\ q \in RequestType /\ q.pc = "signin"
      /\ Len(users) \in Nat /\ Len(sessions) \in Nat /\ Len(rows) \in Nat
  BY RequestKnown DEF SignIn, At
<1>2. q.token \in Tokens /\ q.op \in {"login", "connect"} /\ account \in Accounts
  BY <1>1 DEF RequestOK
<1>3. users' = UpsertAppUser(account) /\ UNCHANGED <<sessions, rows, key, arrivals>>
  BY DEF SignIn, CurrentUser
<1>4. /\ users' \in Seq(Accounts) /\ Len(users') \in Nat /\ Len(users) <= Len(users')
      /\ \A u \in Users : users'[u] = users[u]
      /\ \A u, v \in 1..Len(users') : users'[u] = users'[v] => u = v
  <2>1. users \in Seq(Accounts) /\ \A u, v \in Users : users[u] = users[v] => u = v
    BY DEF Inv, Tables, StoredTokenIsOwn
  <2>2. CASE \E u \in Users : users[u] = account
    BY <1>1, <1>3, <2>1, <2>2 DEF UpsertAppUser, Users
  <2>3. CASE ~ \E u \in Users : users[u] = account
    <3>1. users' = Append(users, account)
      BY <1>3, <2>3 DEF UpsertAppUser
    <3>2. /\ users' \in Seq(Accounts) /\ Len(users') = Len(users) + 1
          /\ \A u \in Users : users'[u] = users[u]
          /\ users'[Len(users) + 1] = account
      BY <1>2, <2>1, <3>1, AppendProperties DEF Users
    <3>3. 1..Len(users') = Users \cup {Len(users) + 1} /\ Len(users) + 1 \notin Users
      BY <1>1, <3>2 DEF Users
    <3>4. ASSUME NEW u \in 1..Len(users'), NEW v \in 1..Len(users'), users'[u] = users'[v]
          PROVE  u = v
      <4>1. \A w \in Users : users'[w] # users'[Len(users) + 1]
        BY <2>3, <3>2
      <4>2. CASE u \in Users /\ v \in Users
        BY <2>1, <3>2, <3>4, <4>2
      <4> QED  BY <3>3, <3>4, <4>1, <4>2
    <3> QED  BY <1>1, <3>2, <3>4
  <2> QED  BY <2>2, <2>3
<1>5. TablesGrow
  BY <1>1, <1>3, <1>4 DEF TablesGrow
<1>6. Users \subseteq Users' /\ Rows' = Rows
  BY <1>1, <1>3, <1>4 DEF Users, Rows
<1>7. Tables'
  <2>1. sessions' \in Seq([user : Users', live : BOOLEAN])
    <3>1. [user : Users, live : BOOLEAN] \subseteq [user : Users', live : BOOLEAN]
      BY <1>6
    <3> QED  BY <1>3, <3>1, SeqMonotonic DEF Inv, Tables
  <2> QED  BY <1>3, <1>4, <1>6, <2>1 DEF Inv, Tables
<1>8. StoredTokenIsOwn'
  <2>1. \A i \in Rows : users'[rows[i].user] = users[rows[i].user]
    BY <1>4 DEF Inv, Tables
  <2> QED  BY <1>3, <1>4, <1>6, <2>1 DEF Inv, StoredTokenIsOwn, Users
<1>9. PICK u \in 1..Len(users') :
          users'[u] = account /\ req' = [req EXCEPT ![r].pc = "session", ![r].user = u]
  BY DEF SignIn, CurrentUser
<1> DEFINE x == [q EXCEPT !.pc = "session", !.user = u]
<1>10. RequestOK(x, users', sessions', rows')
  <2>1. u \in Nat /\ u <= Len(users')
    BY <1>4
  <2>3. x \in RequestType /\ x.op = q.op /\ x.cookie = q.cookie /\ x.user = u /\ x.token = q.token
        /\ x.repo = q.repo /\ x.row = q.row /\ x.copy = q.copy /\ x.pc = "session"
    <3> HIDE DEF q
    <3> QED  BY <1>1, <2>1 DEF RequestType
  <2>2. /\ q.cookie <= Len(sessions') /\ q.row <= Len(rows')
        /\ q.op = "connect" => q.repo \in Names
    BY <1>1, <1>3 DEF RequestOK
  <2>4. users'[u] = Owner[q.token]
    BY <1>9
  <2> HIDE DEF x, q
  <2> QED  BY <1>2, <1>9, <2>1, <2>2, <2>3, <2>4 DEF RequestOK
<1>11. req' = [req EXCEPT ![r] = x]
  BY <1>9
<1> QED  BY <1>5, <1>7, <1>8, <1>10, <1>11, TableStep

LEMMA CreateAppSessionPreserves ==
  ASSUME Inv, NEW r \in Requests, CreateAppSession(r) PROVE TablesGrow /\ Inv'
<1> DEFINE q == req[r]
           session == [user |-> q.user, live |-> TRUE]
           x == IF q.op = "login" THEN Idle ELSE [q EXCEPT !.pc = "validate"]
<1>1. /\ RequestOK(q, users, sessions, rows) /\ q \in RequestType /\ q.pc = "session"
      /\ Len(users) \in Nat /\ Len(sessions) \in Nat /\ Len(rows) \in Nat
  BY RequestKnown DEF CreateAppSession, At
<1>2. session \in [user : Users, live : BOOLEAN]
  BY <1>1 DEF RequestOK, Users
<1>3. /\ sessions' = Append(sessions, session) /\ UNCHANGED <<users, rows, key, arrivals>>
      /\ req' = [req EXCEPT ![r] = x]
  BY DEF CreateAppSession, End, Goto
<1>4. sessions' \in Seq([user : Users, live : BOOLEAN]) /\ Len(sessions') = Len(sessions) + 1
  BY <1>2, <1>3, AppendProperties DEF Inv, Tables
<1>5. TablesGrow /\ Tables' /\ StoredTokenIsOwn'
  BY <1>1, <1>3, <1>4, OnlySessions DEF Inv, Tables
<1>6. RequestOK(x, users', sessions', rows')
  <2>1. CASE q.op = "login"
    BY <1>1, <1>3, <1>4, <2>1, IdleOK
  <2>2. CASE q.op # "login"
    <3>1. x = [q EXCEPT !.pc = "validate"] /\ x \in RequestType /\ q.op = "connect"
      BY <1>1, <2>2 DEF RequestType, RequestOK
    <3>2. q.cookie <= Len(sessions')
      BY <1>1, <1>4 DEF RequestOK, RequestType
    <3> HIDE DEF x
    <3> QED  BY <1>1, <1>3, <3>1, <3>2 DEF RequestOK, RequestType
  <2> QED  BY <2>1, <2>2
<1> QED  BY <1>3, <1>5, <1>6, TableStep

(* A session that ends stays the session of its user.                      *)
LEMMA SessionEnds ==
  ASSUME Inv, NEW s \in 1..Len(sessions), sessions' = [sessions EXCEPT ![s].live = FALSE],
         UNCHANGED <<users, rows, key, arrivals>>
  PROVE  TablesGrow /\ Tables' /\ StoredTokenIsOwn' /\ Len(sessions') = Len(sessions)
<1>1. sessions \in Seq([user : Users, live : BOOLEAN]) /\ Len(sessions) \in Nat
  BY DEF Inv, Tables
<1>2. sessions[s] \in [user : Users, live : BOOLEAN]
  BY <1>1, ElementOfSeq
<1>3. [sessions[s] EXCEPT !.live = FALSE] \in [user : Users, live : BOOLEAN]
  BY <1>2
<1>4. sessions' \in Seq([user : Users, live : BOOLEAN]) /\ Len(sessions') = Len(sessions)
  BY <1>1, <1>3, ExceptSeq
<1> QED  BY <1>1, <1>4, OnlySessions DEF Inv, Tables

LEMMA RevokeAppSessionPreserves ==
  ASSUME Inv, NEW r \in Requests, RevokeAppSession(r) PROVE TablesGrow /\ Inv'
<1>1. /\ RequestOK(req[r], users, sessions, rows) /\ req[r].pc = "logout"
      /\ Len(users) \in Nat /\ Len(sessions) \in Nat /\ Len(rows) \in Nat
  BY RequestKnown DEF RevokeAppSession, At
<1>2. req[r].cookie \in 1..Len(sessions)
  BY <1>1 DEF RequestOK
<1>3. TablesGrow /\ Tables' /\ StoredTokenIsOwn' /\ Len(sessions') = Len(sessions)
  BY <1>2, SessionEnds DEF RevokeAppSession
<1>4. RequestOK(Idle, users', sessions', rows')
  BY <1>1, <1>3, IdleOK DEF RevokeAppSession
<1> QED  BY <1>3, <1>4, TableStep DEF RevokeAppSession, End

LEMMA SessionExpiresPreserves ==
  ASSUME Inv, NEW s \in 1..Len(sessions), SessionExpires(s) PROVE TablesGrow /\ Inv'
  BY SessionEnds, QuietTables DEF SessionExpires

(* The tables of users and sessions stay as they are, and each row keeps   *)
(* or gets a user, a repository, and a token of that user for both.        *)
LEMMA OnlyRows ==
  ASSUME Inv, UNCHANGED <<users, sessions, key>>, arrivals' \in Nat, rows' \in Seq(RowType),
         Len(rows) <= Len(rows'),
         \A i \in Rows : rows'[i].user = rows[i].user /\ rows'[i].repo = rows[i].repo,
         \A i \in 1..Len(rows') :
             /\ rows'[i].user \in Users
             /\ Owner[rows'[i].material.token] = users[rows'[i].user]
             /\ rows'[i].material.aad = <<rows'[i].user, rows'[i].repo>>,
         \A i, j \in 1..Len(rows') :
             rows'[i].user = rows'[j].user /\ rows'[i].repo = rows'[j].repo => i = j
  PROVE  TablesGrow /\ Tables' /\ StoredTokenIsOwn'
<1>1. TablesGrow
  BY DEF Inv, Tables, TablesGrow
<1>2. Users' = Users /\ Rows' = 1..Len(rows')
  BY DEF Users, Rows
<1>3. Tables'
  BY <1>2 DEF Inv, Tables
<1>4. StoredTokenIsOwn'
  BY <1>2 DEF Inv, StoredTokenIsOwn
<1> QED  BY <1>1, <1>3, <1>4

LEMMA SaveGitFlameConnectionPreserves ==
  ASSUME Inv, NEW r \in Requests, SaveGitFlameConnection(r) PROVE TablesGrow /\ Inv'
<1> DEFINE q == req[r]
           row == Saved(r)
<1>1. /\ RequestOK(q, users, sessions, rows) /\ q \in RequestType /\ q.pc = "save"
      /\ Len(users) \in Nat /\ Len(sessions) \in Nat /\ Len(rows) \in Nat
  BY RequestKnown DEF SaveGitFlameConnection, At
<1>2. /\ q.user \in Users /\ q.token \in Tokens /\ q.repo \in Repos
      /\ Owner[q.token] = users[q.user] /\ q.op \in {"connect", "reconnect"}
  BY <1>1 DEF RequestOK, Users
<1>3. /\ row \in RowType /\ row.user = q.user /\ row.repo = q.repo
      /\ row.material.token = q.token /\ row.material.aad = <<q.user, q.repo>>
  BY <1>1, <1>2 DEF Saved, Encrypt, RowType, Inv, Tables, Users
<1>4. PICK i \in Nat \ {0} :
          /\ \/ i \in Rows /\ Same(r, i)
             \/ i = Len(rows) + 1 /\ \A j \in Rows : ~Same(r, j)
          /\ SaveAt(r, i)
  BY <1>1 DEF SaveGitFlameConnection, NewRow, Rows
<1>5. /\ rows' \in Seq(RowType) /\ Len(rows) <= Len(rows') /\ i \in 1..Len(rows')
      /\ Len(rows') \in Nat /\ rows'[i] = row
      /\ \A j \in 1..Len(rows') : j # i => j \in Rows /\ rows'[j] = rows[j]
  <2>1. CASE i \in Rows
    <3>1. rows' = [rows EXCEPT ![i] = row]
      BY <1>4, <2>1 DEF SaveAt
    <3>2. rows' \in Seq(RowType) /\ Len(rows') = Len(rows)
          /\ \A j \in 1..Len(rows) : rows'[j] = IF j = i THEN row ELSE rows[j]
      BY <1>3, <2>1, <3>1, ExceptSeq DEF Inv, Tables, Rows
    <3> QED  BY <1>1, <2>1, <3>2 DEF Rows
  <2>2. CASE i \notin Rows
    <3>1. rows' = Append(rows, row) /\ i = Len(rows) + 1
      BY <1>4, <2>2 DEF SaveAt
    <3>2. /\ rows' \in Seq(RowType) /\ Len(rows') = Len(rows) + 1
          /\ \A j \in 1..Len(rows) : rows'[j] = rows[j]
          /\ rows'[Len(rows) + 1] = row
      BY <1>3, <3>1, AppendProperties DEF Inv, Tables
    <3> HIDE DEF row
    <3> QED  BY <1>1, <3>1, <3>2 DEF Rows
  <2> QED  BY <2>1, <2>2
<1> HIDE DEF row
<1>6. \A j \in Rows : rows'[j].user = rows[j].user /\ rows'[j].repo = rows[j].repo
  <2> SUFFICES ASSUME NEW j \in Rows PROVE rows'[j].user = rows[j].user /\ rows'[j].repo = rows[j].repo
    OBVIOUS
  <2>1. CASE j = i
    BY <1>1, <1>3, <1>4, <1>5, <2>1 DEF Same, Rows
  <2>2. CASE j # i
    BY <1>1, <1>5, <2>2 DEF Rows
  <2> QED  BY <2>1, <2>2
<1>7. ASSUME NEW j \in 1..Len(rows')
      PROVE  /\ rows'[j].user \in Users
             /\ Owner[rows'[j].material.token] = users[rows'[j].user]
             /\ rows'[j].material.aad = <<rows'[j].user, rows'[j].repo>>
  BY <1>2, <1>3, <1>5, <1>7 DEF Inv, Tables, StoredTokenIsOwn
<1>8. ASSUME NEW j \in 1..Len(rows'), NEW k \in 1..Len(rows'), j # i,
             rows'[j].user = rows'[k].user, rows'[j].repo = rows'[k].repo
      PROVE  j = k
  <2>1. CASE k = i
    <3>1. Same(r, j) /\ j \in Rows
      BY <1>3, <1>5, <1>8, <2>1 DEF Same
    <3> QED  BY <1>4, <1>8, <3>1, <2>1 DEF Same, Inv, StoredTokenIsOwn
  <2>2. CASE k # i
    BY <1>5, <1>8, <2>2 DEF Inv, StoredTokenIsOwn
  <2> QED  BY <2>1, <2>2
<1>9. UNCHANGED <<users, sessions, key, arrivals>>
  BY <1>4 DEF SaveAt
<1>10. TablesGrow /\ Tables' /\ StoredTokenIsOwn'
  BY <1>5, <1>6, <1>7, <1>8, <1>9, OnlyRows DEF Inv, Tables
<1> DEFINE x == [q EXCEPT !.pc = "reload", !.row = i]
<1>11. req' = [req EXCEPT ![r] = x]
  BY <1>4 DEF SaveAt
<1>12. RequestOK(x, users', sessions', rows')
  <2>1. x \in RequestType
    BY <1>1 DEF RequestType
  <2>2. i <= Len(rows') /\ rows'[i].user = q.user /\ rows'[i].repo = q.repo
    BY <1>3, <1>5
  <2> QED  BY <1>1, <1>2, <1>5, <1>9, <2>1, <2>2 DEF RequestOK, RequestType
<1> QED  BY <1>10, <1>11, <1>12, TableStep

(* A row that changes keeps its user, repository and token.                *)
LEMMA RowChanges ==
  ASSUME Inv, NEW i \in Rows, NEW row \in RowType, rows' = [rows EXCEPT ![i] = row],
         row.user = rows[i].user, row.repo = rows[i].repo, row.material = rows[i].material,
         UNCHANGED <<users, sessions, key, arrivals>>
  PROVE  TablesGrow /\ Tables' /\ StoredTokenIsOwn' /\ Len(rows') = Len(rows)
<1>1. rows' \in Seq(RowType) /\ Len(rows') = Len(rows) /\ Len(rows) \in Nat
      /\ \A j \in Rows : rows'[j] = IF j = i THEN row ELSE rows[j]
  BY ExceptSeq DEF Inv, Tables, Rows
<1>2. \A j \in Rows : rows'[j].user = rows[j].user /\ rows'[j].repo = rows[j].repo
                     /\ rows'[j].material = rows[j].material
  BY <1>1
<1>3. 1..Len(rows') = Rows
  BY <1>1 DEF Rows
<1>4. \A j \in 1..Len(rows') :
             /\ rows'[j].user \in Users
             /\ Owner[rows'[j].material.token] = users[rows'[j].user]
             /\ rows'[j].material.aad = <<rows'[j].user, rows'[j].repo>>
  BY <1>2, <1>3 DEF Inv, Tables, StoredTokenIsOwn
<1>5. \A j, k \in 1..Len(rows') :
             rows'[j].user = rows'[k].user /\ rows'[j].repo = rows'[k].repo => j = k
  BY <1>2, <1>3 DEF Inv, StoredTokenIsOwn
<1>6. Len(rows) <= Len(rows') /\ arrivals' \in Nat
  BY <1>1 DEF Inv, Tables
<1>7. TablesGrow /\ Tables' /\ StoredTokenIsOwn'
  BY <1>1, <1>2, <1>4, <1>5, <1>6, OnlyRows
<1> QED  BY <1>1, <1>7

LEMMA RevokeGitFlameConnectionPreserves ==
  ASSUME Inv, NEW r \in Requests, RevokeGitFlameConnection(r) PROVE TablesGrow /\ Inv'
<1> DEFINE i == req[r].row
           row == [rows[i] EXCEPT !.revoked = TRUE]
<1>1. i \in Rows /\ Len(users) \in Nat /\ Len(sessions) \in Nat /\ Len(rows) \in Nat
      /\ UNCHANGED <<users, sessions, key, arrivals>>
  BY RequestKnown DEF RevokeGitFlameConnection, UserGitFlameConnection
<1>2. rows[i] \in RowType
  BY <1>1, ElementOfSeq DEF Inv, Tables, Rows
<1>3. row \in RowType /\ row.user = rows[i].user /\ row.repo = rows[i].repo
      /\ row.material = rows[i].material
  BY <1>2 DEF RowType
<1>4. rows' = [rows EXCEPT ![i] = row]
  BY DEF RevokeGitFlameConnection
<1>5. TablesGrow /\ Tables' /\ StoredTokenIsOwn' /\ Len(rows') = Len(rows)
  BY <1>1, <1>3, <1>4, RowChanges
<1>6. RequestOK(Idle, users', sessions', rows')
  BY <1>1, <1>5, IdleOK
<1> QED  BY <1>5, <1>6, TableStep DEF RevokeGitFlameConnection, End

LEMMA TokenExpiresPreserves ==
  ASSUME Inv, NEW i \in Rows, TokenExpires(i) PROVE TablesGrow /\ Inv'
<1> DEFINE row == [rows[i] EXCEPT !.expired = TRUE]
<1>1. rows[i] \in RowType
  BY ElementOfSeq DEF Inv, Tables, Rows
<1>2. row \in RowType /\ row.user = rows[i].user /\ row.repo = rows[i].repo
      /\ row.material = rows[i].material
  BY <1>1 DEF RowType
<1>3. rows' = [rows EXCEPT ![i] = row] /\ UNCHANGED <<users, sessions, key, arrivals>> /\ req' = req
  BY DEF TokenExpires
<1>4. TablesGrow /\ Tables' /\ StoredTokenIsOwn'
  BY <1>2, <1>3, RowChanges
<1> QED  BY <1>3, <1>4, QuietTables

LEMMA RestartPreserves == ASSUME Inv, Restart PROVE TablesGrow /\ Inv'
<1>1. UNCHANGED <<users, sessions, rows>> /\ key' \in Nat \ {0} /\ arrivals' \in Nat
      /\ req' = [r \in Requests |-> Idle]
  BY DEF Restart, Inv, Tables
<1>2. TablesGrow
  BY <1>1, Same_tables
<1>3. Len(users) \in Nat /\ Len(sessions) \in Nat /\ Len(rows) \in Nat
  BY DEF Inv, Tables
<1>4. Tables' /\ StoredTokenIsOwn'
  BY <1>1 DEF Inv, Tables, StoredTokenIsOwn, Users, Rows
<1>5. RequestOK(Idle, users', sessions', rows')
  BY <1>1, <1>3, IdleOK
<1>6. Idle \in RequestType
  BY <1>5 DEF RequestOK
<1>7. req' \in [Requests -> RequestType] /\ \A r \in Requests : req'[r] = Idle
  BY <1>1, <1>6
<1> QED  BY <1>2, <1>4, <1>5, <1>7 DEF Inv

-----------------------------------------------------------------------------
(* Every step *)

LEMMA InitInv == Init => Inv
<1> SUFFICES ASSUME Init PROVE Inv
  OBVIOUS
<1>1. users = <<>> /\ sessions = <<>> /\ rows = <<>> /\ key = 1 /\ arrivals = 0
      /\ req = [r \in Requests |-> Idle]
  BY DEF Init
<1>2. Len(users) = 0 /\ Len(sessions) = 0 /\ Len(rows) = 0 /\ Users = {} /\ Rows = {}
  BY <1>1 DEF Users, Rows
<1>3. Tables /\ StoredTokenIsOwn
  BY <1>1, <1>2 DEF Tables, StoredTokenIsOwn
<1>4. RequestOK(Idle, users, sessions, rows)
  BY <1>2, IdleOK
<1>5. Idle \in RequestType
  BY <1>4 DEF RequestOK
<1> QED  BY <1>1, <1>3, <1>4, <1>5 DEF Inv

LEMMA ServePreserves == ASSUME Inv, NEW r \in Requests, Serve(r) PROVE TablesGrow /\ Inv'
<1>1. CASE Arrive(r)
  BY <1>1, ArrivePreserves, Same_tables DEF Arrive
<1>2. CASE Refuse(r)
  BY <1>2, RefusePreserves, Same_tables DEF Refuse
<1>3. CASE Authenticate(r)
  BY <1>3, AuthenticatePreserves, Same_tables DEF Authenticate
<1>4. CASE SignIn(r)
  BY <1>4, SignInPreserves
<1>5. CASE CreateAppSession(r)
  BY <1>5, CreateAppSessionPreserves
<1>6. CASE RevokeAppSession(r)
  BY <1>6, RevokeAppSessionPreserves
<1>7. CASE ConnectionFromRequest(r)
  BY <1>7, ConnectionFromRequestPreserves, Same_tables DEF ConnectionFromRequest
<1>8. CASE SaveGitFlameConnection(r)
  BY <1>8, SaveGitFlameConnectionPreserves
<1>9. CASE Reload(r)
  BY <1>9, ReloadPreserves, Same_tables DEF Reload
<1>10. CASE FindExisting(r)
  BY <1>10, FindExistingPreserves, Same_tables DEF FindExisting
<1>11. CASE OpenConnection(r)
  BY <1>11, OpenConnectionPreserves, Same_tables DEF OpenConnection
<1>12. CASE OpenRepository(r)
  BY <1>12, OpenRepositoryPreserves, Same_tables DEF OpenRepository
<1>13. CASE TouchGitFlameConnection(r)
  BY <1>13, TouchPreserves, Same_tables DEF TouchGitFlameConnection
<1>14. CASE RevokeGitFlameConnection(r)
  BY <1>14, RevokeGitFlameConnectionPreserves
<1> QED  BY <1>1, <1>2, <1>3, <1>4, <1>5, <1>6, <1>7, <1>8, <1>9, <1>10, <1>11, <1>12, <1>13,
            <1>14 DEF Serve

LEMMA NextPreserves == Inv /\ [Next]_vars => TablesGrow /\ Inv'
<1> SUFFICES ASSUME Inv, [Next]_vars PROVE TablesGrow /\ Inv'
  OBVIOUS
<1>1. ASSUME NEW r \in Requests, Serve(r) PROVE TablesGrow /\ Inv'
  BY <1>1, ServePreserves
<1>2. ASSUME NEW s \in 1..Len(sessions), SessionExpires(s) PROVE TablesGrow /\ Inv'
  BY <1>2, SessionExpiresPreserves
<1>3. ASSUME NEW i \in Rows, TokenExpires(i) PROVE TablesGrow /\ Inv'
  BY <1>3, TokenExpiresPreserves
<1>4. CASE Restart
  BY <1>4, RestartPreserves
<1>5. CASE UNCHANGED vars
  <2>1. UNCHANGED <<users, sessions, rows, key, req, arrivals>>
    BY <1>5 DEF vars
  <2>2. TablesGrow
    BY <2>1, Same_tables
  <2>3. Tables' /\ StoredTokenIsOwn'
    BY <2>1 DEF Inv, Tables, StoredTokenIsOwn, Users, Rows
  <2> QED  BY <2>1, <2>2, <2>3, QuietTables
<1> QED  BY <1>1, <1>2, <1>3, <1>4, <1>5 DEF Next

(* A step takes a connection's revocation back only by storing a token.    *)
LEMMA OnlySavesRevive ==
  ASSUME Inv, [Next]_vars, NEW i \in Rows, rows[i].revoked, ~rows'[i].revoked
  PROVE  \E r \in Requests : At(r, "save") /\ rows'[i].material.token = req[r].token
<1>1. rows \in Seq(RowType) /\ i \in 1..Len(rows) /\ rows[i] \in RowType
  BY ElementOfSeq DEF Inv, Tables, Rows
<1>2. rows' # rows
  OBVIOUS
<1>3. ASSUME NEW r \in Requests, SaveGitFlameConnection(r)
      PROVE  At(r, "save") /\ rows'[i].material.token = req[r].token
  <2>1. PICK j : (j \in Rows \/ j = Len(rows) + 1) /\ SaveAt(r, j)
    BY <1>3 DEF SaveGitFlameConnection, NewRow
  <2>2. CASE j = i
    BY <1>1, <1>3, <2>1, <2>2 DEF SaveAt, Saved, Encrypt, SaveGitFlameConnection
  <2>3. CASE j # i
    <3>1. rows'[i] = rows[i]
      <4>1. CASE j \in Rows
        BY <1>1, <2>1, <2>3, <4>1 DEF SaveAt
      <4>2. CASE j \notin Rows
        BY <1>1, <2>1, <4>2, AppendProperties DEF SaveAt
      <4> QED  BY <4>1, <4>2
    <3> QED  BY <3>1
  <2> QED  BY <2>2, <2>3
<1>4. ASSUME NEW r \in Requests, RevokeGitFlameConnection(r) PROVE FALSE
  <2>1. CASE i = req[r].row
    BY <1>1, <1>4, <2>1 DEF RevokeGitFlameConnection, RowType
  <2>2. CASE i # req[r].row
    BY <1>1, <1>4, <2>2 DEF RevokeGitFlameConnection
  <2> QED  BY <2>1, <2>2
<1>5. ASSUME NEW j \in Rows, TokenExpires(j) PROVE FALSE
  <2>1. CASE i = j
    BY <1>1, <1>5, <2>1 DEF TokenExpires, RowType
  <2>2. CASE i # j
    BY <1>1, <1>5, <2>2 DEF TokenExpires
  <2> QED  BY <2>1, <2>2
<1>6. ASSUME NEW r \in Requests, Serve(r)
      PROVE  SaveGitFlameConnection(r) \/ RevokeGitFlameConnection(r)
  BY <1>2, <1>6 DEF Serve, Arrive, Refuse, Authenticate, SignIn, CreateAppSession,
     RevokeAppSession, ConnectionFromRequest, Reload, FindExisting, OpenConnection,
     OpenRepository, TouchGitFlameConnection
<1>7. \/ \E r \in Requests : Serve(r)
      \/ \E j \in Rows : TokenExpires(j)
  BY <1>2 DEF Next, vars, SessionExpires, Restart
<1> QED  BY <1>3, <1>4, <1>5, <1>6, <1>7

-----------------------------------------------------------------------------
(* The properties *)

LEMMA InvGivesTypes == Inv => TypeOK
  BY DEF Inv, Tables, TypeOK, RequestOK

LEMMA InvGivesAuthorized == Inv => ClientIsAuthorized
  BY DEF Inv, RequestOK, ClientIsAuthorized, At

(* Every step keeps the tables, the rule of stored tokens, and what each   *)
(* request knows.                                                          *)
THEOREM Invariant == Spec => []Inv
<1>1. Inv /\ [Next]_vars => Inv'
  BY NextPreserves
<1> QED  BY InitInv, <1>1, PTL DEF Spec

(* Sessions, rows and requests name users, sessions and rows that exist.   *)
THEOREM Types == Spec => []TypeOK
  BY Invariant, InvGivesTypes, PTL

(* Whatever is stored for a user is a token of the account of that user,   *)
(* sealed for that user and repository, once for each account and for each *)
(* user's repository.                                                      *)
THEOREM StoredTokensAreOwn == Spec => []StoredTokenIsOwn
<1>1. Inv => StoredTokenIsOwn
  BY DEF Inv
<1> QED  BY Invariant, <1>1, PTL

(* A client works with a token of the account of its session's user, for   *)
(* the repository that was asked for.                                      *)
THEOREM ClientsAreAuthorized == Spec => []ClientIsAuthorized
  BY Invariant, InvGivesAuthorized, PTL

(* No step moves a connection to another user or repository.               *)
THEOREM RowsKeepRepository == Spec => RowKeepsRepository
<1>1. Inv /\ [Next]_vars =>
        (\A i \in Rows : /\ i <= Len(rows')
                         /\ rows'[i].user = rows[i].user /\ rows'[i].repo = rows[i].repo)
  <2> SUFFICES ASSUME Inv, [Next]_vars, NEW i \in Rows
               PROVE  /\ i <= Len(rows')
                      /\ rows'[i].user = rows[i].user /\ rows'[i].repo = rows[i].repo
    OBVIOUS
  <2>1. TablesGrow
    BY NextPreserves
  <2>2. i \in Nat /\ i <= Len(rows) /\ Len(rows) \in Nat
    BY DEF Rows, Inv, Tables
  <2> QED  BY <2>1, <2>2 DEF TablesGrow
<1> QED  BY Invariant, <1>1, PTL DEF Spec, RowKeepsRepository

(* Only a request that stores a checked token revives a connection.        *)
THEOREM UsesNeverRevive == Spec => UseNeverRevives
<1>1. Inv /\ [Next]_vars =>
        (\A i \in Rows : rows[i].revoked /\ ~rows'[i].revoked =>
            \E r \in Requests : At(r, "save") /\ rows'[i].material.token = req[r].token)
  BY OnlySavesRevive
<1> QED  BY Invariant, <1>1, PTL DEF Spec, UseNeverRevives

=============================================================================
