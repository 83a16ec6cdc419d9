---------------------------- MODULE Connections ----------------------------
(***************************************************************************)
(* Application sessions and GitFlame connections: internal/httpapi/auth.go *)
(* over the Postgres store.  A user signs in with a GitFlame token, stores *)
(* a token per repository, encrypted under a key version and bound to the  *)
(* user and the repository, and later requests open the stored token to    *)
(* read the repository.  Requests of all users run at once, one store or   *)
(* GitFlame call at a time, and the backend restarts with a newer key.     *)
(*                                                                         *)
(* Abstractions.  A user is a position in users and a session or a row is  *)
(* its number, for the uuid; a cookie is the number of its session.  A     *)
(* ciphertext is the record of what was sealed.  Times are the events that *)
(* pass them.  Scopes, branches, addresses and last_* columns are left     *)
(* out.  A request that opens a token hands it to the index jobs and to    *)
(* its reads of the repository; both end with Touch here.                  *)
(***************************************************************************)
EXTENDS Sequences, Naturals

CONSTANTS
    Accounts,      \* GitFlame users
    Tokens,        \* access tokens
    Owner,         \* the account each token belongs to
    Repos,         \* repositories by their GitFlame id
    Addresses,     \* addresses of repositories, each a way to name one
    Located,       \* the repository GitFlame finds at an address
    Requests,      \* requests the backend serves at once
    None,          \* no token, no repository
    MaxArrivals,   \* bound: requests made
    MaxSessions,   \* bound: sessions created
    MaxRows,       \* bound: connections created
    MaxKey         \* bound: key versions

ASSUME ConnectionsAssumption ==
    /\ Owner \in [Tokens -> Accounts] /\ Located \in [Addresses -> Repos]
    /\ Repos \cap Addresses = {} /\ None \notin Tokens \cup Repos \cup Addresses
    /\ {MaxArrivals, MaxSessions, MaxRows, MaxKey} \subseteq Nat \ {0}

VARIABLES
    users,      \* app_users: the account of each user
    sessions,   \* app_sessions: [user, live]
    rows,       \* gitflame_connections: [user, repo, material, revoked, expired]
    key,        \* the version of the running credential cipher
    req,        \* the requests in the handlers
    arrivals    \* requests made so far

vars == <<users, sessions, rows, key, req, arrivals>>

Users == 1..Len(users)
Rows == 1..Len(rows)
Names == Repos \cup Addresses

(* A request: the user its session gave it, the token and repository it    *)
(* names, and the connection it is about: the row, and the copy it read,   *)
(* whose token is its client's.                                            *)
NoCopy == [user |-> 0, repo |-> None]
Ask(op, cookie, token, name, row) ==
    [op |-> op, cookie |-> cookie, user |-> 0, token |-> token, repo |-> name, row |-> row,
     copy |-> NoCopy,
     pc |-> CASE op = "none" -> "idle" [] op = "login" -> "signin" [] OTHER -> "authenticate"]
Idle == Ask("none", 0, None, None, 0)

At(r, pc) == req[r].pc = pc
Goto(r, pc) == req' = [req EXCEPT ![r].pc = pc]
End(r) == req' = [req EXCEPT ![r] = Idle]

-----------------------------------------------------------------------------
(* The credential cipher and the lookups of the store *)

Encrypt(token, user, repo) == [token |-> token, aad |-> <<user, repo>>, key |-> key]
Decrypts(material, user, repo) == material.key = key /\ material.aad = <<user, repo>>

(* A slip to catch: any user's connection is found by its id. *)
GitFlameConnection(user, i) == i \in Rows
UserGitFlameConnection(user, i) == i \in Rows /\ rows[i].user = user
UserGitFlameConnectionByRepository(user, repo, i) ==
    i \in Rows /\ rows[i].user = user /\ rows[i].repo = repo /\ ~rows[i].revoked

(* gitFlameReaderFromStoredConnection: the row gives a client. *)
Opens(row) == ~row.revoked /\ ~row.expired /\ Decrypts(row.material, row.user, row.repo)

-----------------------------------------------------------------------------
(* Arrivals, and the session *)

(* Any cookie may come back, those of sessions that ended included. *)
Arrive(r) ==
    /\ At(r, "idle") /\ arrivals < MaxArrivals
    /\ \E cookie \in 0..Len(sessions) :
          \/ \E token \in Tokens : req' = [req EXCEPT ![r] = Ask("login", 0, token, None, 0)]
          \/ req' = [req EXCEPT ![r] = Ask("logout", cookie, None, None, 0)]
          \/ \E token \in Tokens, name \in Names :
                req' = [req EXCEPT ![r] = Ask("connect", cookie, token, name, 0)]
          \/ \E i \in Rows, token \in Tokens, name \in Names \cup {None} :
                req' = [req EXCEPT ![r] = Ask("reconnect", cookie, token, name, i)]
          \/ \E i \in Rows, op \in {"revoke", "read"} :
                req' = [req EXCEPT ![r] = Ask(op, cookie, None, None, i)]
          \/ \E name \in Repos : req' = [req EXCEPT ![r] = Ask("use", cookie, None, name, 0)]
    /\ arrivals' = arrivals + 1
    /\ UNCHANGED <<users, sessions, rows, key>>

(* Any check that fails, and any error of GitFlame or of the store, ends   *)
(* the request; what it stored before stays.                               *)
Refuse(r) == ~At(r, "idle") /\ End(r) /\ UNCHANGED <<users, sessions, rows, key, arrivals>>

(* authenticate, and what each handler does with its answer. *)
AfterSession(op) ==
    CASE op = "connect" -> "validate"
      [] op \in {"logout", "revoke"} -> op
      [] OTHER -> "find"
Authenticate(r) ==
    LET live == req[r].cookie # 0 /\ sessions[req[r].cookie].live
    IN  /\ At(r, "authenticate")
        /\ live \/ req[r].op = "connect"
        /\ req' = [req EXCEPT ![r].pc = IF live THEN AfterSession(req[r].op) ELSE "signin",
                              ![r].cookie = IF req[r].op = "logout" THEN @ ELSE 0,
                              ![r].user = IF live THEN sessions[req[r].cookie].user ELSE 0]
        /\ UNCHANGED <<users, sessions, rows, key, arrivals>>

(* CurrentUser: GitFlame says whose token it is. *)
CurrentUser(token) == Owner[token]

(* UpsertAppUser: one user for each account. *)
UpsertAppUser(account) ==
    IF \E u \in Users : users[u] = account THEN users ELSE Append(users, account)

(* createSessionFromGitFlameToken, to the user ... *)
SignIn(r) ==
    LET account == CurrentUser(req[r].token) IN
    /\ At(r, "signin")
    /\ users' = UpsertAppUser(account)
    /\ \E u \in 1..Len(users') :
          /\ users'[u] = account
          /\ req' = [req EXCEPT ![r].pc = "session", ![r].user = u]
    /\ UNCHANGED <<sessions, rows, key, arrivals>>

(* ... and to the session. *)
CreateAppSession(r) ==
    /\ At(r, "session") /\ Len(sessions) < MaxSessions
    /\ sessions' = Append(sessions, [user |-> req[r].user, live |-> TRUE])
    /\ IF req[r].op = "login" THEN End(r) ELSE Goto(r, "validate")
    /\ UNCHANGED <<users, rows, key, arrivals>>

RevokeAppSession(r) ==
    /\ At(r, "logout")
    /\ sessions' = [sessions EXCEPT ![req[r].cookie].live = FALSE]
    /\ End(r)
    /\ UNCHANGED <<users, rows, key, arrivals>>

-----------------------------------------------------------------------------
(* Storing a token *)

(* A slip to catch: the address is stored for the id. *)
AsNamed(name) == name
ResolveRepository(name) == IF name \in Repos THEN name ELSE Located[name]

(* A slip to catch: a token of another account is taken. *)
ConnectionFromAnyToken(r) ==
    /\ At(r, "validate")
    /\ req' = [req EXCEPT ![r].pc = "save", ![r].repo = ResolveRepository(@)]
    /\ UNCHANGED <<users, sessions, rows, key, arrivals>>
(* connectionFromRequest: the token is the user's own, the repository is   *)
(* known, and the token is sealed for both.                                *)
ConnectionFromRequest(r) ==
    /\ At(r, "validate")
    /\ CurrentUser(req[r].token) = users[req[r].user]
    /\ req' = [req EXCEPT ![r].pc = "save", ![r].repo = ResolveRepository(@)]
    /\ UNCHANGED <<users, sessions, rows, key, arrivals>>

(* The row a save writes. *)
Saved(r) == [user |-> req[r].user, repo |-> req[r].repo, revoked |-> FALSE, expired |-> FALSE,
             material |-> Encrypt(req[r].token, req[r].user, req[r].repo)]
Same(r, i) == rows[i].user = req[r].user /\ rows[i].repo = req[r].repo

(* SaveGitFlameConnection: ON CONFLICT (user_id, repository_id) the row    *)
(* keeps its id.  A reconnect that names another repository, of which the  *)
(* user has no row, would insert its id again and fails (Refuse).          *)
SaveAt(r, i) ==
    /\ rows' = IF i \in Rows THEN [rows EXCEPT ![i] = Saved(r)] ELSE Append(rows, Saved(r))
    /\ req' = [req EXCEPT ![r].pc = "reload", ![r].row = i]
    /\ UNCHANGED <<users, sessions, key, arrivals>>
NewRow == IF Len(rows) < MaxRows THEN {Len(rows) + 1} ELSE {}
(* A slip to catch: the row of the id is overwritten, as in MemoryStore. *)
SaveConnectionByID(r) ==
    /\ At(r, "save")
    /\ LET same == {i \in Rows : Same(r, i)}
       IN  \E i \in IF same # {} THEN same ELSE IF req[r].row = 0 THEN NewRow ELSE {req[r].row} :
              SaveAt(r, i)
SaveGitFlameConnection(r) ==
    /\ At(r, "save")
    /\ LET same == {i \in Rows : Same(r, i)}
       IN  \E i \in IF same # {} THEN same ELSE IF req[r].row = 0 THEN NewRow ELSE {} :
              SaveAt(r, i)

(* The row is read again after its save, opened, and indexed. *)
Reload(r) ==
    LET row == rows[req[r].row] IN
    /\ At(r, "reload") /\ Opens(row)
    /\ req' = [req EXCEPT ![r].pc = "using", ![r].token = None, ![r].copy = row]
    /\ UNCHANGED <<users, sessions, rows, key, arrivals>>

-----------------------------------------------------------------------------
(* Using and revoking what is stored *)

(* reconnect: the user's connection, revoked or not, fills in what the     *)
(* request leaves out; it is the repository when the request has no id,    *)
(* though it has an address.                                               *)
FindExisting(r) ==
    /\ At(r, "find") /\ req[r].op = "reconnect"
    /\ UserGitFlameConnection(req[r].user, req[r].row)
    /\ req' = [req EXCEPT ![r].pc = "validate",
                          ![r].repo = IF @ \in Repos THEN @ ELSE rows[req[r].row].repo]
    /\ UNCHANGED <<users, sessions, rows, key, arrivals>>

(* gitFlameReaderForConnection: by the id of a connection. *)
OpenConnection(r) ==
    LET row == rows[req[r].row] IN
    /\ At(r, "find") /\ req[r].op = "read"
    /\ UserGitFlameConnection(req[r].user, req[r].row) /\ Opens(row)
    /\ req' = [req EXCEPT ![r].pc = "using", ![r].token = None, ![r].copy = row]
    /\ UNCHANGED <<users, sessions, rows, key, arrivals>>

(* gitFlameSourceForRepository: by the repository the request is about. *)
OpenRepository(r) ==
    /\ At(r, "find") /\ req[r].op = "use"
    /\ \E i \in Rows :
          /\ UserGitFlameConnectionByRepository(req[r].user, req[r].repo, i) /\ Opens(rows[i])
          /\ req' = [req EXCEPT ![r].pc = "using", ![r].row = i, ![r].copy = rows[i]]
    /\ UNCHANGED <<users, sessions, rows, key, arrivals>>

(* A slip to catch: the row read before the use is saved with the times. *)
TouchByCopy(r) ==
    /\ At(r, "using")
    /\ rows' = [rows EXCEPT ![req[r].row] = req[r].copy]
    /\ End(r)
    /\ UNCHANGED <<users, sessions, key, arrivals>>

(* TouchGitFlameConnection ends the use; it writes times only. *)
TouchGitFlameConnection(r) ==
    /\ At(r, "using")
    /\ End(r)
    /\ UNCHANGED <<users, sessions, rows, key, arrivals>>

RevokeGitFlameConnection(r) ==
    /\ At(r, "revoke") /\ UserGitFlameConnection(req[r].user, req[r].row)
    /\ rows' = [rows EXCEPT ![req[r].row].revoked = TRUE]
    /\ End(r)
    /\ UNCHANGED <<users, sessions, key, arrivals>>

-----------------------------------------------------------------------------
(* Time and restarts *)

SessionExpires(s) ==
    /\ sessions[s].live
    /\ sessions' = [sessions EXCEPT ![s].live = FALSE]
    /\ UNCHANGED <<users, rows, key, req, arrivals>>

TokenExpires(i) ==
    /\ ~rows[i].expired
    /\ rows' = [rows EXCEPT ![i].expired = TRUE]
    /\ UNCHANGED <<users, sessions, key, req, arrivals>>

(* NewCredentialCipher at a restart, with the same key or a newer one; the *)
(* requests in progress are lost.                                          *)
Restart ==
    /\ key' \in key..MaxKey
    /\ req' = [r \in Requests |-> Idle]
    /\ UNCHANGED <<users, sessions, rows, arrivals>>

Init ==
    /\ users = <<>> /\ sessions = <<>> /\ rows = <<>> /\ key = 1
    /\ req = [r \in Requests |-> Idle] /\ arrivals = 0

Serve(r) ==
    \/ Arrive(r) \/ Refuse(r) \/ Authenticate(r)
    \/ SignIn(r) \/ CreateAppSession(r) \/ RevokeAppSession(r)
    \/ ConnectionFromRequest(r) \/ SaveGitFlameConnection(r) \/ Reload(r)
    \/ FindExisting(r) \/ OpenConnection(r) \/ OpenRepository(r)
    \/ TouchGitFlameConnection(r) \/ RevokeGitFlameConnection(r)

Next ==
    \/ \E r \in Requests : Serve(r)
    \/ \E s \in 1..Len(sessions) : SessionExpires(s)
    \/ \E i \in Rows : TokenExpires(i)
    \/ Restart

Spec == Init /\ [][Next]_vars

-----------------------------------------------------------------------------
(* Properties *)

RowType ==
    [user : Nat \ {0}, repo : Repos, revoked : BOOLEAN, expired : BOOLEAN,
     material : [token : Tokens, aad : (Nat \ {0}) \X Repos, key : Nat]]
RequestType ==
    [op : {"none", "login", "logout", "connect", "reconnect", "revoke", "read", "use"},
     pc : {"idle", "authenticate", "signin", "session", "logout", "revoke", "find",
           "validate", "save", "reload", "using"},
     cookie : Nat, user : Nat, token : Tokens \cup {None}, repo : Names \cup {None}, row : Nat,
     copy : RowType \cup {NoCopy}]

(* Every variable has its type, and every session, row and request names a *)
(* user, a session and a row that exist: the foreign keys of the schema    *)
(* (initial_schema.sql) and the handlers of auth.go.                       *)
TypeOK ==
    /\ users \in Seq(Accounts)
    /\ sessions \in Seq([user : Users, live : BOOLEAN])
    /\ rows \in Seq(RowType) /\ \A i \in Rows : rows[i].user \in Users
    /\ key \in Nat \ {0} /\ arrivals \in Nat
    /\ req \in [Requests -> RequestType]
    /\ \A r \in Requests :
          /\ req[r].cookie <= Len(sessions) /\ req[r].user <= Len(users)
          /\ req[r].row <= Len(rows)

(* An account has one user and a user has one connection for a repository, *)
(* and whatever is stored there is a token of that very account, sealed    *)
(* for that user and repository: two requests that sign in or connect at   *)
(* once, and a session that outlives a change of account in the browser,   *)
(* make no difference (auth.go:176 and 201, postgres.go:58-71 and 672).    *)
StoredTokenIsOwn ==
    /\ \A u, v \in Users : users[u] = users[v] => u = v
    /\ \A i, j \in Rows :
          rows[i].user = rows[j].user /\ rows[i].repo = rows[j].repo => i = j
    /\ \A i \in Rows :
          /\ Owner[rows[i].material.token] = users[rows[i].user]
          /\ rows[i].material.aad = <<rows[i].user, rows[i].repo>>

(* A request works with a token of the account of its own session, for the *)
(* repository it asked for, whatever was saved, revoked or rotated between *)
(* its steps (auth.go:271-370).                                            *)
ClientIsAuthorized ==
    \A r \in Requests : At(r, "using") =>
        /\ Owner[req[r].copy.material.token] = users[req[r].user]
        /\ rows[req[r].row].user = req[r].user
        /\ req[r].op \in {"use", "connect"} => rows[req[r].row].repo = req[r].repo

(* The id of a connection, which webhooks and index jobs keep, means the   *)
(* same user's same repository for ever: a reconnect may rotate the token  *)
(* but never moves the row (postgres.go:672, auth.go:144).                 *)
RowKeepsRepository ==
    [][\A i \in Rows :
          /\ i <= Len(rows')
          /\ rows'[i].user = rows[i].user /\ rows'[i].repo = rows[i].repo]_vars

(* Only a request that stores a token it had GitFlame check brings a       *)
(* revoked connection back: a use that began before the revoke and ends    *)
(* after it does not (postgres.go:684 and 788-792).                        *)
UseNeverRevives ==
    [][\A i \in Rows : rows[i].revoked /\ ~rows'[i].revoked =>
          \E r \in Requests : At(r, "save") /\ rows'[i].material.token = req[r].token]_vars

=============================================================================
