------------------------------- MODULE Sessions -------------------------------
(***************************************************************************)
(* Logins, refresh-token rotation and logout (api/auth.py), the admission  *)
(* of a request (security/auth.py), the switch that disables a user        *)
(* (api/admin.py) and the client of the operator interface that holds the  *)
(* tokens (streamlit_app/api_client/client.py).                            *)
(*                                                                         *)
(* A thread of the API serves one request in one transaction.  A refresh   *)
(* and a logout lock the row of the token they are given; a login locks    *)
(* nothing.  A commit writes the columns that differ from those loaded.    *)
(* The answer reaches the client with the last step of the thread, unless  *)
(* the client has given up by then, which also stands for an answer that   *)
(* is lost.  A session and its newest token expire together.  Time passes  *)
(* in the steps of the environment.  The age of the last authentication,   *)
(* roles, permissions and the audit rows are left out.                     *)
(***************************************************************************)
EXTENDS Integers, Sequences, FiniteSets

CONSTANTS
  Users,
  Clients,      \* browser tabs, each with its own tokens
  Threads,      \* threads of the API
  None,
  LockAfter,    \* failures that lock an account (5 in the code)
  MaxStrikes,   \* bound on the failed logins of a user
  MaxSessions,  \* bound on sessions
  MaxTokens     \* bound on refresh tokens

ASSUME SessionsAssumption ==
  /\ LockAfter \in Nat \ {0}
  /\ {MaxStrikes, MaxSessions, MaxTokens} \subseteq Nat
  /\ IsFiniteSet(Threads)
  /\ None \notin Users \cup Clients \cup Threads

VARIABLES
  users,     \* rows of users
  sessions,  \* rows of auth_sessions, in the order of their commits
  tokens,    \* rows of refresh_tokens, in the order of their commits
  jobs,      \* what each thread is serving, None when it is free
  clients,   \* the tokens and the outstanding request of each client
  strikes    \* history: failed logins committed for each user

rows == <<users, sessions, tokens>>
vars == <<rows, jobs, clients, strikes>>

-----------------------------------------------------------------------------
(* Rows. *)

User == [enabled : BOOLEAN, failed : 0..(LockAfter - 1),
         lock : {"none", "active", "past"}]
Session == [user : Users, revoked : BOOLEAN, lapsed : BOOLEAN]
Token == [session : 1..MaxSessions, revoked : BOOLEAN, next : 0..MaxTokens]

\* What a client keeps: its access token's session, whether that token is
\* still valid, and the refresh token.
Auth == [session : 1..MaxSessions, jwt : BOOLEAN, token : 1..MaxTokens]

\* call: the thread that serves its request; lost: the answer to a refresh with
\* these tokens never came; left: the session it has just logged out of, or 0.
Client == [auth : Auth \cup {None}, call : Threads \cup {None},
           lost : BOOLEAN, left : 0..MaxSessions]

\* saw: the user row a login has loaded, the sibling tokens a logout has seen.
Login == [op : {"login"}, user : Users, good : BOOLEAN, saw : User \cup {None}]
Refresh == [op : {"refresh"}, token : 1..MaxTokens, held : BOOLEAN]
Logout == [op : {"logout"}, token : 1..MaxTokens, held : BOOLEAN,
           saw : {None} \cup SUBSET (1..MaxTokens)]

\* None is none of the values that it stands beside.
ASSUME NoneAssumption ==
  /\ None \notin Login \cup Refresh \cup Logout
  /\ None \notin Auth /\ None \notin User
  /\ \A seen \in SUBSET (1..MaxTokens) : seen # None

Live(t) == ~tokens[t].revoked
TokensOf(s) == {t \in DOMAIN tokens : tokens[t].session = s}

\* current_principal: the request that carries this access token is served.
Accepted(a) ==
  /\ a.jwt
  /\ users[sessions[a.session].user].enabled
  /\ ~sessions[a.session].revoked
  /\ ~sessions[a.session].lapsed

\* What a commit writes: the columns whose value differs from the one loaded.
Emit(row, loaded, new) ==
  [f \in DOMAIN row |-> IF new[f] # loaded[f] THEN new[f] ELSE row[f]]

Busy(p) == jobs[p] # None
Serves(p, op) == Busy(p) /\ jobs[p].op = op

\* A slip: SELECT without FOR UPDATE.
Locked_Never(t, p) == FALSE

\* A slip: the siblings are revoked over a connection of their own.
Locked_ByItself(t, p) ==
  \E q \in Threads :
    Busy(q) /\ jobs[q].op # "login" /\ jobs[q].token = t /\ jobs[q].held

\* Another thread than p has the row of token t locked.
Locked(t, p) ==
  \E q \in Threads \ {p} :
    Busy(q) /\ jobs[q].op # "login" /\ jobs[q].token = t /\ jobs[q].held

-----------------------------------------------------------------------------
(* The client. *)

\* Requests under way that may still add a session or a token.
Adding == {p \in Threads : Busy(p) /\ jobs[p].op # "logout"}

\* Client c sends a request, which thread p begins to serve.
Send(c, p, job) ==
  /\ clients[c].call = None
  /\ ~Busy(p)
  /\ jobs' = [jobs EXCEPT ![p] = job]
  /\ clients' = [clients EXCEPT ![c].call = p]
  /\ UNCHANGED <<rows, strikes>>

\* login() of the client; the interface shows the form when it has no tokens.
SendLogin(c, p) ==
  /\ clients[c].auth = None
  /\ Len(sessions) + Cardinality(Adding) < MaxSessions
  /\ Len(tokens) + Cardinality(Adding) < MaxTokens
  /\ \A u \in Users :
       strikes[u] + Cardinality({q \in Threads : Serves(q, "login")}) < MaxStrikes
  /\ \E u \in Users, good \in BOOLEAN :
       Send(c, p, [op |-> "login", user |-> u, good |-> good, saw |-> None])

\* request() of the client is answered 401, and _refresh sends the token.
SendRefresh(c, p) ==
  /\ clients[c].auth # None
  /\ ~Accepted(clients[c].auth)
  /\ Len(tokens) + Cardinality(Adding) < MaxTokens
  /\ Send(c, p, [op |-> "refresh", token |-> clients[c].auth.token, held |-> FALSE])

\* logout() of the client.
SendLogout(c, p) ==
  /\ clients[c].auth # None
  /\ Send(c, p, [op |-> "logout", token |-> clients[c].auth.token, held |-> FALSE,
                 saw |-> None])

\* The client gives up on a request that takes too long, or whose answer never
\* comes.  It forgets its tokens after a logout and keeps them otherwise.
GiveUp(c) ==
  LET p == clients[c].call IN
  /\ p # None
  /\ clients' = [clients EXCEPT ![c] =
       [auth |-> IF Serves(p, "logout") THEN None ELSE @.auth, call |-> None,
        lost |-> Serves(p, "refresh"), left |-> 0]]
  /\ UNCHANGED <<rows, jobs, strikes>>

\* A slip: the client keeps the tokens it has.
Receive_OldTokens(c, auth, left) ==
  [auth |-> IF clients[c].auth = None THEN auth ELSE clients[c].auth, call |-> None,
   lost |-> FALSE, left |-> left]

\* The answer reaches client c, which keeps these tokens from now on.
Receive(c, auth, left) ==
  [auth |-> auth, call |-> None, lost |-> FALSE,
   left |-> IF clients[c].lost THEN 0 ELSE left]

\* Thread p ends its transaction, and its client, if it still waits, receives.
End(p, auth, left) ==
  /\ jobs' = [jobs EXCEPT ![p] = None]
  /\ clients' = [c \in Clients |->
       IF clients[c].call = p THEN Receive(c, auth, left) ELSE clients[c]]

\* Thread p dies or fails, and its transaction is rolled back.  The client gets
\* a 500, on which it forgets its tokens, or no answer.
Abort(p) ==
  /\ Busy(p)
  /\ \/ End(p, None, 0)
     \/ \E c \in Clients :
          /\ clients[c].call = p
          /\ jobs' = [jobs EXCEPT ![p] = None]
          /\ clients' = [clients EXCEPT ![c] =
               [auth |-> IF Serves(p, "logout") THEN None ELSE @.auth, call |-> None,
                lost |-> Serves(p, "refresh"), left |-> 0]]
  /\ UNCHANGED <<rows, strikes>>

-----------------------------------------------------------------------------
(* login. *)

\* The user is read; a locked account is refused.
LoginRead(p) ==
  /\ Serves(p, "login")
  /\ jobs[p].saw = None
  /\ LET row == users[jobs[p].user] IN
     IF row.lock = "active"
       THEN End(p, None, 0)
       ELSE /\ jobs' = [jobs EXCEPT ![p].saw = row]
            /\ UNCHANGED clients
  /\ UNCHANGED <<rows, strikes>>

\* A slip: an account that is not locked yet is locked one failure early.
Failed_Early(row) ==
  IF row.failed + 1 >= LockAfter - 1 THEN [row EXCEPT !.failed = 0, !.lock = "active"]
                                     ELSE [row EXCEPT !.failed = @ + 1]

\* The user row after a failure.
Failed(row) ==
  IF row.failed + 1 >= LockAfter THEN [row EXCEPT !.failed = 0, !.lock = "active"]
                                 ELSE [row EXCEPT !.failed = @ + 1]

\* Wrong password or disabled user: one more failure is counted.
LoginFail(p) ==
  /\ Serves(p, "login")
  /\ jobs[p].saw # None
  /\ ~(jobs[p].good /\ jobs[p].saw.enabled)
  /\ LET u == jobs[p].user IN
     /\ users' = [users EXCEPT ![u] = Emit(@, jobs[p].saw, Failed(jobs[p].saw))]
     /\ strikes' = [strikes EXCEPT ![u] = @ + 1]
  /\ End(p, None, 0)
  /\ UNCHANGED <<sessions, tokens>>

\* The failures are forgotten and a session begins, with its first token.  The
\* client asks for its profile, and forgets the token if that is refused.
LoginCommit(p) ==
  /\ Serves(p, "login")
  /\ jobs[p].saw # None
  /\ jobs[p].good /\ jobs[p].saw.enabled
  /\ LET u == jobs[p].user
         s == Len(sessions) + 1
         new == [session |-> s, jwt |-> TRUE, token |-> Len(tokens) + 1]
     IN  /\ users' = [users EXCEPT ![u] =
              Emit(@, jobs[p].saw, [jobs[p].saw EXCEPT !.failed = 0, !.lock = "none"])]
         /\ sessions' = Append(sessions, [user |-> u, revoked |-> FALSE, lapsed |-> FALSE])
         /\ tokens' = Append(tokens, [session |-> s, revoked |-> FALSE, next |-> 0])
         /\ End(p, IF users[u].enabled THEN new ELSE None, 0)
  /\ UNCHANGED strikes

-----------------------------------------------------------------------------
(* refresh. *)

\* The token is locked and read, then its user.
RefreshLock(p) ==
  /\ Serves(p, "refresh")
  /\ ~jobs[p].held
  /\ LET t == jobs[p].token
         session == sessions[tokens[t].session]
     IN  /\ ~Locked(t, p)
         /\ IF Live(t) /\ ~session.lapsed /\ users[session.user].enabled
              THEN /\ jobs' = [jobs EXCEPT ![p].held = TRUE]
                   /\ UNCHANGED clients
              ELSE End(p, None, 0)
  /\ UNCHANGED <<rows, strikes>>

\* A slip: the token that was exchanged stays valid.
Rotated_StaysLive(t, s) ==
  Append([tokens EXCEPT ![t].next = Len(tokens) + 1],
         [session |-> s, revoked |-> FALSE, next |-> 0])

\* The tokens after t has been exchanged for a new one of its session.
Rotated(t, s) ==
  Append([tokens EXCEPT ![t].revoked = TRUE, ![t].next = Len(tokens) + 1],
         [session |-> s, revoked |-> FALSE, next |-> 0])

\* The session is renewed, whatever its revoked_at says.  The client sends its
\* request again, and forgets the new tokens if that is refused as well.
RefreshCommit(p) ==
  /\ Serves(p, "refresh")
  /\ jobs[p].held
  /\ LET t == jobs[p].token
         s == tokens[t].session
         new == [session |-> s, jwt |-> TRUE, token |-> Len(tokens) + 1]
     IN  /\ tokens' = Rotated(t, s)
         /\ sessions' = [sessions EXCEPT ![s].lapsed = FALSE]
         /\ End(p, IF users[sessions[s].user].enabled THEN new ELSE None, 0)
  /\ UNCHANGED <<users, strikes>>

-----------------------------------------------------------------------------
(* logout. *)

\* The token is locked and read.  A revoked one is answered logged_out, too.
LogoutLock(p) ==
  /\ Serves(p, "logout")
  /\ ~jobs[p].held
  /\ ~Locked(jobs[p].token, p)
  /\ IF Live(jobs[p].token)
       THEN /\ jobs' = [jobs EXCEPT ![p].held = TRUE]
            /\ UNCHANGED clients
       ELSE End(p, None, tokens[jobs[p].token].session)
  /\ UNCHANGED <<rows, strikes>>

\* The live tokens of the session are read, without a lock.
LogoutRead(p) ==
  /\ Serves(p, "logout")
  /\ jobs[p].held
  /\ jobs[p].saw = None
  /\ jobs' = [jobs EXCEPT ![p].saw =
       {t \in TokensOf(tokens[jobs[p].token].session) : Live(t)}]
  /\ UNCHANGED <<rows, clients, strikes>>

\* They are revoked, once nobody else has them locked, with the session.
LogoutCommit(p) ==
  /\ Serves(p, "logout")
  /\ jobs[p].saw # None
  /\ \A t \in jobs[p].saw : ~Locked(t, p)
  /\ LET s == tokens[jobs[p].token].session IN
     /\ sessions' = [sessions EXCEPT ![s].revoked = TRUE]
     /\ tokens' = [t \in DOMAIN tokens |->
          [tokens[t] EXCEPT !.revoked = @ \/ t \in jobs[p].saw \cup {jobs[p].token}]]
     /\ End(p, None, s)
  /\ UNCHANGED <<users, strikes>>

-----------------------------------------------------------------------------
(* The administrator and the clock. *)

\* patch_user enables or disables a user.
SetEnabled(u) ==
  /\ users' = [users EXCEPT ![u].enabled = ~@]
  /\ UNCHANGED <<sessions, tokens, jobs, clients, strikes>>

\* locked_until passes.
LockLapses(u) ==
  /\ users[u].lock = "active"
  /\ users' = [users EXCEPT ![u].lock = "past"]
  /\ UNCHANGED <<sessions, tokens, jobs, clients, strikes>>

\* The access token of client c expires.
AccessLapses(c) ==
  /\ clients[c].auth # None
  /\ clients[c].auth.jwt
  /\ clients' = [clients EXCEPT ![c].auth.jwt = FALSE]
  /\ UNCHANGED <<rows, jobs, strikes>>

\* A session expires, and its token with it.
SessionLapses(s) ==
  /\ ~sessions[s].lapsed
  /\ sessions' = [sessions EXCEPT ![s].lapsed = TRUE]
  /\ UNCHANGED <<users, tokens, jobs, clients, strikes>>

-----------------------------------------------------------------------------
Init ==
  /\ users = [u \in Users |-> [enabled |-> TRUE, failed |-> 0, lock |-> "none"]]
  /\ sessions = <<>>
  /\ tokens = <<>>
  /\ jobs = [p \in Threads |-> None]
  /\ clients = [c \in Clients |->
       [auth |-> None, call |-> None, lost |-> FALSE, left |-> 0]]
  /\ strikes = [u \in Users |-> 0]

\* A thread serves its request.
Serve(p) ==
  \/ LoginRead(p) \/ LoginFail(p) \/ LoginCommit(p)
  \/ RefreshLock(p) \/ RefreshCommit(p)
  \/ LogoutLock(p) \/ LogoutRead(p) \/ LogoutCommit(p)

Act(c) ==
  \/ GiveUp(c)
  \/ \E p \in Threads : SendLogin(c, p) \/ SendRefresh(c, p) \/ SendLogout(c, p)

Environment ==
  \/ \E u \in Users : SetEnabled(u) \/ LockLapses(u)
  \/ \E c \in Clients : AccessLapses(c)
  \/ \E s \in DOMAIN sessions : SessionLapses(s)

Next ==
  \/ \E p \in Threads : Serve(p) \/ Abort(p)
  \/ \E c \in Clients : Act(c)
  \/ Environment

Spec == Init /\ [][Next]_vars

\* A thread keeps running, and PostgreSQL grants a row lock to those that wait
\* for it in their order: a lock that is free again and again is obtained.
FairSpec == Spec /\ \A p \in Threads : SF_vars(Serve(p))

-----------------------------------------------------------------------------
(* Properties. *)

\* Every variable keeps its type (models User, AuthSession and RefreshToken).
TypeOK ==
  /\ users \in [Users -> User]
  /\ sessions \in Seq(Session) /\ Len(sessions) <= MaxSessions
  /\ tokens \in Seq(Token) /\ Len(tokens) <= MaxTokens
  /\ jobs \in [Threads -> Login \cup Refresh \cup Logout \cup {None}]
  /\ clients \in [Clients -> Client]
  /\ strikes \in [Users -> 0..MaxStrikes]

\* A refresh token is exchanged at most once: whatever two requests do with it
\* at the same time, a session has one live token at most (refresh, logout).
OneLiveToken ==
  \A t, k \in DOMAIN tokens :
    tokens[t].session = tokens[k].session /\ Live(t) /\ Live(k) => t = k

\* logout revokes the siblings it has seen; none is added behind its back, so
\* that nothing renews a session that was logged out of.
RevokedIsDead ==
  \A t \in DOMAIN tokens : sessions[tokens[t].session].revoked => ~Live(t)

\* A client whose refreshes have all been answered holds the live token of its
\* session: rotation strands nobody (_refresh of the client, refresh).
HolderIsLive ==
  \A c \in Clients :
    clients[c].auth # None /\ clients[c].call = None /\ ~clients[c].lost
      => Live(clients[c].auth.token)

\* A client whose refreshes have all been answered and that was told logged_out
\* leaves no session behind (logout answers that to a revoked token as well).
LoggedOutIsClosed ==
  \A c \in Clients : clients[c].left # 0 => sessions[clients[c].left].revoked

\* An account is locked only after LockAfter failures, and its counter never
\* runs ahead of them, however the logins overlap (login).
LockIsEarned ==
  \A u \in Users :
    /\ users[u].lock # "none" => strikes[u] >= LockAfter
    /\ users[u].failed <= strikes[u]

\* The key that extends session s, 0 if there is none.
KeyOf(s) ==
  LET live == {t \in TokensOf(s) : Live(t)}
  IN  IF live = {} THEN 0 ELSE CHOOSE t \in live : TRUE

\* The stage of session s.
StageOf(s) ==
  IF s \notin DOMAIN sessions THEN "absent"
  ELSE IF sessions[s].revoked THEN "closed" ELSE "open"

Promise == INSTANCE SessionContract WITH
  Ids <- 1..MaxSessions,
  Keys <- 1..MaxTokens,
  NoKey <- 0,
  stage <- [s \in 1..MaxSessions |-> StageOf(s)],
  key <- [s \in 1..MaxSessions |-> KeyOf(s)],
  issued <- DOMAIN tokens

\* Logins, refreshes and logouts that overlap implement SessionContract.
Contract == Promise!Spec

\* Every request ends: no two transactions wait for each other's token rows
\* (the SELECT FOR UPDATE of refresh and logout, the sibling updates of logout).
EveryRequestEnds ==
  \A p \in Threads : Busy(p) ~> ~Busy(p)
=============================================================================
