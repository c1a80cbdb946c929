---------------------------- MODULE SessionsProofs ----------------------------
(***************************************************************************)
(* Proofs about Sessions, for any users, clients, threads and bounds: type *)
(* correctness, that a session has one live refresh token, that nothing    *)
(* extends a session that was logged out of, that a lock is earned, that   *)
(* rotation strands no client and a logout leaves nothing open, and that   *)
(* the endpoints implement SessionContract.                                *)
(***************************************************************************)
EXTENDS Sessions, FiniteSetTheorems, SequenceTheorems, TLAPS

-----------------------------------------------------------------------------
(* The inductive invariant. *)

Job == Login \cup Refresh \cup Logout

Logins == {q \in Threads : Serves(q, "login")}

\* What the bounds allow, counting the requests under way.
Counted ==
  /\ Len(sessions) + Cardinality(Logins) <= MaxSessions
  /\ Len(tokens) + Cardinality(Adding) <= MaxTokens
  /\ \A u \in Users : strikes[u] + Cardinality(Logins) <= MaxStrikes

\* Tokens belong to sessions, and requests and clients name tokens.
Linked ==
  /\ \A t \in DOMAIN tokens : tokens[t].session \in DOMAIN sessions
  /\ \A p \in Threads : Busy(p) /\ jobs[p].op # "login" => jobs[p].token \in DOMAIN tokens
  /\ \A c \in Clients : clients[c].auth # None =>
       /\ clients[c].auth.token \in DOMAIN tokens
       /\ clients[c].auth.session \in DOMAIN sessions

Holds(p, t) ==
  Busy(p) /\ jobs[p].op # "login" /\ jobs[p].token = t /\ jobs[p].held

\* A token that is locked is live, and locked by one thread.
LocksOK ==
  /\ \A p \in Threads, t \in DOMAIN tokens : Holds(p, t) => Live(t)
  /\ \A p, q \in Threads, t \in DOMAIN tokens : Holds(p, t) /\ Holds(q, t) => p = q
  /\ \A p \in Threads : Serves(p, "logout") /\ jobs[p].saw # None => jobs[p].held

\* The user row that a login has read does not run ahead of the failures.
ReadsOK ==
  \A p \in Threads : Serves(p, "login") /\ jobs[p].saw # None =>
    /\ jobs[p].saw.lock # "none" => strikes[jobs[p].user] >= LockAfter
    /\ jobs[p].saw.failed <= strikes[jobs[p].user]

\* The parts build on one another.
Shape == TypeOK /\ Linked /\ Counted
Safe == LocksOK /\ OneLiveToken /\ RevokedIsDead
Earned == ReadsOK /\ LockIsEarned

-----------------------------------------------------------------------------
(* Bounds, records and counts. *)

LEMMA Bounds ==
  /\ LockAfter \in Nat /\ LockAfter # 0
  /\ MaxStrikes \in Nat /\ MaxSessions \in Nat /\ MaxTokens \in Nat
  /\ None \notin Threads /\ None \notin Users /\ None \notin Clients
  /\ None \notin Job /\ None \notin Auth /\ None \notin User
  /\ None \notin SUBSET (1..MaxTokens)
  /\ IsFiniteSet(Threads)
BY SessionsAssumption, NoneAssumption DEF Job

\* The op tells the three kinds of request apart.
LEMMA Kinds ==
  ASSUME TypeOK, NEW p \in Threads, Busy(p)
  PROVE  /\ jobs[p] \in Job
         /\ jobs[p].op = "login" <=> jobs[p] \in Login
         /\ jobs[p].op = "refresh" <=> jobs[p] \in Refresh
         /\ jobs[p].op = "logout" <=> jobs[p] \in Logout
BY DEF TypeOK, Busy, Job, Login, Refresh, Logout

\* The threads that serve something are finitely many.
LEMMA Finite ==
  /\ IsFiniteSet(Logins) /\ IsFiniteSet(Adding)
  /\ Cardinality(Logins) \in Nat /\ Cardinality(Adding) \in Nat
  /\ Cardinality(Logins) <= Cardinality(Adding)
<1>1. Logins \subseteq Adding /\ Adding \subseteq Threads
  BY DEF Logins, Adding, Serves
<1>2. IsFiniteSet(Adding) /\ IsFiniteSet(Logins)
  BY <1>1, Bounds, FS_Subset
<1>3. QED
  BY <1>1, <1>2, FS_CardinalityType, FS_Subset

\* One thread begins or ends a request, or changes what it has read.
LEMMA Counts ==
  ASSUME TypeOK, NEW p \in Threads, NEW job \in Job \cup {None},
         jobs' = [jobs EXCEPT ![p] = job]
  PROVE  /\ Cardinality(Logins') \in Nat /\ Cardinality(Adding') \in Nat
         /\ Cardinality(Logins') <= Cardinality(Logins) + 1
         /\ Cardinality(Adding') <= Cardinality(Adding) + 1
         /\ job = None => /\ Cardinality(Logins') <= Cardinality(Logins)
                          /\ Cardinality(Adding') <= Cardinality(Adding)
         /\ job = None /\ Serves(p, "login") =>
              Cardinality(Logins') = Cardinality(Logins) - 1
         /\ job = None /\ Busy(p) /\ jobs[p].op # "logout" =>
              Cardinality(Adding') = Cardinality(Adding) - 1
         /\ job # None /\ job.op # "login" /\ ~Busy(p) =>
              Cardinality(Logins') = Cardinality(Logins)
         /\ job # None /\ job.op = "logout" /\ ~Busy(p) =>
              Cardinality(Adding') = Cardinality(Adding)
         /\ Busy(p) /\ job # None /\ job.op = jobs[p].op =>
              /\ Cardinality(Logins') = Cardinality(Logins)
              /\ Cardinality(Adding') = Cardinality(Adding)
<1>1. /\ \A q \in Threads \ {p} : jobs'[q] = jobs[q]
      /\ jobs'[p] = job
  BY DEF TypeOK
<1>2. Logins' = IF job # None /\ job.op = "login" THEN Logins \cup {p} ELSE Logins \ {p}
  BY <1>1 DEF Logins, Serves, Busy
<1>3. Adding' = IF job # None /\ job.op # "logout" THEN Adding \cup {p} ELSE Adding \ {p}
  BY <1>1 DEF Adding, Busy
<1>4. /\ p \in Logins <=> Serves(p, "login")
      /\ p \in Adding <=> Busy(p) /\ jobs[p].op # "logout"
  BY DEF Logins, Adding
<1>5. /\ Cardinality(Logins \cup {p}) = IF p \in Logins THEN Cardinality(Logins)
                                                     ELSE Cardinality(Logins) + 1
      /\ Cardinality(Logins \ {p}) = IF p \in Logins THEN Cardinality(Logins) - 1
                                                   ELSE Cardinality(Logins)
  BY Finite, FS_AddElement, FS_RemoveElement
<1>6. /\ Cardinality(Adding \cup {p}) = IF p \in Adding THEN Cardinality(Adding)
                                                     ELSE Cardinality(Adding) + 1
      /\ Cardinality(Adding \ {p}) = IF p \in Adding THEN Cardinality(Adding) - 1
                                                   ELSE Cardinality(Adding)
  BY Finite, FS_AddElement, FS_RemoveElement
<1>7. /\ IsFiniteSet(Logins') /\ IsFiniteSet(Adding')
  BY <1>2, <1>3, Finite, FS_AddElement, FS_RemoveElement
<1>8. Cardinality(Logins') \in Nat /\ Cardinality(Adding') \in Nat
  BY <1>7, FS_CardinalityType
<1>9. Busy(p) => jobs[p] # None
  BY DEF Busy
<1> HIDE DEF Logins, Adding
<1>10. QED
  BY <1>2, <1>3, <1>4, <1>5, <1>6, <1>8, <1>9, Finite DEF Serves

-----------------------------------------------------------------------------
(* Shape: what the client and the environment do. *)

\* The end of a request frees the thread, and gives its client auth or nothing.
LEMMA Ends ==
  ASSUME Shape, NEW p \in Threads, NEW auth \in Auth \cup {None},
         NEW left \in 0..MaxSessions, End(p, auth, left)
  PROVE  /\ jobs' = [jobs EXCEPT ![p] = None]
         /\ clients' \in [Clients -> Client]
         /\ \A c \in Clients : clients'[c].auth \in {clients[c].auth, auth}
<1>1. ASSUME NEW c \in Clients
      PROVE  Receive(c, auth, left) \in Client /\ Receive(c, auth, left).auth = auth
  BY Bounds DEF Receive, Client
<1>2. clients \in [Clients -> Client]
  BY DEF Shape, TypeOK
<1>3. clients' = [c \in Clients |->
        IF clients[c].call = p THEN Receive(c, auth, left) ELSE clients[c]]
  BY DEF End
<1>4. QED
  BY <1>1, <1>2, <1>3 DEF End

\* The links of the clients, on which the rows of other clients do not bear.
ClientLinks ==
  \A c \in Clients : clients[c].auth # None =>
    /\ clients[c].auth.token \in DOMAIN tokens
    /\ clients[c].auth.session \in DOMAIN sessions

\* A step that touches no row: one thread begins, goes on or ends.
LEMMA JobStep ==
  ASSUME Shape, NEW p \in Threads, NEW job \in Job \cup {None},
         jobs' = [jobs EXCEPT ![p] = job], UNCHANGED <<rows, strikes>>,
         job # None /\ job.op # "login" => job.token \in DOMAIN tokens,
         clients' \in [Clients -> Client], ClientLinks', Counted'
  PROVE  Shape'
<1>1. jobs' \in [Threads -> Login \cup Refresh \cup Logout \cup {None}]
  BY DEF Shape, TypeOK, Job
<1>2. TypeOK'
  BY <1>1 DEF Shape, TypeOK, rows
<1>3. \A q \in Threads : Busy(q)' /\ jobs'[q].op # "login"
        => jobs'[q].token \in (DOMAIN tokens)'
  BY <1>1 DEF Shape, TypeOK, Linked, rows, Busy
<1>4. Linked'
  BY <1>3 DEF Shape, Linked, ClientLinks, rows
<1>5. QED
  BY <1>2, <1>4 DEF Shape

\* A thread that goes on with its request, or ends it, counts no more than before.
LEMMA GoesOn ==
  ASSUME Shape, NEW p \in Threads, NEW job \in Job \cup {None}, Busy(p),
         jobs' = [jobs EXCEPT ![p] = job], UNCHANGED <<rows, strikes>>,
         job # None => job.op = jobs[p].op
  PROVE  Counted'
<1> DEFINE Bounded == /\ Cardinality(Logins') <= Cardinality(Logins)
                      /\ Cardinality(Logins') \in Nat
                      /\ Cardinality(Adding') <= Cardinality(Adding)
                      /\ Cardinality(Adding') \in Nat
<1>1. Bounded
  <2>1. TypeOK
    BY DEF Shape
  <2>2. CASE job = None
    BY <2>1, <2>2, Counts
  <2>3. CASE job # None
    <3>1. job.op = jobs[p].op
      BY <2>3
    <3>2. /\ Cardinality(Logins') = Cardinality(Logins)
          /\ Cardinality(Adding') = Cardinality(Adding)
      BY <2>1, <2>3, <3>1, Counts, Zenon
    <3>3. QED
      BY <3>2, Finite
  <2>4. QED
    BY <2>2, <2>3
<1>2. /\ Len(sessions) \in Nat /\ Len(tokens) \in Nat
      /\ \A u \in Users : strikes[u] \in Nat
  BY Bounds, LenProperties DEF Shape, TypeOK
<1>3. sessions' = sessions /\ tokens' = tokens /\ strikes' = strikes
  BY DEF rows
<1> HIDE DEF Logins, Adding
<1>4. QED
  BY <1>1, <1>2, <1>3, Finite, Bounds DEF Counted, Shape

\* Clients that keep their tokens keep their links, as nothing is deleted.
LEMMA KeepLinks ==
  ASSUME Shape, DOMAIN tokens \subseteq DOMAIN tokens', DOMAIN sessions \subseteq DOMAIN sessions',
         NEW auth,
         auth # None => auth.token \in DOMAIN tokens' /\ auth.session \in DOMAIN sessions',
         \A c \in Clients : clients'[c].auth \in {clients[c].auth, auth}
  PROVE  ClientLinks'
BY DEF ClientLinks, Shape, Linked

\* A request begins.
LEMMA SendShape ==
  ASSUME Shape, NEW c \in Clients, NEW p \in Threads, NEW job \in Job, Send(c, p, job),
         job.op # "login" => job.token \in DOMAIN tokens, Counted'
  PROVE  Shape'
<1>1. /\ jobs' = [jobs EXCEPT ![p] = job]
      /\ clients' = [clients EXCEPT ![c].call = p] /\ UNCHANGED <<rows, strikes>>
  BY DEF Send
<1>2. clients \in [Clients -> Client]
  BY DEF Shape, TypeOK
<1>3. [clients[c] EXCEPT !.call = p] \in Client
  BY <1>2 DEF Client
<1>4. /\ clients' \in [Clients -> Client]
      /\ \A d \in Clients : clients'[d].auth = clients[d].auth
  BY <1>1, <1>2, <1>3 DEF Client
<1>5. tokens' = tokens /\ sessions' = sessions
  BY <1>1 DEF rows
<1>6. ClientLinks'
  BY <1>4, <1>5, KeepLinks
<1>7. QED
  BY <1>1, <1>4, <1>6, JobStep

LEMMA SendLoginShape ==
  ASSUME Shape, NEW c \in Clients, NEW p \in Threads, SendLogin(c, p)
  PROVE  Shape'
<1>1. PICK u \in Users, good \in BOOLEAN :
        Send(c, p, [op |-> "login", user |-> u, good |-> good, saw |-> None])
  BY DEF SendLogin
<1> DEFINE job == [op |-> "login", user |-> u, good |-> good, saw |-> None]
<1>2. job \in Job /\ job.op = "login"
  BY DEF Job, Login
<1>3. /\ jobs' = [jobs EXCEPT ![p] = job] /\ UNCHANGED <<rows, strikes>>
  BY <1>1 DEF Send
<1>4. ~Busy(p) /\ TypeOK
  BY <1>1 DEF Send, Shape
<1>5. /\ Cardinality(Logins') <= Cardinality(Logins) + 1 /\ Cardinality(Logins') \in Nat
      /\ Cardinality(Adding') <= Cardinality(Adding) + 1 /\ Cardinality(Adding') \in Nat
  BY <1>2, <1>3, <1>4, Counts
<1>6. /\ Len(sessions) + Cardinality(Adding) < MaxSessions
      /\ Len(tokens) + Cardinality(Adding) < MaxTokens
      /\ \A v \in Users : strikes[v] + Cardinality(Logins) < MaxStrikes
  BY DEF SendLogin, Logins
<1>7. /\ sessions' = sessions /\ tokens' = tokens /\ strikes' = strikes
      /\ Len(sessions) \in Nat /\ Len(tokens) \in Nat
      /\ \A v \in Users : strikes[v] \in Nat
  BY <1>3, LenProperties, Bounds DEF rows, Shape, TypeOK
<1>8. Counted'
  <2> HIDE DEF job
  <2>1. Len(sessions) + Cardinality(Logins') <= MaxSessions
    <3>1. Len(sessions) + Cardinality(Adding) < MaxSessions /\ Cardinality(Logins) <= Cardinality(Adding)
      BY <1>6, Finite
    <3>2. QED
      BY <1>5, <1>7, <3>1, Finite, Bounds
  <2>2. Len(tokens) + Cardinality(Adding') <= MaxTokens
    <3>1. Len(tokens) + Cardinality(Adding) < MaxTokens
      BY <1>6
    <3>2. QED
      BY <1>5, <1>7, <3>1, Finite, Bounds
  <2>3. ASSUME NEW v \in Users PROVE strikes[v] + Cardinality(Logins') <= MaxStrikes
    <3>1. strikes[v] + Cardinality(Logins) < MaxStrikes /\ strikes[v] \in Nat
      BY <1>6, <1>7
    <3>2. QED
      BY <1>5, <3>1, Finite, Bounds
  <2>4. QED
    BY <1>7, <2>1, <2>2, <2>3 DEF Counted
<1>9. QED
  BY <1>1, <1>2, <1>8, SendShape

LEMMA SendRefreshShape ==
  ASSUME Shape, NEW c \in Clients, NEW p \in Threads, SendRefresh(c, p)
  PROVE  Shape'
<1> DEFINE job == [op |-> "refresh", token |-> clients[c].auth.token, held |-> FALSE]
<1>1. Send(c, p, job) /\ clients[c].auth # None
  BY DEF SendRefresh
<1>2. clients[c].auth.token \in DOMAIN tokens /\ clients[c].auth \in Auth
  BY <1>1 DEF Shape, Linked, TypeOK, Client
<1>3. job \in Job /\ job.op = "refresh" /\ job.token \in DOMAIN tokens
  BY <1>2 DEF Job, Refresh, Auth
<1>4. /\ jobs' = [jobs EXCEPT ![p] = job] /\ UNCHANGED <<rows, strikes>>
      /\ ~Busy(p) /\ TypeOK
  BY <1>1 DEF Send, Shape
<1> HIDE DEF job
<1>5. /\ Cardinality(Logins') = Cardinality(Logins)
      /\ Cardinality(Adding') <= Cardinality(Adding) + 1 /\ Cardinality(Adding') \in Nat
  <2>1. job # None
    BY <1>3, Bounds
  <2>2. QED
    BY <1>3, <1>4, <2>1, Counts
<1>6. Len(tokens) + Cardinality(Adding) < MaxTokens
  BY DEF SendRefresh
<1>7. /\ sessions' = sessions /\ tokens' = tokens /\ strikes' = strikes
      /\ Len(sessions) \in Nat /\ Len(tokens) \in Nat
  BY <1>4, LenProperties DEF rows, TypeOK
<1>8. Counted'
  BY <1>5, <1>6, <1>7, Finite, Bounds DEF Counted, Shape
<1>9. QED
  BY <1>1, <1>3, <1>8, SendShape

LEMMA SendLogoutShape ==
  ASSUME Shape, NEW c \in Clients, NEW p \in Threads, SendLogout(c, p)
  PROVE  Shape'
<1> DEFINE job == [op |-> "logout", token |-> clients[c].auth.token, held |-> FALSE,
                   saw |-> None]
<1>1. Send(c, p, job) /\ clients[c].auth # None
  BY DEF SendLogout
<1>2. clients[c].auth.token \in DOMAIN tokens /\ clients[c].auth \in Auth
  BY <1>1 DEF Shape, Linked, TypeOK, Client
<1>3. job \in Job /\ job.op = "logout" /\ job.token \in DOMAIN tokens
  <2>1. None \in {None} \cup SUBSET (1..MaxTokens) /\ clients[c].auth.token \in 1..MaxTokens
    BY <1>2 DEF Auth
  <2>2. job \in Logout
    BY <2>1 DEF Logout
  <2>3. QED
    BY <1>2, <2>2 DEF Job
<1>4. /\ jobs' = [jobs EXCEPT ![p] = job] /\ UNCHANGED <<rows, strikes>>
      /\ ~Busy(p) /\ TypeOK
  BY <1>1 DEF Send, Shape
<1> HIDE DEF job
<1>5. /\ Cardinality(Logins') = Cardinality(Logins)
      /\ Cardinality(Adding') = Cardinality(Adding)
  <2>1. job # None
    BY <1>3, Bounds
  <2>2. QED
    BY <1>3, <1>4, <2>1, Counts
<1>6. sessions' = sessions /\ tokens' = tokens /\ strikes' = strikes
  BY <1>4 DEF rows
<1>7. Counted'
  BY <1>5, <1>6 DEF Counted, Shape
<1>8. QED
  BY <1>1, <1>3, <1>7, SendShape

LEMMA GiveUpShape ==
  ASSUME Shape, NEW c \in Clients, GiveUp(c)
  PROVE  Shape'
<1> DEFINE p == clients[c].call
           new == [auth |-> IF Serves(p, "logout") THEN None ELSE clients[c].auth,
                   call |-> None, lost |-> Serves(p, "refresh"), left |-> 0]
<1>1. clients' = [clients EXCEPT ![c] = new] /\ UNCHANGED <<rows, jobs, strikes>>
  BY DEF GiveUp
<1>2. clients \in [Clients -> Client]
  BY DEF Shape, TypeOK
<1>3. Serves(p, "refresh") \in BOOLEAN
  BY DEF Serves
<1>4. new \in Client /\ new.auth \in {clients[c].auth, None}
  BY <1>2, <1>3, Bounds DEF Client
<1> HIDE DEF new
<1>5. /\ clients' \in [Clients -> Client]
      /\ \A d \in Clients : clients'[d].auth \in {clients[d].auth, None}
  BY <1>1, <1>2, <1>4
<1>6. ClientLinks'
  BY <1>1, <1>5, KeepLinks DEF rows
<1>7. TypeOK'
  BY <1>1, <1>5 DEF Shape, TypeOK, rows
<1>8. Linked'
  BY <1>1, <1>6 DEF Shape, Linked, ClientLinks, rows, Busy
<1>9. Counted'
  BY <1>1 DEF Shape, Counted, rows, Logins, Adding, Serves, Busy
<1>10. QED
  BY <1>7, <1>8, <1>9 DEF Shape

-----------------------------------------------------------------------------
(* Shape: what a thread does. *)

\* A request ends and leaves the rows alone.
LEMMA EndShape ==
  ASSUME Shape, NEW p \in Threads, Busy(p), NEW left \in 0..MaxSessions,
         End(p, None, left), UNCHANGED <<rows, strikes>>
  PROVE  Shape'
<1>1. /\ jobs' = [jobs EXCEPT ![p] = None]
      /\ clients' \in [Clients -> Client]
      /\ \A c \in Clients : clients'[c].auth \in {clients[c].auth, None}
  BY Ends
<1>2. ClientLinks'
  BY <1>1, KeepLinks DEF rows
<1>3. Counted'
  BY <1>1, GoesOn
<1>4. QED
  BY <1>1, <1>2, <1>3, JobStep

\* A request goes on and leaves the rows and its client alone.
LEMMA GoOnShape ==
  ASSUME Shape, NEW p \in Threads, Busy(p), NEW job \in Job, job.op = jobs[p].op,
         job.op # "login" => job.token \in DOMAIN tokens,
         jobs' = [jobs EXCEPT ![p] = job], UNCHANGED <<rows, clients, strikes>>
  PROVE  Shape'
<1>1. clients' \in [Clients -> Client]
  BY DEF Shape, TypeOK
<1>2. ClientLinks'
  BY DEF ClientLinks, Shape, Linked, rows
<1>3. Counted'
  BY GoesOn
<1>4. QED
  BY <1>1, <1>2, <1>3, JobStep

LEMMA AbortShape ==
  ASSUME Shape, NEW p \in Threads, Abort(p)
  PROVE  Shape'
<1>1. Busy(p) /\ UNCHANGED <<rows, strikes>> /\ 0 \in 0..MaxSessions
  BY Bounds DEF Abort
<1>2. CASE End(p, None, 0)
  BY <1>1, <1>2, EndShape
<1>3. ASSUME NEW c \in Clients, clients[c].call = p, jobs' = [jobs EXCEPT ![p] = None],
             clients' = [clients EXCEPT ![c] =
               [auth |-> IF Serves(p, "logout") THEN None ELSE @.auth, call |-> None,
                lost |-> Serves(p, "refresh"), left |-> 0]]
      PROVE  Shape'
  <2> DEFINE new == [auth |-> IF Serves(p, "logout") THEN None ELSE clients[c].auth,
                     call |-> None, lost |-> Serves(p, "refresh"), left |-> 0]
  <2>1. clients \in [Clients -> Client] /\ clients' = [clients EXCEPT ![c] = new]
    BY <1>3 DEF Shape, TypeOK
  <2>2. Serves(p, "refresh") \in BOOLEAN
    BY DEF Serves
  <2>3. new \in Client /\ new.auth \in {clients[c].auth, None}
    BY <2>1, <2>2, Bounds DEF Client
  <2> HIDE DEF new
  <2>4. /\ clients' \in [Clients -> Client]
        /\ \A d \in Clients : clients'[d].auth \in {clients[d].auth, None}
    BY <2>1, <2>3
  <2>5. ClientLinks'
    BY <1>1, <2>4, KeepLinks DEF rows
  <2>6. Counted'
    BY <1>1, <1>3, GoesOn
  <2>7. QED
    BY <1>1, <1>3, <2>4, <2>5, <2>6, JobStep
<1>4. QED
  BY <1>2, <1>3 DEF Abort

\* What a login has read is a user row.
LEMMA Reading ==
  ASSUME TypeOK, NEW p \in Threads, Serves(p, "login")
  PROVE  /\ Busy(p) /\ jobs[p] \in Login /\ jobs[p].user \in Users
         /\ jobs[p].saw # None => jobs[p].saw \in User
         /\ users[jobs[p].user] \in User
<1>1. jobs[p] \in Login /\ Busy(p)
  BY Kinds DEF Serves
<1>2. QED
  BY <1>1 DEF Login, TypeOK

LEMMA LoginReadShape ==
  ASSUME Shape, NEW p \in Threads, LoginRead(p)
  PROVE  Shape'
<1>1. /\ Serves(p, "login") /\ Busy(p) /\ jobs[p] \in Login
      /\ users[jobs[p].user] \in User /\ UNCHANGED <<rows, strikes>>
  BY Reading DEF LoginRead, Shape
<1>2. CASE users[jobs[p].user].lock = "active"
  BY <1>1, <1>2, EndShape, Bounds DEF LoginRead
<1>3. CASE users[jobs[p].user].lock # "active"
  <2> DEFINE job == [jobs[p] EXCEPT !.saw = users[jobs[p].user]]
  <2>1. jobs' = [jobs EXCEPT ![p] = job] /\ UNCHANGED clients
    BY <1>1, <1>3 DEF LoginRead, Shape, TypeOK
  <2>2. job \in Login /\ job.op = "login" /\ jobs[p].op = "login"
    BY <1>1 DEF Login
  <2> HIDE DEF job
  <2>3. job \in Job
    BY <2>2 DEF Job
  <2>4. QED
    BY <1>1, <2>1, <2>2, <2>3, GoOnShape
<1>4. QED
  BY <1>2, <1>3

\* A write of the columns that changed leaves a user row.
LEMMA EmitUser ==
  ASSUME NEW row \in User, NEW loaded \in User, NEW new \in User
  PROVE  LET r == Emit(row, loaded, new) IN
         /\ r \in User
         /\ r.lock = (IF new.lock # loaded.lock THEN new.lock ELSE row.lock)
         /\ r.failed = (IF new.failed # loaded.failed THEN new.failed ELSE row.failed)
<1>1. DOMAIN row = {"enabled", "failed", "lock"}
  BY DEF User
<1> DEFINE r == Emit(row, loaded, new)
<1>2. r = [enabled |-> IF new.enabled # loaded.enabled THEN new.enabled ELSE row.enabled,
           failed |-> IF new.failed # loaded.failed THEN new.failed ELSE row.failed,
           lock |-> IF new.lock # loaded.lock THEN new.lock ELSE row.lock]
  BY <1>1 DEF Emit
<1> HIDE DEF r
<1>3. QED
  BY <1>2 DEF User, r

LEMMA FailedUser ==
  ASSUME NEW row \in User
  PROVE  /\ Failed(row) \in User
         /\ Failed(row).lock # "none" => row.failed + 1 >= LockAfter \/ Failed(row).lock = row.lock
         /\ Failed(row).failed <= row.failed + 1
<1>1. /\ row.failed \in Nat /\ row.failed <= LockAfter - 1
      /\ row.enabled \in BOOLEAN /\ row.lock \in {"none", "active", "past"}
      /\ row = [enabled |-> row.enabled, failed |-> row.failed, lock |-> row.lock]
  BY Bounds DEF User
<1>2. CASE row.failed + 1 >= LockAfter
  <2>1. Failed(row) = [enabled |-> row.enabled, failed |-> 0, lock |-> "active"]
    BY <1>1, <1>2 DEF Failed
  <2>2. QED
    BY <1>1, <1>2, <2>1, Bounds DEF User
<1>3. CASE ~(row.failed + 1 >= LockAfter)
  <2>1. Failed(row) = [enabled |-> row.enabled, failed |-> row.failed + 1, lock |-> row.lock]
    BY <1>1, <1>3 DEF Failed
  <2>2. QED
    BY <1>1, <1>3, <2>1, Bounds DEF User
<1>4. QED
  BY <1>2, <1>3

LEMMA LoginFailShape ==
  ASSUME Shape, NEW p \in Threads, LoginFail(p)
  PROVE  Shape'
<1> DEFINE u == jobs[p].user
<1>1. /\ Serves(p, "login") /\ Busy(p) /\ u \in Users /\ jobs[p].saw \in User
      /\ users[u] \in User /\ TypeOK
  BY Reading DEF LoginFail, Shape
<1>2. /\ users' = [users EXCEPT ![u] = Emit(@, jobs[p].saw, Failed(jobs[p].saw))]
      /\ strikes' = [strikes EXCEPT ![u] = @ + 1]
      /\ End(p, None, 0) /\ sessions' = sessions /\ tokens' = tokens
  BY DEF LoginFail
<1> HIDE DEF u
<1>3. users' \in [Users -> User]
  BY <1>1, <1>2, EmitUser, FailedUser DEF TypeOK
<1>4. /\ jobs' = [jobs EXCEPT ![p] = None]
      /\ clients' \in [Clients -> Client]
      /\ \A c \in Clients : clients'[c].auth \in {clients[c].auth, None}
  BY <1>2, Ends, Bounds
<1>5. /\ Cardinality(Logins') = Cardinality(Logins) - 1 /\ Cardinality(Logins') \in Nat
      /\ Cardinality(Adding') <= Cardinality(Adding) /\ Cardinality(Adding') \in Nat
  BY <1>1, <1>4, Counts
<1>6. /\ Len(sessions) \in Nat /\ Len(tokens) \in Nat /\ \A v \in Users : strikes[v] \in Nat
      /\ \A v \in Users : strikes'[v] <= strikes[v] + 1 /\ strikes'[v] \in Nat
  BY <1>1, <1>2, LenProperties, Bounds DEF TypeOK
<1>7. Counted'
  <2> HIDE DEF Logins, Adding
  <2>1. /\ Len(sessions) + Cardinality(Logins) <= MaxSessions
        /\ Len(tokens) + Cardinality(Adding) <= MaxTokens
        /\ \A v \in Users : strikes[v] + Cardinality(Logins) <= MaxStrikes
    BY DEF Counted, Shape
  <2>2. ASSUME NEW v \in Users PROVE strikes'[v] + Cardinality(Logins') <= MaxStrikes
    <3>1. strikes[v] + Cardinality(Logins) <= MaxStrikes
      BY <2>1
    <3>2. strikes'[v] \in Nat /\ strikes[v] \in Nat /\ strikes'[v] <= strikes[v] + 1
      BY <1>6
    <3>3. QED
      BY <1>5, <3>1, <3>2, Finite, Bounds
  <2>3. /\ Len(sessions') + Cardinality(Logins') <= MaxSessions
        /\ Len(tokens') + Cardinality(Adding') <= MaxTokens
    BY <1>2, <1>5, <1>6, <2>1, Finite, Bounds
  <2>4. QED
    BY <2>2, <2>3 DEF Counted
<1>8. strikes' \in [Users -> 0..MaxStrikes]
  <2> HIDE DEF Logins, Adding
  <2>1. \A v \in Users : strikes'[v] \in 0..MaxStrikes
    BY <1>5, <1>6, <1>7, Bounds DEF Counted
  <2>2. DOMAIN strikes' = Users /\ strikes' = [v \in Users |-> strikes'[v]]
    BY <1>1, <1>2 DEF TypeOK
  <2>3. QED
    BY <2>1, <2>2
<1>9. TypeOK'
  BY <1>1, <1>2, <1>3, <1>4, <1>8 DEF TypeOK
<1>10. Linked'
  <2>1. ClientLinks'
    BY <1>2, <1>4, KeepLinks
  <2>2. QED
    BY <1>2, <1>4, <2>1 DEF Shape, TypeOK, Linked, ClientLinks, Busy
<1>11. QED
  BY <1>7, <1>9, <1>10 DEF Shape

-----------------------------------------------------------------------------
(* The rows that the commits leave. *)

\* A login appends a session and its first token.
LEMMA LoginRows ==
  ASSUME Shape, NEW p \in Threads, LoginCommit(p)
  PROVE  /\ sessions' \in Seq(Session) /\ Len(sessions') = Len(sessions) + 1
         /\ \A s \in DOMAIN sessions : s \in DOMAIN sessions' /\ sessions'[s] = sessions[s]
         /\ sessions'[Len(sessions) + 1].revoked = FALSE
         /\ tokens' \in Seq(Token) /\ Len(tokens') = Len(tokens) + 1
         /\ \A t \in DOMAIN tokens : t \in DOMAIN tokens' /\ tokens'[t] = tokens[t]
         /\ tokens'[Len(tokens) + 1].session = Len(sessions) + 1
         /\ tokens'[Len(tokens) + 1].revoked = FALSE
         /\ Len(sessions) + 1 \in DOMAIN sessions' /\ Len(tokens) + 1 \in DOMAIN tokens'
         /\ Len(sessions) + 1 \in 1..MaxSessions /\ Len(tokens) + 1 \in 1..MaxTokens
<1> DEFINE row == [user |-> jobs[p].user, revoked |-> FALSE, lapsed |-> FALSE]
           key == [session |-> Len(sessions) + 1, revoked |-> FALSE, next |-> 0]
<1>1. Serves(p, "login") /\ Busy(p) /\ jobs[p].user \in Users /\ TypeOK
  BY Reading DEF LoginCommit, Shape
<1>2. p \in Logins /\ p \in Adding
  BY <1>1 DEF Logins, Adding, Serves
<1>3. Cardinality(Logins) # 0 /\ Cardinality(Adding) # 0
  BY <1>2, Finite, FS_EmptySet
<1>4. /\ sessions \in Seq(Session) /\ Len(sessions) \in Nat /\ DOMAIN sessions = 1..Len(sessions)
      /\ tokens \in Seq(Token) /\ Len(tokens) \in Nat /\ DOMAIN tokens = 1..Len(tokens)
  BY <1>1, LenProperties DEF TypeOK
<1>5. Len(sessions) + 1 \in 1..MaxSessions /\ Len(tokens) + 1 \in 1..MaxTokens
  <2> HIDE DEF Logins, Adding
  <2>1. QED
    BY <1>3, <1>4, Finite, Bounds DEF Counted, Shape
<1>6. sessions' = Append(sessions, row) /\ tokens' = Append(tokens, key)
  BY DEF LoginCommit
<1>7. row \in Session /\ key \in Token
  BY <1>1, <1>5, Bounds DEF Session, Token
<1>8. row.revoked = FALSE
  OBVIOUS
<1>9. key.session = Len(sessions) + 1 /\ key.revoked = FALSE
  OBVIOUS
<1> HIDE DEF row, key
<1>10. /\ sessions' \in Seq(Session) /\ Len(sessions') = Len(sessions) + 1
       /\ \A s \in 1..Len(sessions) : sessions'[s] = sessions[s]
       /\ sessions'[Len(sessions) + 1] = row
  BY <1>4, <1>6, <1>7, AppendProperties
<1>11. /\ tokens' \in Seq(Token) /\ Len(tokens') = Len(tokens) + 1
       /\ \A t \in 1..Len(tokens) : tokens'[t] = tokens[t]
       /\ tokens'[Len(tokens) + 1] = key
  BY <1>4, <1>6, <1>7, AppendProperties
<1>12. /\ DOMAIN sessions' = 1..Len(sessions') /\ DOMAIN tokens' = 1..Len(tokens')
  BY <1>10, <1>11, LenProperties
<1>13. QED
  BY <1>4, <1>5, <1>8, <1>9, <1>10, <1>11, <1>12

\* The token that was exchanged for token n.
LEMMA RotatedToken ==
  ASSUME NEW row \in Token, NEW n \in 0..MaxTokens
  PROVE  /\ [row EXCEPT !.revoked = TRUE, !.next = n] \in Token
         /\ [row EXCEPT !.revoked = TRUE, !.next = n].session = row.session
         /\ [row EXCEPT !.revoked = TRUE, !.next = n].revoked = TRUE
<1> DEFINE mid == [row EXCEPT !.revoked = TRUE]
<1>1. [row EXCEPT !.revoked = TRUE, !.next = n] = [mid EXCEPT !.next = n]
  OBVIOUS
<1>2. mid \in Token /\ mid.session = row.session /\ mid.revoked = TRUE
  BY DEF Token
<1> HIDE DEF mid
<1>3. /\ [mid EXCEPT !.next = n] \in Token
      /\ [mid EXCEPT !.next = n].session = mid.session
      /\ [mid EXCEPT !.next = n].revoked = mid.revoked
  BY <1>2 DEF Token
<1>4. QED
  BY <1>1, <1>2, <1>3

\* A refresh revokes its token, appends its successor and renews the session.
LEMMA RefreshRows ==
  ASSUME Shape, NEW p \in Threads, RefreshCommit(p), NEW t, t = jobs[p].token
  PROVE  /\ t \in DOMAIN tokens /\ tokens[t].session \in DOMAIN sessions
         /\ sessions' \in Seq(Session) /\ Len(sessions') = Len(sessions)
         /\ DOMAIN sessions' = DOMAIN sessions
         /\ \A s \in DOMAIN sessions : sessions'[s].revoked = sessions[s].revoked
         /\ tokens' \in Seq(Token) /\ Len(tokens') = Len(tokens) + 1
         /\ \A k \in DOMAIN tokens :
              /\ k \in DOMAIN tokens' /\ tokens'[k].session = tokens[k].session
              /\ tokens'[k].revoked = (tokens[k].revoked \/ k = t)
         /\ tokens'[Len(tokens) + 1].session = tokens[t].session
         /\ tokens'[Len(tokens) + 1].revoked = FALSE
         /\ Len(tokens) + 1 \in DOMAIN tokens' /\ Len(tokens) + 1 \in 1..MaxTokens
<1>1. Serves(p, "refresh") /\ Busy(p) /\ TypeOK /\ jobs[p] \in Refresh
  BY Kinds DEF RefreshCommit, Shape, Serves
<1>2. p \in Adding
  BY <1>1 DEF Adding, Serves
<1>3. Cardinality(Adding) # 0
  BY <1>2, Finite, FS_EmptySet
<1>4. /\ sessions \in Seq(Session) /\ Len(sessions) \in Nat /\ DOMAIN sessions = 1..Len(sessions)
      /\ tokens \in Seq(Token) /\ Len(tokens) \in Nat /\ DOMAIN tokens = 1..Len(tokens)
  BY <1>1, LenProperties DEF TypeOK
<1>5. Len(tokens) + 1 \in 1..MaxTokens
  <2> HIDE DEF Logins, Adding
  <2>1. QED
    BY <1>3, <1>4, Finite, Bounds DEF Counted, Shape
<1>6. t \in 1..Len(tokens) /\ tokens[t].session \in 1..Len(sessions)
  BY <1>1, <1>4 DEF Shape, Linked, Serves
<1> DEFINE s == tokens[t].session
           old == [tokens[t] EXCEPT !.revoked = TRUE, !.next = Len(tokens) + 1]
           new == [session |-> s, revoked |-> FALSE, next |-> 0]
           row == [sessions[s] EXCEPT !.lapsed = FALSE]
           marked == [tokens EXCEPT ![t] = old]
<1>7. sessions' = [sessions EXCEPT ![s] = row] /\ tokens' = Append(marked, new)
  BY <1>4, <1>6 DEF RefreshCommit, Rotated
<1>8. tokens[t] \in Token /\ sessions[s] \in Session
  BY <1>4, <1>6, ElementOfSeq
<1>9. /\ old \in Token /\ old.session = tokens[t].session /\ old.revoked = TRUE
  <2>1. Len(tokens) + 1 \in 0..MaxTokens
    BY <1>4, <1>5, Bounds
  <2>2. QED
    BY <1>8, <2>1, RotatedToken
<1>10. new \in Token /\ new.session = tokens[t].session /\ new.revoked = FALSE
  BY <1>8, Bounds DEF Token
<1>11. row \in Session /\ row.revoked = sessions[s].revoked
  BY <1>8 DEF Session
<1> HIDE DEF old, new, row
<1>12. /\ sessions' \in Seq(Session) /\ Len(sessions') = Len(sessions)
       /\ \A k \in 1..Len(sessions) : sessions'[k] = IF k = s THEN row ELSE sessions[k]
  BY <1>4, <1>6, <1>7, <1>11, ExceptSeq
<1>13. /\ marked \in Seq(Token) /\ Len(marked) = Len(tokens)
       /\ \A k \in 1..Len(tokens) : marked[k] = IF k = t THEN old ELSE tokens[k]
  BY <1>4, <1>6, <1>9, ExceptSeq
<1> HIDE DEF marked
<1>14. /\ tokens' \in Seq(Token) /\ Len(tokens') = Len(tokens) + 1
       /\ \A k \in 1..Len(tokens) : tokens'[k] = marked[k]
       /\ tokens'[Len(tokens) + 1] = new
  <2>1. /\ Append(marked, new) \in Seq(Token)
        /\ Len(Append(marked, new)) = Len(marked) + 1
        /\ \A k \in 1..Len(marked) : Append(marked, new)[k] = marked[k]
        /\ Append(marked, new)[Len(marked) + 1] = new
    BY <1>10, <1>13, AppendProperties
  <2>2. QED
    BY <1>7, <1>13, <2>1
<1>15. /\ DOMAIN sessions' = 1..Len(sessions') /\ DOMAIN tokens' = 1..Len(tokens')
  BY <1>12, <1>14, LenProperties
<1>16. ASSUME NEW k \in 1..Len(tokens) PROVE tokens[k].revoked \in BOOLEAN
  <2>1. tokens[k] \in Token
    BY <1>4, ElementOfSeq
  <2>2. QED
    BY <2>1 DEF Token
<1>17. \A k \in 1..Len(tokens) :
         /\ tokens'[k].session = tokens[k].session
         /\ tokens'[k].revoked = (tokens[k].revoked \/ k = t)
  BY <1>9, <1>13, <1>14, <1>16
<1>18. \A k \in 1..Len(sessions) : sessions'[k].revoked = sessions[k].revoked
  BY <1>11, <1>12
<1>19. QED
  BY <1>4, <1>5, <1>6, <1>10, <1>12, <1>14, <1>15, <1>17, <1>18

\* A logout revokes its token, those it has seen and the session.
LEMMA LogoutRows ==
  ASSUME Shape, NEW p \in Threads, LogoutCommit(p), NEW t, t = jobs[p].token
  PROVE  /\ t \in DOMAIN tokens /\ tokens[t].session \in DOMAIN sessions
         /\ sessions' \in Seq(Session) /\ Len(sessions') = Len(sessions)
         /\ DOMAIN sessions' = DOMAIN sessions
         /\ \A s \in DOMAIN sessions :
              sessions'[s].revoked = (sessions[s].revoked \/ s = tokens[t].session)
         /\ tokens' \in Seq(Token) /\ Len(tokens') = Len(tokens)
         /\ DOMAIN tokens' = DOMAIN tokens
         /\ \A k \in DOMAIN tokens :
              /\ tokens'[k].session = tokens[k].session
              /\ tokens'[k].revoked = (tokens[k].revoked \/ k \in jobs[p].saw \/ k = t)
<1>1. Serves(p, "logout") /\ Busy(p) /\ TypeOK
  BY DEF LogoutCommit, Shape, Serves
<1>2. /\ sessions \in Seq(Session) /\ Len(sessions) \in Nat /\ DOMAIN sessions = 1..Len(sessions)
      /\ tokens \in Seq(Token) /\ Len(tokens) \in Nat /\ DOMAIN tokens = 1..Len(tokens)
  BY <1>1, LenProperties DEF TypeOK
<1>3. t \in 1..Len(tokens) /\ tokens[t].session \in 1..Len(sessions)
  BY <1>1, <1>2 DEF Shape, Linked, Serves
<1> DEFINE s == tokens[t].session
           row == [sessions[s] EXCEPT !.revoked = TRUE]
           gone(k) == k \in jobs[p].saw \cup {t}
<1>4. /\ sessions' = [sessions EXCEPT ![s] = row]
      /\ tokens' = [k \in DOMAIN tokens |-> [tokens[k] EXCEPT !.revoked = @ \/ gone(k)]]
  BY <1>2, <1>3 DEF LogoutCommit
<1>5. sessions[s] \in Session /\ \A k \in 1..Len(tokens) : tokens[k] \in Token
  BY <1>2, <1>3, ElementOfSeq
<1>6. row \in Session /\ row.revoked = TRUE
  BY <1>5 DEF Session
<1>7. ASSUME NEW k \in 1..Len(sessions) PROVE sessions[k].revoked \in BOOLEAN
  <2>1. sessions[k] \in Session
    BY <1>2, ElementOfSeq
  <2>2. QED
    BY <2>1 DEF Session
<1> HIDE DEF row
<1>8. /\ sessions' \in Seq(Session) /\ Len(sessions') = Len(sessions)
      /\ \A k \in 1..Len(sessions) : sessions'[k] = IF k = s THEN row ELSE sessions[k]
  BY <1>2, <1>3, <1>4, <1>6, ExceptSeq
<1>9. ASSUME NEW k \in 1..Len(tokens)
      PROVE  /\ tokens'[k] \in Token
             /\ tokens'[k].session = tokens[k].session
             /\ tokens'[k].revoked = (tokens[k].revoked \/ k \in jobs[p].saw \/ k = t)
  BY <1>2, <1>4, <1>5 DEF Token
<1>10. tokens' \in [1..Len(tokens) -> Token]
  BY <1>2, <1>4, <1>9
<1>11. tokens' \in Seq(Token) /\ Len(tokens') = Len(tokens)
  BY <1>2, <1>10
<1>12. DOMAIN sessions' = 1..Len(sessions') /\ DOMAIN tokens' = 1..Len(tokens')
  BY <1>8, <1>11, LenProperties
<1>13. QED
  BY <1>2, <1>3, <1>6, <1>7, <1>8, <1>9, <1>11, <1>12

-----------------------------------------------------------------------------
(* Shape: the locks and the commits. *)

\* A commit of thread p that keeps every row and adds at most one token.
LEMMA CommitShape ==
  ASSUME Shape, NEW p \in Threads, Busy(p), jobs[p].op = "logout" => Len(tokens') = Len(tokens),
         NEW auth \in Auth \cup {None}, NEW left \in 0..MaxSessions, End(p, auth, left),
         auth # None => auth.token \in DOMAIN tokens' /\ auth.session \in DOMAIN sessions',
         strikes' = strikes, users' \in [Users -> User],
         sessions' \in Seq(Session), tokens' \in Seq(Token),
         Len(sessions') = Len(sessions) \/ (Serves(p, "login") /\ Len(sessions') = Len(sessions) + 1),
         Len(tokens') \in {Len(tokens), Len(tokens) + 1},
         \A s \in DOMAIN sessions : s \in DOMAIN sessions',
         \A t \in DOMAIN tokens : t \in DOMAIN tokens',
         \A t \in DOMAIN tokens' : tokens'[t].session \in DOMAIN sessions'
  PROVE  Shape'
<1>1. /\ jobs' = [jobs EXCEPT ![p] = None]
      /\ clients' \in [Clients -> Client]
      /\ \A c \in Clients : clients'[c].auth \in {clients[c].auth, auth}
  BY Ends
<1>2. TypeOK
  BY DEF Shape
<1>3. /\ Cardinality(Logins') \in Nat /\ Cardinality(Adding') \in Nat
      /\ Cardinality(Logins') <= Cardinality(Logins) /\ Cardinality(Adding') <= Cardinality(Adding)
      /\ Serves(p, "login") => Cardinality(Logins') = Cardinality(Logins) - 1
      /\ jobs[p].op # "logout" => Cardinality(Adding') = Cardinality(Adding) - 1
  BY <1>1, <1>2, Counts
<1>4. /\ Len(sessions) \in Nat /\ Len(tokens) \in Nat /\ \A v \in Users : strikes[v] \in Nat
  BY <1>2, LenProperties, Bounds DEF TypeOK
<1>5. Counted'
  <2> HIDE DEF Logins, Adding
  <2>1. /\ Len(sessions) + Cardinality(Logins) <= MaxSessions
        /\ Len(tokens) + Cardinality(Adding) <= MaxTokens
        /\ \A v \in Users : strikes[v] + Cardinality(Logins) <= MaxStrikes
    BY DEF Counted, Shape
  <2>2. ASSUME NEW v \in Users PROVE strikes'[v] + Cardinality(Logins') <= MaxStrikes
    <3>1. strikes[v] + Cardinality(Logins) <= MaxStrikes /\ strikes[v] \in Nat
      BY <1>4, <2>1
    <3>2. QED
      BY <1>3, <3>1, Finite, Bounds
  <2>3. Len(sessions') + Cardinality(Logins') <= MaxSessions
    <3>1. CASE Len(sessions') = Len(sessions)
      BY <1>3, <1>4, <2>1, <3>1, Finite, Bounds
    <3>2. CASE Serves(p, "login") /\ Len(sessions') = Len(sessions) + 1
      BY <1>3, <1>4, <2>1, <3>2, Finite, Bounds
    <3>3. QED
      BY <3>1, <3>2
  <2>4. Len(tokens') + Cardinality(Adding') <= MaxTokens
    <3>1. CASE Len(tokens') = Len(tokens)
      BY <1>3, <1>4, <2>1, <3>1, Finite, Bounds
    <3>2. CASE jobs[p].op # "logout" /\ Len(tokens') = Len(tokens) + 1
      BY <1>3, <1>4, <2>1, <3>2, Finite, Bounds
    <3>3. Len(tokens') \in {Len(tokens), Len(tokens) + 1}
      OBVIOUS
    <3>4. CASE jobs[p].op = "logout"
      BY <3>1, <3>4
    <3>5. QED
      BY <3>1, <3>2, <3>3, <3>4
  <2>5. QED
    BY <2>2, <2>3, <2>4 DEF Counted
<1>6. Len(sessions') <= MaxSessions /\ Len(tokens') <= MaxTokens
  <2> HIDE DEF Logins, Adding
  <2>1. Len(sessions') \in Nat /\ Len(tokens') \in Nat
    BY LenProperties
  <2>2. QED
    BY <1>3, <1>5, <2>1, Bounds DEF Counted
<1>7. jobs' \in [Threads -> Login \cup Refresh \cup Logout \cup {None}]
  BY <1>1, <1>2 DEF TypeOK
<1>8. TypeOK'
  BY <1>1, <1>2, <1>6, <1>7 DEF TypeOK
<1>9. ClientLinks'
  BY <1>1, KeepLinks
<1>10. \A q \in Threads : Busy(q)' /\ jobs'[q].op # "login" => jobs'[q].token \in DOMAIN tokens'
  BY <1>1, <1>2 DEF TypeOK, Shape, Linked, Busy
<1>11. Linked'
  BY <1>9, <1>10 DEF Linked, ClientLinks
<1>12. QED
  BY <1>5, <1>8, <1>11 DEF Shape

\* The user row after a good login.
LEMMA ClearedUser ==
  ASSUME NEW row \in User
  PROVE  [row EXCEPT !.failed = 0, !.lock = "none"] \in User
<1> DEFINE mid == [row EXCEPT !.failed = 0]
<1>1. [row EXCEPT !.failed = 0, !.lock = "none"] = [mid EXCEPT !.lock = "none"]
  OBVIOUS
<1>2. mid \in User
  BY Bounds DEF User
<1> HIDE DEF mid
<1>3. [mid EXCEPT !.lock = "none"] \in User
  BY <1>2 DEF User
<1>4. QED
  BY <1>1, <1>3

LEMMA LoginCommitShape ==
  ASSUME Shape, NEW p \in Threads, LoginCommit(p)
  PROVE  Shape'
<1> DEFINE u == jobs[p].user
           new == [session |-> Len(sessions) + 1, jwt |-> TRUE, token |-> Len(tokens) + 1]
           auth == IF users[u].enabled THEN new ELSE None
           cleared == [jobs[p].saw EXCEPT !.failed = 0, !.lock = "none"]
<1>1. /\ Serves(p, "login") /\ Busy(p) /\ u \in Users /\ jobs[p].saw \in User
      /\ users[u] \in User /\ TypeOK /\ jobs[p].op = "login"
  BY Reading DEF LoginCommit, Shape, Serves
<1>2. /\ users' = [users EXCEPT ![u] = Emit(@, jobs[p].saw, cleared)]
      /\ End(p, auth, 0) /\ strikes' = strikes
  BY DEF LoginCommit
<1>3. cleared \in User
  BY <1>1, ClearedUser
<1> HIDE DEF u, cleared
<1>4. users' \in [Users -> User]
  BY <1>1, <1>2, <1>3, EmitUser DEF TypeOK
<1>5. /\ Len(sessions) + 1 \in 1..MaxSessions /\ Len(tokens) + 1 \in 1..MaxTokens
      /\ Len(sessions) + 1 \in DOMAIN sessions' /\ Len(tokens) + 1 \in DOMAIN tokens'
  BY LoginRows
<1>6. /\ auth \in Auth \cup {None}
      /\ auth # None => auth.token \in DOMAIN tokens' /\ auth.session \in DOMAIN sessions'
  BY <1>5 DEF Auth
<1> HIDE DEF auth
<1>7. /\ sessions' \in Seq(Session) /\ Len(sessions') = Len(sessions) + 1
      /\ \A s \in DOMAIN sessions : s \in DOMAIN sessions'
      /\ tokens' \in Seq(Token) /\ Len(tokens') = Len(tokens) + 1
      /\ \A t \in DOMAIN tokens : t \in DOMAIN tokens' /\ tokens'[t] = tokens[t]
      /\ tokens'[Len(tokens) + 1].session = Len(sessions) + 1
  BY LoginRows
<1>8. ASSUME NEW t \in DOMAIN tokens'
      PROVE  tokens'[t].session \in DOMAIN sessions'
  <2>1. t \in DOMAIN tokens \/ t = Len(tokens) + 1
    <3>1. DOMAIN tokens' = 1..Len(tokens) + 1 /\ DOMAIN tokens = 1..Len(tokens) /\ Len(tokens) \in Nat
      BY <1>1, <1>7, LenProperties DEF TypeOK
    <3>2. QED
      BY <3>1
  <2>2. QED
    BY <1>5, <1>7, <2>1 DEF Shape, Linked
<1>9. 0 \in 0..MaxSessions
  BY Bounds
<1>10. QED
  BY <1>1, <1>2, <1>4, <1>6, <1>7, <1>8, <1>9, CommitShape

LEMMA RefreshLockShape ==
  ASSUME Shape, NEW p \in Threads, RefreshLock(p)
  PROVE  Shape'
<1>1. /\ Serves(p, "refresh") /\ Busy(p) /\ TypeOK /\ jobs[p] \in Refresh
      /\ UNCHANGED <<rows, strikes>> /\ jobs[p].op = "refresh"
  BY Kinds DEF RefreshLock, Shape, Serves
<1>2. CASE End(p, None, 0)
  BY <1>1, <1>2, EndShape, Bounds
<1>3. CASE jobs' = [jobs EXCEPT ![p].held = TRUE] /\ UNCHANGED clients
  <2> DEFINE job == [jobs[p] EXCEPT !.held = TRUE]
  <2>1. jobs' = [jobs EXCEPT ![p] = job] /\ UNCHANGED clients
    BY <1>1, <1>3 DEF TypeOK
  <2>2. job \in Refresh /\ job.op = "refresh" /\ job.token = jobs[p].token
    BY <1>1 DEF Refresh
  <2> HIDE DEF job
  <2>3. job \in Job /\ jobs[p].token \in DOMAIN tokens
    BY <1>1, <2>2 DEF Job, Shape, Linked
  <2>4. QED
    BY <1>1, <2>1, <2>2, <2>3, GoOnShape
<1>4. QED
  BY <1>2, <1>3 DEF RefreshLock

LEMMA RefreshCommitShape ==
  ASSUME Shape, NEW p \in Threads, RefreshCommit(p)
  PROVE  Shape'
<1> DEFINE t == jobs[p].token
           s == tokens[t].session
           new == [session |-> s, jwt |-> TRUE, token |-> Len(tokens) + 1]
           auth == IF users[sessions[s].user].enabled THEN new ELSE None
<1>1. /\ Serves(p, "refresh") /\ Busy(p) /\ TypeOK /\ jobs[p].op = "refresh"
  BY DEF RefreshCommit, Shape, Serves
<1>2. users' = users /\ strikes' = strikes /\ End(p, auth, 0)
  BY DEF RefreshCommit
<1>3. /\ t \in DOMAIN tokens /\ s \in DOMAIN sessions
      /\ sessions' \in Seq(Session) /\ Len(sessions') = Len(sessions)
      /\ DOMAIN sessions' = DOMAIN sessions
      /\ tokens' \in Seq(Token) /\ Len(tokens') = Len(tokens) + 1
      /\ \A k \in DOMAIN tokens : k \in DOMAIN tokens' /\ tokens'[k].session = tokens[k].session
      /\ tokens'[Len(tokens) + 1].session = s
      /\ Len(tokens) + 1 \in DOMAIN tokens' /\ Len(tokens) + 1 \in 1..MaxTokens
  BY RefreshRows
<1>4. s \in 1..MaxSessions
  BY <1>1, <1>3, LenProperties, Bounds DEF TypeOK
<1>5. /\ auth \in Auth \cup {None}
      /\ auth # None => auth.token \in DOMAIN tokens' /\ auth.session \in DOMAIN sessions'
  BY <1>3, <1>4 DEF Auth
<1> HIDE DEF auth, s, t
<1>6. ASSUME NEW k \in DOMAIN tokens'
      PROVE  tokens'[k].session \in DOMAIN sessions'
  <2>1. k \in DOMAIN tokens \/ k = Len(tokens) + 1
    <3>1. DOMAIN tokens' = 1..Len(tokens) + 1 /\ DOMAIN tokens = 1..Len(tokens) /\ Len(tokens) \in Nat
      BY <1>1, <1>3, LenProperties DEF TypeOK
    <3>2. QED
      BY <3>1
  <2>2. QED
    BY <1>3, <2>1 DEF Shape, Linked
<1>7. 0 \in 0..MaxSessions /\ users' \in [Users -> User]
  BY <1>1, <1>2, Bounds DEF TypeOK
<1>8. /\ Len(tokens') \in {Len(tokens), Len(tokens) + 1} /\ jobs[p].op # "logout"
      /\ \A k \in DOMAIN sessions : k \in DOMAIN sessions'
      /\ \A k \in DOMAIN tokens : k \in DOMAIN tokens'
  BY <1>1, <1>3
<1>9. QED
  BY <1>1, <1>2, <1>3, <1>5, <1>6, <1>7, <1>8, CommitShape, Zenon

\* What a logout has read.
LEMMA LoggingOut ==
  ASSUME Shape, NEW p \in Threads, Serves(p, "logout")
  PROVE  /\ Busy(p) /\ TypeOK /\ jobs[p] \in Logout /\ jobs[p].op = "logout"
         /\ jobs[p].token \in DOMAIN tokens
         /\ tokens[jobs[p].token].session \in 0..MaxSessions
         /\ tokens[jobs[p].token].session \in DOMAIN sessions
<1>1. Busy(p) /\ TypeOK /\ jobs[p] \in Logout /\ jobs[p].op = "logout"
  BY Kinds DEF Shape, Serves
<1>2. jobs[p].token \in DOMAIN tokens /\ tokens[jobs[p].token].session \in DOMAIN sessions
  BY <1>1 DEF Shape, Linked
<1>3. DOMAIN sessions = 1..Len(sessions) /\ Len(sessions) \in Nat /\ Len(sessions) <= MaxSessions
  BY <1>1, LenProperties DEF TypeOK
<1>4. QED
  BY <1>1, <1>2, <1>3, Bounds

LEMMA LogoutLockShape ==
  ASSUME Shape, NEW p \in Threads, LogoutLock(p)
  PROVE  Shape'
<1>1. /\ Serves(p, "logout") /\ UNCHANGED <<rows, strikes>>
  BY DEF LogoutLock
<1>2. /\ Busy(p) /\ TypeOK /\ jobs[p] \in Logout /\ jobs[p].op = "logout"
      /\ jobs[p].token \in DOMAIN tokens
      /\ tokens[jobs[p].token].session \in 0..MaxSessions
  BY <1>1, LoggingOut
<1>3. CASE End(p, None, tokens[jobs[p].token].session)
  BY <1>1, <1>2, <1>3, EndShape
<1>4. CASE jobs' = [jobs EXCEPT ![p].held = TRUE] /\ UNCHANGED clients
  <2> DEFINE job == [jobs[p] EXCEPT !.held = TRUE]
  <2>1. jobs' = [jobs EXCEPT ![p] = job] /\ UNCHANGED clients
    BY <1>2, <1>4 DEF TypeOK
  <2>2. job \in Logout /\ job.op = "logout" /\ job.token = jobs[p].token
    BY <1>2 DEF Logout
  <2> HIDE DEF job
  <2>3. job \in Job
    BY <2>2 DEF Job
  <2>4. QED
    BY <1>1, <1>2, <2>1, <2>2, <2>3, GoOnShape
<1>5. QED
  BY <1>3, <1>4 DEF LogoutLock

LEMMA LogoutReadShape ==
  ASSUME Shape, NEW p \in Threads, LogoutRead(p)
  PROVE  Shape'
<1> DEFINE seen == {t \in TokensOf(tokens[jobs[p].token].session) : Live(t)}
           job == [jobs[p] EXCEPT !.saw = seen]
<1>1. /\ Serves(p, "logout") /\ UNCHANGED <<rows, clients, strikes>>
      /\ jobs' = [jobs EXCEPT ![p].saw = seen]
  BY DEF LogoutRead
<1>2. /\ Busy(p) /\ TypeOK /\ jobs[p] \in Logout /\ jobs[p].op = "logout"
      /\ jobs[p].token \in DOMAIN tokens
  BY <1>1, LoggingOut
<1>3. jobs' = [jobs EXCEPT ![p] = job]
  BY <1>1, <1>2 DEF TypeOK
<1>4. DOMAIN tokens \subseteq 1..MaxTokens
  BY <1>2, LenProperties, Bounds DEF TypeOK
<1>5. seen \in SUBSET (1..MaxTokens)
  BY <1>4 DEF TokensOf
<1> HIDE DEF seen
<1>6. job \in Logout /\ job.op = "logout" /\ job.token = jobs[p].token
  BY <1>2, <1>5 DEF Logout
<1> HIDE DEF job
<1>7. job \in Job
  BY <1>6 DEF Job
<1>8. QED
  BY <1>1, <1>2, <1>3, <1>6, <1>7, GoOnShape

LEMMA LogoutCommitShape ==
  ASSUME Shape, NEW p \in Threads, LogoutCommit(p)
  PROVE  Shape'
<1> DEFINE s == tokens[jobs[p].token].session
<1>1. Serves(p, "logout") /\ users' = users /\ strikes' = strikes /\ End(p, None, s)
  BY DEF LogoutCommit
<1>2. /\ Busy(p) /\ TypeOK /\ jobs[p].op = "logout" /\ s \in 0..MaxSessions
  BY <1>1, LoggingOut
<1> HIDE DEF s
<1>3. /\ sessions' \in Seq(Session) /\ Len(sessions') = Len(sessions)
      /\ DOMAIN sessions' = DOMAIN sessions
      /\ tokens' \in Seq(Token) /\ Len(tokens') = Len(tokens)
      /\ DOMAIN tokens' = DOMAIN tokens
      /\ \A k \in DOMAIN tokens : tokens'[k].session = tokens[k].session
  BY LogoutRows
<1>4. ASSUME NEW k \in DOMAIN tokens' PROVE tokens'[k].session \in DOMAIN sessions'
  BY <1>3 DEF Shape, Linked
<1>5. users' \in [Users -> User]
  BY <1>1, <1>2 DEF TypeOK
<1>6. /\ None \in Auth \cup {None} /\ Len(tokens') \in {Len(tokens), Len(tokens) + 1}
      /\ \A k \in DOMAIN sessions : k \in DOMAIN sessions'
      /\ \A k \in DOMAIN tokens : k \in DOMAIN tokens'
  BY <1>3
<1>7. QED
  BY <1>1, <1>2, <1>3, <1>4, <1>5, <1>6, CommitShape, Zenon

-----------------------------------------------------------------------------
(* Shape: the administrator and the clock, and the behaviours. *)

\* A step that leaves the threads, the tokens and the failures alone.
LEMMA QuietShape ==
  ASSUME Shape, UNCHANGED <<tokens, jobs, strikes>>,
         users' \in [Users -> User], sessions' \in Seq(Session), Len(sessions') = Len(sessions),
         clients' \in [Clients -> Client],
         \A c \in Clients : clients'[c].auth # None =>
           /\ clients[c].auth # None
           /\ clients'[c].auth.token = clients[c].auth.token
           /\ clients'[c].auth.session = clients[c].auth.session
  PROVE  Shape'
<1>1. TypeOK'
  BY DEF Shape, TypeOK
<1>2. Counted'
  BY DEF Shape, Counted, Logins, Adding, Serves, Busy
<1>3. DOMAIN sessions' = DOMAIN sessions
  BY LenProperties DEF Shape, TypeOK
<1>4. Linked'
  BY <1>3 DEF Shape, Linked, Busy
<1>5. QED
  BY <1>1, <1>2, <1>4 DEF Shape

LEMMA SetEnabledShape ==
  ASSUME Shape, NEW u \in Users, SetEnabled(u)
  PROVE  Shape'
<1> DEFINE row == [users[u] EXCEPT !.enabled = ~users[u].enabled]
<1>1. users \in [Users -> User] /\ users' = [users EXCEPT ![u] = row]
  BY DEF SetEnabled, Shape, TypeOK
<1>2. row \in User
  BY <1>1 DEF User
<1> HIDE DEF row
<1>3. users' \in [Users -> User]
  BY <1>1, <1>2
<1>4. UNCHANGED <<sessions, tokens, jobs, clients, strikes>>
  BY DEF SetEnabled
<1>5. sessions' \in Seq(Session) /\ clients' \in [Clients -> Client]
  BY <1>4 DEF Shape, TypeOK
<1>6. QED
  BY <1>3, <1>4, <1>5, QuietShape

LEMMA LockLapsesShape ==
  ASSUME Shape, NEW u \in Users, LockLapses(u)
  PROVE  Shape'
<1> DEFINE row == [users[u] EXCEPT !.lock = "past"]
<1>1. users \in [Users -> User] /\ users' = [users EXCEPT ![u] = row]
  BY DEF LockLapses, Shape, TypeOK
<1>2. row \in User
  BY <1>1 DEF User
<1> HIDE DEF row
<1>3. users' \in [Users -> User]
  BY <1>1, <1>2
<1>4. UNCHANGED <<sessions, tokens, jobs, clients, strikes>>
  BY DEF LockLapses
<1>5. sessions' \in Seq(Session) /\ clients' \in [Clients -> Client]
  BY <1>4 DEF Shape, TypeOK
<1>6. QED
  BY <1>3, <1>4, <1>5, QuietShape

LEMMA AccessLapsesShape ==
  ASSUME Shape, NEW c \in Clients, AccessLapses(c)
  PROVE  Shape'
<1> DEFINE auth == [clients[c].auth EXCEPT !.jwt = FALSE]
           new == [clients[c] EXCEPT !.auth = auth]
<1>1. clients \in [Clients -> Client] /\ clients' = [clients EXCEPT ![c] = new]
  BY DEF AccessLapses, Shape, TypeOK
<1>2. clients[c].auth \in Auth
  BY <1>1 DEF AccessLapses, Client
<1>3. /\ auth \in Auth /\ auth.token = clients[c].auth.token
      /\ auth.session = clients[c].auth.session
  BY <1>2 DEF Auth
<1> HIDE DEF auth
<1>4. new \in Client /\ new.auth = auth
  BY <1>1, <1>3 DEF Client
<1> HIDE DEF new
<1>5. clients' \in [Clients -> Client]
  BY <1>1, <1>4
<1>6. \A d \in Clients : clients'[d].auth # None =>
        /\ clients[d].auth # None
        /\ clients'[d].auth.token = clients[d].auth.token
        /\ clients'[d].auth.session = clients[d].auth.session
  BY <1>1, <1>3, <1>4 DEF AccessLapses
<1>7. UNCHANGED <<rows, jobs, strikes>>
  BY DEF AccessLapses
<1>8. users' \in [Users -> User] /\ sessions' \in Seq(Session)
  BY <1>7 DEF Shape, TypeOK, rows
<1>9. QED
  BY <1>5, <1>6, <1>7, <1>8, QuietShape DEF rows

LEMMA SessionLapsesRows ==
  ASSUME Shape, NEW s \in DOMAIN sessions, SessionLapses(s)
  PROVE  /\ sessions' \in Seq(Session) /\ Len(sessions') = Len(sessions)
         /\ DOMAIN sessions' = DOMAIN sessions
         /\ \A k \in DOMAIN sessions : sessions'[k].revoked = sessions[k].revoked
<1> DEFINE row == [sessions[s] EXCEPT !.lapsed = TRUE]
<1>1. sessions \in Seq(Session) /\ sessions' = [sessions EXCEPT ![s] = row]
  BY DEF SessionLapses, Shape, TypeOK
<1>2. DOMAIN sessions = 1..Len(sessions)
  BY <1>1, LenProperties
<1>3. sessions[s] \in Session
  BY <1>1, <1>2, ElementOfSeq
<1>4. row \in Session /\ row.revoked = sessions[s].revoked
  BY <1>3 DEF Session
<1> HIDE DEF row
<1>5. /\ sessions' \in Seq(Session) /\ Len(sessions') = Len(sessions)
      /\ \A k \in 1..Len(sessions) : sessions'[k] = IF k = s THEN row ELSE sessions[k]
  BY <1>1, <1>2, <1>4, ExceptSeq
<1>6. QED
  BY <1>2, <1>4, <1>5, LenProperties

LEMMA SessionLapsesShape ==
  ASSUME Shape, NEW s \in DOMAIN sessions, SessionLapses(s)
  PROVE  Shape'
<1>1. UNCHANGED <<users, tokens, jobs, clients, strikes>>
  BY DEF SessionLapses
<1>2. users' \in [Users -> User] /\ clients' \in [Clients -> Client]
  BY <1>1 DEF Shape, TypeOK
<1>3. QED
  BY <1>1, <1>2, SessionLapsesRows, QuietShape

LEMMA InitShape ==
  ASSUME Init
  PROVE  Shape
<1>1. /\ users \in [Users -> User] /\ strikes \in [Users -> 0..MaxStrikes]
      /\ jobs \in [Threads -> Login \cup Refresh \cup Logout \cup {None}]
  BY Bounds DEF Init, User
<1>2. [auth |-> None, call |-> None, lost |-> FALSE, left |-> 0] \in Client
  BY Bounds DEF Client
<1>3. clients \in [Clients -> Client]
  BY <1>2 DEF Init
<1>4. sessions \in Seq(Session) /\ Len(sessions) = 0 /\ tokens \in Seq(Token) /\ Len(tokens) = 0
  BY EmptySeq DEF Init
<1>5. TypeOK
  BY <1>1, <1>3, <1>4, Bounds DEF TypeOK
<1>6. Logins = {} /\ Adding = {}
  BY DEF Init, Logins, Adding, Serves, Busy
<1>7. Counted
  BY <1>4, <1>6, FS_EmptySet, Bounds DEF Counted, Init
<1>8. DOMAIN tokens = {}
  BY <1>4, LenProperties
<1>9. Linked
  BY <1>8 DEF Linked, Init, Busy
<1>10. QED
  BY <1>5, <1>7, <1>9 DEF Shape

LEMMA NextShape ==
  ASSUME Shape, [Next]_vars
  PROVE  Shape'
<1>1. ASSUME NEW p \in Threads, Serve(p) PROVE Shape'
  BY <1>1, LoginReadShape, LoginFailShape, LoginCommitShape, RefreshLockShape,
     RefreshCommitShape, LogoutLockShape, LogoutReadShape, LogoutCommitShape DEF Serve
<1>2. ASSUME NEW p \in Threads, Abort(p) PROVE Shape'
  BY <1>2, AbortShape
<1>3. ASSUME NEW c \in Clients, Act(c) PROVE Shape'
  BY <1>3, GiveUpShape, SendLoginShape, SendRefreshShape, SendLogoutShape DEF Act
<1>4. CASE Environment
  BY <1>4, SetEnabledShape, LockLapsesShape, AccessLapsesShape, SessionLapsesShape
     DEF Environment
<1>5. CASE UNCHANGED vars
  BY <1>5 DEF vars, rows, Shape, TypeOK, Linked, Counted, Logins, Adding, Serves, Busy
<1>6. QED
  BY <1>1, <1>2, <1>3, <1>4, <1>5 DEF Next

\* Rows, requests and clients keep their types, and the requests under way fit
\* the bounds (login, refresh and logout of api/auth.py).
THEOREM TypeCorrect == Spec => []TypeOK
<1>1. Init => Shape
  BY InitShape
<1>2. Shape /\ [Next]_vars => Shape'
  BY NextShape
<1>3. Shape => TypeOK
  BY DEF Shape
<1>4. QED
  BY <1>1, <1>2, <1>3, PTL DEF Spec

-----------------------------------------------------------------------------
(* Safe: one live token for each session, and none for a closed one. *)

\* A step that revokes nothing and locks nothing.
LEMMA QuietSafe ==
  ASSUME Shape, Safe, tokens' = tokens, DOMAIN sessions' = DOMAIN sessions,
         \A s \in DOMAIN sessions : sessions'[s].revoked = sessions[s].revoked,
         \A q \in Threads : jobs'[q] = jobs[q] \/ jobs'[q] = None
  PROVE  Safe'
<1>1. \A q \in Threads : Busy(q)' => Busy(q) /\ jobs'[q] = jobs[q]
  BY DEF Busy
<1>2. LocksOK'
  BY <1>1 DEF Safe, LocksOK, Holds, Live, Serves, Busy
<1>3. OneLiveToken'
  BY DEF Safe, OneLiveToken, Live
<1>4. RevokedIsDead'
  BY DEF Safe, RevokedIsDead, Live, Shape, Linked
<1>5. QED
  BY <1>2, <1>3, <1>4 DEF Safe

\* The same, when thread p goes on with a request that locks nothing new.
LEMMA NoNewLock ==
  ASSUME Shape, Safe, UNCHANGED <<tokens, sessions>>,
         NEW p \in Threads, NEW job \in Job, jobs' = [jobs EXCEPT ![p] = job],
         job.op # "login" => job.held = FALSE \/ (Busy(p) /\ jobs[p].op # "login"
                               /\ jobs[p].token = job.token /\ jobs[p].held),
         job.op = "logout" /\ job.saw # None => job.held
  PROVE  Safe'
<1>1. TypeOK /\ jobs'[p] = job /\ \A q \in Threads \ {p} : jobs'[q] = jobs[q]
  BY DEF Shape, TypeOK
<1>2. \A q \in Threads, t \in DOMAIN tokens : Holds(q, t)' => Holds(q, t)
  BY <1>1 DEF Holds, Busy
<1>3. \A q \in Threads : Serves(q, "logout")' /\ jobs'[q].saw # None => jobs'[q].held
  BY <1>1 DEF Safe, LocksOK, Serves, Busy
<1>4. LocksOK'
  BY <1>2, <1>3 DEF Safe, LocksOK, Live
<1>5. OneLiveToken' /\ RevokedIsDead'
  BY DEF Safe, OneLiveToken, RevokedIsDead, Live
<1>6. QED
  BY <1>4, <1>5 DEF Safe

\* Thread p locks its token, which is live and which nobody else has locked.
LEMMA NewLock ==
  ASSUME Shape, Safe, UNCHANGED <<tokens, sessions>>,
         NEW p \in Threads, Busy(p), jobs[p].op # "login", Live(jobs[p].token),
         ~Locked(jobs[p].token, p), jobs' = [jobs EXCEPT ![p].held = TRUE]
  PROVE  Safe'
<1>1. /\ TypeOK /\ jobs[p] \in Refresh \cup Logout
      /\ \A q \in Threads \ {p} : jobs'[q] = jobs[q]
      /\ jobs'[p] = [jobs[p] EXCEPT !.held = TRUE]
  BY Kinds DEF Shape, TypeOK, Job
<1>2. /\ jobs'[p].held = TRUE /\ jobs'[p].token = jobs[p].token /\ jobs'[p].op = jobs[p].op
  BY <1>1 DEF Refresh, Logout
<1>3. \A q \in Threads, t \in DOMAIN tokens :
        Holds(q, t)' => Holds(q, t) \/ (q = p /\ t = jobs[p].token)
  BY <1>1, <1>2 DEF Holds, Busy
<1>4. \A q \in Threads \ {p} : ~Holds(q, jobs[p].token)
  BY DEF Locked, Holds
<1>5. \A q \in Threads : Serves(q, "logout")' /\ jobs'[q].saw # None => jobs'[q].held
  BY <1>1, <1>2 DEF Safe, LocksOK, Serves, Busy
<1>6. LocksOK'
  <2>1. \A q \in Threads, t \in DOMAIN tokens : Holds(q, t)' => Live(t)
    BY <1>3 DEF Safe, LocksOK
  <2>2. \A q, r \in Threads, t \in DOMAIN tokens : Holds(q, t)' /\ Holds(r, t)' => q = r
    BY <1>3, <1>4 DEF Safe, LocksOK
  <2>3. QED
    BY <1>5, <2>1, <2>2 DEF LocksOK, Live
<1>7. OneLiveToken' /\ RevokedIsDead'
  BY DEF Safe, OneLiveToken, RevokedIsDead, Live
<1>8. QED
  BY <1>6, <1>7 DEF Safe

\* After the end of a request of p, the others hold what they held.
LEMMA HeldAfterEnd ==
  ASSUME Shape, Safe, NEW p \in Threads, jobs' = [jobs EXCEPT ![p] = None]
  PROVE  /\ \A q \in Threads : \A t : Holds(q, t)' => q # p /\ Holds(q, t)
         /\ \A q \in Threads : Serves(q, "logout")' /\ jobs'[q].saw # None => jobs'[q].held
         /\ \A q \in Threads : \A t : Holds(q, t) => t \in DOMAIN tokens
<1>1. jobs'[p] = None /\ \A q \in Threads \ {p} : jobs'[q] = jobs[q]
  BY DEF Shape, TypeOK
<1>2. \A q \in Threads : \A t : Holds(q, t)' => q # p /\ Holds(q, t)
  BY <1>1 DEF Holds, Busy
<1>3. \A q \in Threads : Serves(q, "logout")' /\ jobs'[q].saw # None => jobs'[q].held
  BY <1>1 DEF Safe, LocksOK, Serves, Busy
<1>4. \A q \in Threads : \A t : Holds(q, t) => t \in DOMAIN tokens
  BY DEF Holds, Shape, Linked
<1>5. QED
  BY <1>2, <1>3, <1>4

LEMMA LoginCommitSafe ==
  ASSUME Shape, Safe, NEW p \in Threads, LoginCommit(p)
  PROVE  Safe'
<1> DEFINE n == Len(tokens) + 1
           m == Len(sessions) + 1
<1>1. jobs' = [jobs EXCEPT ![p] = None]
  BY DEF LoginCommit, End
<1>2. TypeOK
  BY DEF Shape
<1>3. /\ \A s \in DOMAIN sessions : sessions'[s] = sessions[s]
      /\ sessions'[m].revoked = FALSE
      /\ \A t \in DOMAIN tokens : tokens'[t] = tokens[t]
      /\ tokens'[n].session = m /\ tokens'[n].revoked = FALSE
      /\ tokens' \in Seq(Token) /\ Len(tokens') = n
  BY LoginRows
<1>4. /\ DOMAIN tokens' = DOMAIN tokens \cup {n} /\ m \notin DOMAIN sessions
      /\ n \notin DOMAIN tokens
  <2>1. /\ DOMAIN tokens' = 1..n /\ DOMAIN tokens = 1..Len(tokens) /\ Len(tokens) \in Nat
        /\ DOMAIN sessions = 1..Len(sessions) /\ Len(sessions) \in Nat
    BY <1>2, <1>3, LenProperties DEF TypeOK
  <2>2. QED
    BY <2>1
<1> HIDE DEF n, m
<1>5. \A t \in DOMAIN tokens : tokens[t].session \in DOMAIN sessions /\ tokens[t].session # m
  BY <1>4 DEF Shape, Linked
<1>6. LocksOK'
  BY <1>1, <1>3, HeldAfterEnd DEF Safe, LocksOK, Live
<1>7. OneLiveToken'
  BY <1>3, <1>4, <1>5 DEF Safe, OneLiveToken, Live
<1>8. RevokedIsDead'
  BY <1>3, <1>4, <1>5 DEF Safe, RevokedIsDead, Live
<1>9. QED
  BY <1>6, <1>7, <1>8 DEF Safe

\* The token that p holds is the live token of its session, which is open.
LEMMA HolderHasTheKey ==
  ASSUME Shape, Safe, NEW p \in Threads, NEW t, Holds(p, t)
  PROVE  /\ t \in DOMAIN tokens /\ Live(t)
         /\ ~sessions[tokens[t].session].revoked
         /\ \A k \in DOMAIN tokens : tokens[k].session = tokens[t].session /\ Live(k) => k = t
<1>1. t \in DOMAIN tokens
  BY DEF Holds, Shape, Linked
<1>2. QED
  BY <1>1 DEF Safe, LocksOK, OneLiveToken, RevokedIsDead

LEMMA RefreshCommitSafe ==
  ASSUME Shape, Safe, NEW p \in Threads, RefreshCommit(p)
  PROVE  Safe'
<1> DEFINE t == jobs[p].token
           n == Len(tokens) + 1
<1>1. jobs' = [jobs EXCEPT ![p] = None] /\ Holds(p, t)
  BY DEF RefreshCommit, End, Holds, Serves
<1>2. TypeOK
  BY DEF Shape
<1>3. /\ DOMAIN sessions' = DOMAIN sessions
      /\ \A s \in DOMAIN sessions : sessions'[s].revoked = sessions[s].revoked
      /\ \A k \in DOMAIN tokens :
           /\ tokens'[k].session = tokens[k].session
           /\ tokens'[k].revoked = (tokens[k].revoked \/ k = t)
      /\ tokens'[n].session = tokens[t].session /\ tokens'[n].revoked = FALSE
      /\ tokens' \in Seq(Token) /\ Len(tokens') = n
  BY RefreshRows
<1>4. DOMAIN tokens' = DOMAIN tokens \cup {n} /\ n \notin DOMAIN tokens
  <2>1. DOMAIN tokens' = 1..n /\ DOMAIN tokens = 1..Len(tokens) /\ Len(tokens) \in Nat
    BY <1>2, <1>3, LenProperties DEF TypeOK
  <2>2. QED
    BY <2>1
<1> HIDE DEF n, t
<1>5. /\ t \in DOMAIN tokens /\ ~sessions[tokens[t].session].revoked
      /\ \A k \in DOMAIN tokens : tokens[k].session = tokens[t].session /\ Live(k) => k = t
  BY <1>1, HolderHasTheKey
<1>6. \A k \in DOMAIN tokens : tokens[k].session \in DOMAIN sessions
  BY DEF Shape, Linked
<1>7. \A q \in Threads : \A k : Holds(q, k)' => Holds(q, k) /\ k \in DOMAIN tokens /\ k # t
  BY <1>1, <1>5, HeldAfterEnd DEF Safe, LocksOK
<1>8. LocksOK'
  BY <1>1, <1>3, <1>7, HeldAfterEnd DEF Safe, LocksOK, Live
<1>9. OneLiveToken'
  <2>1. ASSUME NEW j \in DOMAIN tokens', NEW k \in DOMAIN tokens',
               tokens'[j].session = tokens'[k].session, ~tokens'[j].revoked, ~tokens'[k].revoked
        PROVE  j = k
    <3>1. \A i \in DOMAIN tokens : ~tokens'[i].revoked =>
            ~tokens[i].revoked /\ i # t /\ tokens'[i].session = tokens[i].session
      BY <1>3
    <3>2. \A i \in DOMAIN tokens : ~tokens'[i].revoked => tokens'[i].session # tokens[t].session
      BY <1>5, <3>1 DEF Live
    <3>3. CASE j = n
      <4>1. k \notin DOMAIN tokens
        BY <1>3, <2>1, <3>2, <3>3, Zenon
      <4>2. QED
        BY <1>4, <3>3, <4>1
    <3>4. CASE k = n
      <4>1. j \notin DOMAIN tokens
        BY <1>3, <2>1, <3>2, <3>4, Zenon
      <4>2. QED
        BY <1>4, <3>4, <4>1
    <3>5. CASE j \in DOMAIN tokens /\ k \in DOMAIN tokens
      <4>1. tokens[j].session = tokens[k].session /\ ~tokens[j].revoked /\ ~tokens[k].revoked
        BY <2>1, <3>1, <3>5, Zenon
      <4>2. QED
        BY <3>5, <4>1, Zenon DEF Safe, OneLiveToken, Live
    <3>6. QED
      BY <1>4, <3>3, <3>4, <3>5
  <2>2. QED
    BY <2>1, Zenon DEF OneLiveToken, Live
<1>10. RevokedIsDead'
  <2>1. ASSUME NEW k \in DOMAIN tokens', sessions'[tokens'[k].session].revoked, ~tokens'[k].revoked
        PROVE  FALSE
    <3>1. CASE k = n
      BY <1>3, <1>5, <1>6, <2>1, <3>1
    <3>2. CASE k \in DOMAIN tokens
      <4>1. /\ tokens'[k].session = tokens[k].session /\ ~tokens[k].revoked
            /\ tokens[k].session \in DOMAIN sessions
        BY <1>3, <1>6, <2>1, <3>2
      <4>2. sessions[tokens[k].session].revoked
        BY <1>3, <2>1, <4>1
      <4>3. QED
        BY <3>2, <4>1, <4>2 DEF Safe, RevokedIsDead, Live
    <3>3. QED
      BY <1>4, <2>1, <3>1, <3>2
  <2>2. QED
    BY <2>1, Zenon DEF RevokedIsDead, Live
<1>11. QED
  BY <1>8, <1>9, <1>10 DEF Safe

LEMMA LogoutCommitSafe ==
  ASSUME Shape, Safe, NEW p \in Threads, LogoutCommit(p)
  PROVE  Safe'
<1> DEFINE t == jobs[p].token
<1>1. /\ jobs' = [jobs EXCEPT ![p] = None] /\ Holds(p, t)
      /\ \A k \in jobs[p].saw : ~Locked(k, p)
  BY DEF LogoutCommit, End, Holds, Serves, Safe, LocksOK
<1>2. /\ DOMAIN sessions' = DOMAIN sessions /\ DOMAIN tokens' = DOMAIN tokens
      /\ \A s \in DOMAIN sessions :
           sessions'[s].revoked = (sessions[s].revoked \/ s = tokens[t].session)
      /\ \A k \in DOMAIN tokens :
           /\ tokens'[k].session = tokens[k].session
           /\ tokens'[k].revoked = (tokens[k].revoked \/ k \in jobs[p].saw \/ k = t)
  BY LogoutRows
<1> HIDE DEF t
<1>3. /\ t \in DOMAIN tokens
      /\ \A k \in DOMAIN tokens : tokens[k].session = tokens[t].session /\ Live(k) => k = t
  BY <1>1, HolderHasTheKey
<1>4. \A k \in DOMAIN tokens : tokens[k].session \in DOMAIN sessions
  BY DEF Shape, Linked
<1>5. \A q \in Threads : \A k : Holds(q, k)' =>
        Holds(q, k) /\ k \in DOMAIN tokens /\ k # t /\ k \notin jobs[p].saw
  <2>1. \A q \in Threads \ {p} : \A k : Holds(q, k) => k \notin jobs[p].saw
    BY <1>1 DEF Locked, Holds
  <2>2. QED
    BY <1>1, <1>3, <2>1, HeldAfterEnd DEF Safe, LocksOK
<1>6. LocksOK'
  BY <1>1, <1>2, <1>5, HeldAfterEnd DEF Safe, LocksOK, Live
<1>7. OneLiveToken'
  BY <1>2 DEF Safe, OneLiveToken, Live
<1>8. ASSUME NEW k \in DOMAIN tokens, sessions'[tokens[k].session].revoked, ~tokens'[k].revoked
      PROVE  FALSE
  <2>1. ~tokens[k].revoked /\ k # t
    BY <1>2, <1>8, Zenon
  <2>2. sessions[tokens[k].session].revoked \/ tokens[k].session = tokens[t].session
    BY <1>2, <1>4, <1>8, Zenon
  <2>3. CASE sessions[tokens[k].session].revoked
    BY <2>1, <2>3 DEF Safe, RevokedIsDead, Live
  <2>4. CASE tokens[k].session = tokens[t].session
    BY <1>3, <2>1, <2>4 DEF Live
  <2>5. QED
    BY <2>2, <2>3, <2>4
<1>9. RevokedIsDead'
  <2>1. ASSUME NEW k \in DOMAIN tokens', sessions'[tokens'[k].session].revoked, ~tokens'[k].revoked
        PROVE  FALSE
    <3>1. k \in DOMAIN tokens /\ tokens'[k].session = tokens[k].session
      BY <1>2
    <3>2. QED
      BY <1>8, <2>1, <3>1
  <2>2. QED
    BY <2>1, Zenon DEF RevokedIsDead, Live
<1>10. QED
  BY <1>6, <1>7, <1>9 DEF Safe

LEMMA SendSafe ==
  ASSUME Shape, Safe, NEW c \in Clients, NEW p \in Threads,
         SendLogin(c, p) \/ SendRefresh(c, p) \/ SendLogout(c, p)
  PROVE  Safe'
<1>1. CASE SendLogin(c, p)
  <2>1. PICK u \in Users, good \in BOOLEAN :
          Send(c, p, [op |-> "login", user |-> u, good |-> good, saw |-> None])
    BY <1>1 DEF SendLogin
  <2> DEFINE job == [op |-> "login", user |-> u, good |-> good, saw |-> None]
  <2>2. job \in Job /\ job.op = "login" /\ Send(c, p, job)
    BY <2>1 DEF Job, Login
  <2> HIDE DEF job
  <2>3. QED
    BY <2>2, NoNewLock DEF Send, rows
<1>2. CASE SendRefresh(c, p)
  <2> DEFINE job == [op |-> "refresh", token |-> clients[c].auth.token, held |-> FALSE]
  <2>1. clients[c].auth \in Auth
    BY <1>2 DEF SendRefresh, Shape, TypeOK, Client
  <2>2. /\ job \in Job /\ job.op = "refresh" /\ job.held = FALSE /\ Send(c, p, job)
    BY <1>2, <2>1 DEF Job, Refresh, Auth, SendRefresh
  <2> HIDE DEF job
  <2>3. QED
    BY <2>2, NoNewLock DEF Send, rows
<1>3. CASE SendLogout(c, p)
  <2> DEFINE job == [op |-> "logout", token |-> clients[c].auth.token, held |-> FALSE,
                     saw |-> None]
  <2>1. clients[c].auth \in Auth
    BY <1>3 DEF SendLogout, Shape, TypeOK, Client
  <2>2. None \in {None} \cup SUBSET (1..MaxTokens) /\ clients[c].auth.token \in 1..MaxTokens
    BY <2>1 DEF Auth
  <2>3. job \in Logout
    BY <2>2 DEF Logout
  <2>4. /\ job \in Job /\ job.op = "logout" /\ job.held = FALSE /\ job.saw = None
        /\ Send(c, p, job)
    BY <1>3, <2>3 DEF Job, SendLogout
  <2> HIDE DEF job
  <2>5. QED
    BY <2>4, NoNewLock DEF Send, rows
<1>4. QED
  BY <1>1, <1>2, <1>3

\* A request that ends without a commit.
LEMMA EndSafe ==
  ASSUME Shape, Safe, NEW p \in Threads, jobs' = [jobs EXCEPT ![p] = None],
         UNCHANGED <<tokens, sessions>>
  PROVE  Safe'
<1>1. \A q \in Threads : jobs'[q] = jobs[q] \/ jobs'[q] = None
  BY DEF Shape, TypeOK
<1>2. QED
  BY <1>1, QuietSafe

LEMMA ServeSafe ==
  ASSUME Shape, Safe, NEW p \in Threads, Serve(p)
  PROVE  Safe'
<1>1. CASE LoginRead(p)
  <2>1. /\ Serves(p, "login") /\ Busy(p) /\ jobs[p] \in Login
        /\ users[jobs[p].user] \in User /\ UNCHANGED <<tokens, sessions>>
    BY <1>1, Reading DEF LoginRead, Shape, rows
  <2>2. CASE jobs' = [jobs EXCEPT ![p] = None]
    BY <2>1, <2>2, EndSafe
  <2>3. CASE jobs' = [jobs EXCEPT ![p].saw = users[jobs[p].user]]
    <3> DEFINE job == [jobs[p] EXCEPT !.saw = users[jobs[p].user]]
    <3>1. jobs' = [jobs EXCEPT ![p] = job]
      BY <2>3 DEF Shape, TypeOK
    <3>2. job \in Login /\ job.op = "login"
      BY <2>1 DEF Login
    <3> HIDE DEF job
    <3>3. job \in Job
      BY <3>2 DEF Job
    <3>4. QED
      BY <2>1, <3>1, <3>2, <3>3, NoNewLock
  <2>4. QED
    BY <1>1, <2>2, <2>3 DEF LoginRead, End
<1>2. CASE LoginFail(p)
  BY <1>2, EndSafe DEF LoginFail, End
<1>3. CASE LoginCommit(p)
  BY <1>3, LoginCommitSafe
<1>4. CASE RefreshLock(p)
  <2>1. UNCHANGED <<tokens, sessions>> /\ Busy(p) /\ jobs[p].op # "login"
    BY <1>4 DEF RefreshLock, rows, Serves
  <2>2. CASE jobs' = [jobs EXCEPT ![p] = None]
    BY <2>1, <2>2, EndSafe
  <2>3. CASE jobs' # [jobs EXCEPT ![p] = None]
    <3>1. /\ Live(jobs[p].token) /\ ~Locked(jobs[p].token, p)
          /\ jobs' = [jobs EXCEPT ![p].held = TRUE]
      BY <1>4, <2>3 DEF RefreshLock, End
    <3>2. QED
      BY <2>1, <3>1, NewLock
  <2>4. QED
    BY <2>2, <2>3
<1>5. CASE RefreshCommit(p)
  BY <1>5, RefreshCommitSafe
<1>6. CASE LogoutLock(p)
  <2>1. UNCHANGED <<tokens, sessions>> /\ Busy(p) /\ jobs[p].op # "login"
    BY <1>6 DEF LogoutLock, rows, Serves
  <2>2. CASE jobs' = [jobs EXCEPT ![p] = None]
    BY <2>1, <2>2, EndSafe
  <2>3. CASE jobs' # [jobs EXCEPT ![p] = None]
    <3>1. /\ Live(jobs[p].token) /\ ~Locked(jobs[p].token, p)
          /\ jobs' = [jobs EXCEPT ![p].held = TRUE]
      BY <1>6, <2>3 DEF LogoutLock, End
    <3>2. QED
      BY <2>1, <3>1, NewLock
  <2>4. QED
    BY <2>2, <2>3
<1>7. CASE LogoutRead(p)
  <2> DEFINE seen == {t \in TokensOf(tokens[jobs[p].token].session) : Live(t)}
             job == [jobs[p] EXCEPT !.saw = seen]
  <2>1. /\ UNCHANGED <<tokens, sessions>> /\ Serves(p, "logout") /\ jobs[p].held
        /\ jobs' = [jobs EXCEPT ![p].saw = seen]
    BY <1>7 DEF LogoutRead, rows
  <2>2. TypeOK /\ Busy(p) /\ jobs[p] \in Logout /\ jobs[p].op = "logout"
    BY <2>1, LoggingOut
  <2>3. jobs' = [jobs EXCEPT ![p] = job]
    BY <2>1, <2>2 DEF TypeOK
  <2>4. seen \in SUBSET (1..MaxTokens)
    <3>1. DOMAIN tokens \subseteq 1..MaxTokens
      BY <2>2, LenProperties, Bounds DEF TypeOK
    <3>2. QED
      BY <3>1 DEF TokensOf
  <2> HIDE DEF seen
  <2>5. /\ job \in Logout /\ job.op = "logout" /\ job.token = jobs[p].token
        /\ job.held = jobs[p].held
    BY <2>2, <2>4 DEF Logout
  <2> HIDE DEF job
  <2>6. job \in Job
    BY <2>5 DEF Job
  <2>7. QED
    BY <2>1, <2>2, <2>3, <2>5, <2>6, NoNewLock
<1>8. CASE LogoutCommit(p)
  BY <1>8, LogoutCommitSafe
<1>9. QED
  BY <1>1, <1>2, <1>3, <1>4, <1>5, <1>6, <1>7, <1>8 DEF Serve

LEMMA NextSafe ==
  ASSUME Shape, Safe, [Next]_vars
  PROVE  Safe'
<1>1. ASSUME NEW p \in Threads, Abort(p) PROVE Safe'
  BY <1>1, EndSafe DEF Abort, End, rows
<1>2. ASSUME NEW c \in Clients, Act(c) PROVE Safe'
  <2>1. CASE GiveUp(c)
    BY <2>1, QuietSafe DEF GiveUp, rows
  <2>2. QED
    BY <1>2, <2>1, SendSafe DEF Act
<1>3. CASE Environment
  <2>1. UNCHANGED <<tokens, jobs>>
    BY <1>3 DEF Environment, SetEnabled, LockLapses, AccessLapses, SessionLapses, rows
  <2>2. /\ DOMAIN sessions' = DOMAIN sessions
        /\ \A s \in DOMAIN sessions : sessions'[s].revoked = sessions[s].revoked
    <3>1. CASE UNCHANGED sessions
      BY <3>1
    <3>2. ASSUME NEW s \in DOMAIN sessions, SessionLapses(s) PROVE /\ DOMAIN sessions' = DOMAIN sessions
               /\ \A k \in DOMAIN sessions : sessions'[k].revoked = sessions[k].revoked
      BY <3>2, SessionLapsesRows
    <3>3. QED
      BY <1>3, <3>1, <3>2, SessionLapsesRows DEF Environment, SetEnabled, LockLapses, AccessLapses, rows
  <2>3. QED
    BY <2>1, <2>2, QuietSafe
<1>4. CASE UNCHANGED vars
  BY <1>4, QuietSafe DEF vars, rows
<1>5. QED
  BY <1>1, <1>2, <1>3, <1>4, ServeSafe DEF Next

LEMMA InitSafe ==
  ASSUME Init
  PROVE  Safe
<1>1. DOMAIN tokens = {} /\ \A p \in Threads : ~Busy(p)
  BY EmptySeq DEF Init, Busy
<1>2. QED
  BY <1>1 DEF Safe, LocksOK, OneLiveToken, RevokedIsDead, Holds, Serves

\* A session never has two live refresh tokens: the lock on the row of a token
\* makes its exchange and its revocation exclusive (refresh, logout).
THEOREM OneLive == Spec => []OneLiveToken
<1>1. Init => Shape /\ Safe
  BY InitShape, InitSafe
<1>2. Shape /\ Safe /\ [Next]_vars => (Shape /\ Safe)'
  BY NextShape, NextSafe
<1>3. Safe => OneLiveToken
  BY DEF Safe
<1>4. QED
  BY <1>1, <1>2, <1>3, PTL DEF Spec

\* A session that was logged out of has no live refresh token, although logout
\* reads the siblings without a lock and refresh reads no session.revoked_at:
\* the lock that the logout holds on its own token shuts refreshes out.
THEOREM RevokedDead == Spec => []RevokedIsDead
<1>1. Init => Shape /\ Safe
  BY InitShape, InitSafe
<1>2. Shape /\ Safe /\ [Next]_vars => (Shape /\ Safe)'
  BY NextShape, NextSafe
<1>3. Safe => RevokedIsDead
  BY DEF Safe
<1>4. QED
  BY <1>1, <1>2, <1>3, PTL DEF Spec

-----------------------------------------------------------------------------
(* Earned: what is read and written of a user never runs ahead of the failures. *)

\* A step that leaves the user rows and the failures alone.
LEMMA QuietEarned ==
  ASSUME Earned, UNCHANGED <<users, strikes>>,
         \A q \in Threads : Serves(q, "login")' /\ jobs'[q].saw # None =>
           jobs'[q] = jobs[q] /\ Serves(q, "login")
  PROVE  Earned'
BY DEF Earned, ReadsOK, LockIsEarned

\* A request begins, ends or goes on, and reads no user.
LEMMA NoNewRead ==
  ASSUME Shape, Earned, UNCHANGED <<users, strikes>>, NEW p \in Threads, NEW job,
         jobs' = [jobs EXCEPT ![p] = job],
         job = None \/ job.op # "login" \/ job.saw = None
  PROVE  Earned'
<1>1. jobs'[p] = job /\ \A q \in Threads \ {p} : jobs'[q] = jobs[q]
  BY DEF Shape, TypeOK
<1>2. QED
  BY <1>1, QuietEarned DEF Serves, Busy

\* The failures of user u are no fewer than before, and no more than they were
\* for the others; the row of u is earned.
LEMMA UserEarned ==
  ASSUME Shape, Earned, Shape', NEW u \in Users,
         \A v \in Users \ {u} : users'[v] = users[v] /\ strikes'[v] = strikes[v],
         strikes'[u] >= strikes[u],
         \A q \in Threads : Serves(q, "login")' /\ jobs'[q].saw # None =>
           jobs'[q] = jobs[q] /\ Serves(q, "login"),
         users'[u].lock # "none" => strikes'[u] >= LockAfter,
         users'[u].failed <= strikes'[u]
  PROVE  Earned'
<1>1. \A v \in Users : strikes[v] \in Nat /\ strikes'[v] \in Nat /\ strikes'[v] >= strikes[v]
  <2>1. ASSUME NEW v \in Users PROVE strikes[v] \in Nat /\ strikes'[v] \in Nat
    <3>1. strikes[v] \in 0..MaxStrikes /\ strikes'[v] \in 0..MaxStrikes
      BY DEF Shape, TypeOK
    <3>2. QED
      BY <3>1, Bounds
  <2>2. ASSUME NEW v \in Users PROVE strikes'[v] >= strikes[v]
    BY <2>1
  <2>3. QED
    BY <2>1, <2>2
<1>2. ReadsOK'
  <2>1. ASSUME NEW q \in Threads, Serves(q, "login")', jobs'[q].saw # None
        PROVE  /\ jobs'[q].saw.lock # "none" => strikes'[jobs'[q].user] >= LockAfter
               /\ jobs'[q].saw.failed <= strikes'[jobs'[q].user]
    <3>1. jobs'[q] = jobs[q] /\ Serves(q, "login")
      BY <2>1
    <3>2. jobs[q].user \in Users /\ jobs[q].saw \in User
      BY <2>1, <3>1, Reading DEF Shape
    <3>3. /\ jobs[q].saw.lock # "none" => strikes[jobs[q].user] >= LockAfter
          /\ jobs[q].saw.failed <= strikes[jobs[q].user]
      BY <2>1, <3>1 DEF Earned, ReadsOK
    <3>4. jobs[q].saw.failed \in Nat
      BY <3>2, Bounds DEF User
    <3>5. QED
      BY <1>1, <3>1, <3>2, <3>3, <3>4, Bounds
  <2>2. QED
    BY <2>1 DEF ReadsOK
<1>3. LockIsEarned'
  BY DEF Earned, LockIsEarned
<1>4. QED
  BY <1>2, <1>3 DEF Earned

LEMMA LoginReadEarned ==
  ASSUME Shape, Earned, NEW p \in Threads, LoginRead(p)
  PROVE  Earned'
<1>1. /\ Serves(p, "login") /\ Busy(p) /\ jobs[p] \in Login /\ jobs[p].user \in Users
      /\ UNCHANGED <<users, strikes>>
  BY Reading DEF LoginRead, Shape, rows
<1>2. CASE jobs' = [jobs EXCEPT ![p] = None]
  BY <1>1, <1>2, NoNewRead
<1>3. CASE jobs' = [jobs EXCEPT ![p].saw = users[jobs[p].user]]
  <2>1. /\ jobs'[p].saw = users[jobs[p].user] /\ jobs'[p].user = jobs[p].user
        /\ \A q \in Threads \ {p} : jobs'[q] = jobs[q]
    BY <1>1, <1>3 DEF Shape, TypeOK, Login
  <2>2. ReadsOK'
    BY <1>1, <2>1 DEF Earned, ReadsOK, LockIsEarned, Serves, Busy
  <2>3. LockIsEarned'
    BY <1>1 DEF Earned, LockIsEarned
  <2>4. QED
    BY <2>2, <2>3 DEF Earned
<1>4. QED
  BY <1>2, <1>3 DEF LoginRead, End

LEMMA LoginFailEarned ==
  ASSUME Shape, Earned, NEW p \in Threads, LoginFail(p)
  PROVE  Earned'
<1> DEFINE u == jobs[p].user
           saw == jobs[p].saw
           row == users[u]
           new == Failed(saw)
<1>1. /\ Serves(p, "login") /\ u \in Users /\ saw \in User /\ row \in User /\ TypeOK /\ saw # None
  BY Reading DEF LoginFail, Shape
<1>2. /\ users' = [users EXCEPT ![u] = Emit(row, saw, new)]
      /\ strikes' = [strikes EXCEPT ![u] = @ + 1]
      /\ jobs' = [jobs EXCEPT ![p] = None]
  BY <1>1 DEF LoginFail, End, TypeOK
<1>3. /\ new \in User
      /\ new.lock # "none" => saw.failed + 1 >= LockAfter \/ new.lock = saw.lock
      /\ new.failed <= saw.failed + 1
  BY <1>1, FailedUser
<1>4. /\ saw.lock # "none" => strikes[u] >= LockAfter
      /\ saw.failed <= strikes[u]
      /\ row.lock # "none" => strikes[u] >= LockAfter
      /\ row.failed <= strikes[u]
  BY <1>1 DEF Earned, ReadsOK, LockIsEarned
<1>5. /\ saw.failed \in Nat /\ row.failed \in Nat /\ new.failed \in Nat /\ strikes[u] \in Nat
  BY <1>1, <1>3, Bounds DEF User, TypeOK
<1> HIDE DEF u, saw, row, new
<1>6. /\ Emit(row, saw, new).lock = (IF new.lock # saw.lock THEN new.lock ELSE row.lock)
      /\ Emit(row, saw, new).failed = (IF new.failed # saw.failed THEN new.failed ELSE row.failed)
  BY <1>1, <1>3, EmitUser
<1>7. /\ users'[u] = Emit(row, saw, new) /\ strikes'[u] = strikes[u] + 1
      /\ \A v \in Users \ {u} : users'[v] = users[v] /\ strikes'[v] = strikes[v]
  BY <1>1, <1>2 DEF TypeOK
<1>8. users'[u].failed <= strikes'[u]
  BY <1>3, <1>4, <1>5, <1>6, <1>7
<1>9. users'[u].lock # "none" => strikes'[u] >= LockAfter
  BY <1>3, <1>4, <1>5, <1>6, <1>7, Bounds
<1>10. \A q \in Threads : Serves(q, "login")' /\ jobs'[q].saw # None =>
         jobs'[q] = jobs[q] /\ Serves(q, "login")
  BY <1>1, <1>2 DEF TypeOK, Serves, Busy
<1>11. Shape' /\ strikes'[u] >= strikes[u]
  BY <1>5, <1>7, LoginFailShape
<1>12. QED
  BY <1>1, <1>7, <1>8, <1>9, <1>10, <1>11, UserEarned

LEMMA LoginCommitEarned ==
  ASSUME Shape, Earned, NEW p \in Threads, LoginCommit(p)
  PROVE  Earned'
<1> DEFINE u == jobs[p].user
           saw == jobs[p].saw
           row == users[u]
           new == [saw EXCEPT !.failed = 0, !.lock = "none"]
<1>1. /\ Serves(p, "login") /\ u \in Users /\ saw \in User /\ row \in User /\ TypeOK
  BY Reading DEF LoginCommit, Shape
<1>2. /\ users' = [users EXCEPT ![u] = Emit(row, saw, new)] /\ strikes' = strikes
      /\ jobs' = [jobs EXCEPT ![p] = None]
  BY <1>1 DEF LoginCommit, End, TypeOK
<1>3. new \in User /\ new.failed = 0 /\ new.lock = "none"
  <2>1. saw \in User
    BY <1>1
  <2> DEFINE mid == [saw EXCEPT !.failed = 0]
  <2>2. new = [mid EXCEPT !.lock = "none"]
    OBVIOUS
  <2>3. mid \in User /\ mid.failed = 0
    BY <2>1, Bounds DEF User
  <2> HIDE DEF mid, new
  <2>4. QED
    BY <2>2, <2>3 DEF User
<1>4. /\ row.lock # "none" => strikes[u] >= LockAfter
      /\ row.failed <= strikes[u] /\ strikes[u] \in Nat
  BY <1>1, Bounds DEF Earned, LockIsEarned, TypeOK
<1> HIDE DEF u, saw, row, new
<1>5. /\ Emit(row, saw, new).lock = (IF new.lock # saw.lock THEN new.lock ELSE row.lock)
      /\ Emit(row, saw, new).failed = (IF new.failed # saw.failed THEN new.failed ELSE row.failed)
  BY <1>1, <1>3, EmitUser
<1>6. /\ users'[u] = Emit(row, saw, new) /\ strikes'[u] = strikes[u]
      /\ \A v \in Users \ {u} : users'[v] = users[v] /\ strikes'[v] = strikes[v]
  BY <1>1, <1>2 DEF TypeOK
<1>7. /\ users'[u].failed <= strikes'[u]
      /\ users'[u].lock # "none" => strikes'[u] >= LockAfter
  BY <1>3, <1>4, <1>5, <1>6
<1>8. \A q \in Threads : Serves(q, "login")' /\ jobs'[q].saw # None =>
        jobs'[q] = jobs[q] /\ Serves(q, "login")
  BY <1>1, <1>2 DEF TypeOK, Serves, Busy
<1>9. Shape' /\ strikes'[u] >= strikes[u]
  BY <1>4, <1>6, LoginCommitShape
<1>10. QED
  BY <1>1, <1>6, <1>7, <1>8, <1>9, UserEarned

LEMMA ServeEarned ==
  ASSUME Shape, Earned, NEW p \in Threads, Serve(p)
  PROVE  Earned'
<1>1. CASE LoginRead(p)
  BY <1>1, LoginReadEarned
<1>2. CASE LoginFail(p)
  BY <1>2, LoginFailEarned
<1>3. CASE LoginCommit(p)
  BY <1>3, LoginCommitEarned
<1>4. CASE RefreshLock(p) \/ LogoutLock(p) \/ LogoutRead(p)
  <2>1. /\ UNCHANGED <<users, strikes>> /\ Busy(p) /\ jobs[p].op # "login"
        /\ TypeOK /\ jobs[p] \in Refresh \cup Logout
    BY <1>4, Kinds DEF RefreshLock, LogoutLock, LogoutRead, Serves, rows, Shape, Job
  <2>2. CASE jobs' = [jobs EXCEPT ![p] = None]
    BY <2>1, <2>2, NoNewRead
  <2>3. CASE jobs' # [jobs EXCEPT ![p] = None]
    <3>1. \/ jobs' = [jobs EXCEPT ![p].held = TRUE]
          \/ jobs' = [jobs EXCEPT ![p].saw =
               {t \in TokensOf(tokens[jobs[p].token].session) : Live(t)}]
      BY <1>4, <2>3 DEF RefreshLock, LogoutLock, LogoutRead, End
    <3>2. jobs'[p].op = jobs[p].op /\ \A q \in Threads \ {p} : jobs'[q] = jobs[q]
      BY <2>1, <3>1 DEF TypeOK, Refresh, Logout
    <3>3. QED
      BY <2>1, <3>2, QuietEarned DEF Serves, Busy
  <2>4. QED
    BY <2>2, <2>3
<1>5. CASE RefreshCommit(p) \/ LogoutCommit(p)
  <2>1. UNCHANGED <<users, strikes>> /\ jobs' = [jobs EXCEPT ![p] = None]
    BY <1>5 DEF RefreshCommit, LogoutCommit, End
  <2>2. QED
    BY <2>1, NoNewRead
<1>6. QED
  BY <1>1, <1>2, <1>3, <1>4, <1>5 DEF Serve

LEMMA ActEarned ==
  ASSUME Shape, Earned, NEW c \in Clients, Act(c)
  PROVE  Earned'
<1>1. CASE GiveUp(c)
  BY <1>1, QuietEarned DEF GiveUp, rows, Serves, Busy
<1>2. ASSUME NEW p \in Threads, SendLogin(c, p) PROVE Earned'
  <2>1. PICK u \in Users, good \in BOOLEAN :
          Send(c, p, [op |-> "login", user |-> u, good |-> good, saw |-> None])
    BY <1>2 DEF SendLogin
  <2> DEFINE job == [op |-> "login", user |-> u, good |-> good, saw |-> None]
  <2>2. job.saw = None /\ Send(c, p, job)
    BY <2>1
  <2> HIDE DEF job
  <2>3. QED
    BY <2>2, NoNewRead DEF Send, rows
<1>3. ASSUME NEW p \in Threads, SendRefresh(c, p) PROVE Earned'
  <2> DEFINE job == [op |-> "refresh", token |-> clients[c].auth.token, held |-> FALSE]
  <2>1. job.op = "refresh" /\ Send(c, p, job)
    BY <1>3 DEF SendRefresh
  <2> HIDE DEF job
  <2>2. QED
    BY <2>1, NoNewRead DEF Send, rows
<1>4. ASSUME NEW p \in Threads, SendLogout(c, p) PROVE Earned'
  <2> DEFINE job == [op |-> "logout", token |-> clients[c].auth.token, held |-> FALSE,
                     saw |-> None]
  <2>1. job.op = "logout" /\ Send(c, p, job)
    BY <1>4 DEF SendLogout
  <2> HIDE DEF job
  <2>2. QED
    BY <2>1, NoNewRead DEF Send, rows
<1>5. QED
  BY <1>1, <1>2, <1>3, <1>4 DEF Act

LEMMA EnvironmentEarned ==
  ASSUME Shape, Earned, Environment
  PROVE  Earned'
<1>1. jobs' = jobs /\ strikes' = strikes
  BY DEF Environment, SetEnabled, LockLapses, AccessLapses, SessionLapses, rows
<1>2. ASSUME NEW u \in Users, SetEnabled(u) \/ LockLapses(u)
      PROVE  /\ \A v \in Users : users'[v].failed = users[v].failed
             /\ \A v \in Users : users'[v].lock # "none" => users[v].lock # "none"
  <2>1. users \in [Users -> User] /\ users[u] \in User
    BY DEF Shape, TypeOK
  <2>2. CASE SetEnabled(u)
    <3> DEFINE row == [users[u] EXCEPT !.enabled = ~users[u].enabled]
    <3>1. users' = [users EXCEPT ![u] = row]
      BY <2>1, <2>2 DEF SetEnabled
    <3>2. row.failed = users[u].failed /\ row.lock = users[u].lock
      BY <2>1 DEF User
    <3> HIDE DEF row
    <3>3. QED
      BY <2>1, <3>1, <3>2
  <2>3. CASE LockLapses(u)
    <3> DEFINE row == [users[u] EXCEPT !.lock = "past"]
    <3>1. users' = [users EXCEPT ![u] = row] /\ users[u].lock = "active"
      BY <2>1, <2>3 DEF LockLapses
    <3>2. row.failed = users[u].failed
      BY <2>1 DEF User
    <3> HIDE DEF row
    <3>3. QED
      BY <2>1, <3>1, <3>2
  <2>4. QED
    BY <1>2, <2>2, <2>3
<1>3. /\ \A v \in Users : users'[v].failed = users[v].failed
      /\ \A v \in Users : users'[v].lock # "none" => users[v].lock # "none"
  <2>1. CASE users' = users
    BY <2>1
  <2>2. CASE users' # users
    <3>1. \E u \in Users : SetEnabled(u) \/ LockLapses(u)
      BY <2>2 DEF Environment, AccessLapses, SessionLapses, rows
    <3>2. QED
      BY <1>2, <3>1
  <2>3. QED
    BY <2>1, <2>2
<1>4. QED
  BY <1>1, <1>3 DEF Earned, ReadsOK, LockIsEarned, Serves, Busy

LEMMA NextEarned ==
  ASSUME Shape, Earned, [Next]_vars
  PROVE  Earned'
<1>1. ASSUME NEW p \in Threads, Abort(p) PROVE Earned'
  BY <1>1, NoNewRead DEF Abort, End, rows
<1>2. CASE UNCHANGED vars
  BY <1>2, QuietEarned DEF vars, rows, Serves, Busy
<1>3. QED
  BY <1>1, <1>2, ServeEarned, ActEarned, EnvironmentEarned DEF Next

LEMMA InitEarned ==
  ASSUME Init
  PROVE  Earned
BY Bounds DEF Init, Earned, ReadsOK, LockIsEarned, Serves, Busy

\* An account is locked only after LockAfter failed logins, although two logins
\* that read the same row may lose one of their increments (login).
THEOREM LockEarned == Spec => []LockIsEarned
<1>1. Init => Shape /\ Earned
  BY InitShape, InitEarned
<1>2. Shape /\ Earned /\ [Next]_vars => (Shape /\ Earned)'
  BY NextShape, NextEarned
<1>3. Earned => LockIsEarned
  BY DEF Earned
<1>4. QED
  BY <1>1, <1>2, <1>3, PTL DEF Spec

-----------------------------------------------------------------------------
(* The endpoints implement SessionContract. *)

\* What a logout has seen are tokens of its own session.
SeenOK ==
  \A p \in Threads : Serves(p, "logout") /\ jobs[p].saw # None =>
    \A k \in jobs[p].saw :
      k \in DOMAIN tokens /\ tokens[k].session = tokens[jobs[p].token].session

\* Tokens stay, with their sessions.
TokensStay ==
  \A t \in DOMAIN tokens : t \in DOMAIN tokens' /\ tokens'[t].session = tokens[t].session

LEMMA Staying ==
  ASSUME Shape, [Next]_vars
  PROVE  TokensStay
<1>1. CASE tokens' = tokens
  BY <1>1 DEF TokensStay
<1>2. ASSUME NEW p \in Threads, LoginCommit(p) PROVE TokensStay
  BY <1>2, LoginRows DEF TokensStay
<1>3. ASSUME NEW p \in Threads, RefreshCommit(p) PROVE TokensStay
  BY <1>3, RefreshRows DEF TokensStay
<1>4. ASSUME NEW p \in Threads, LogoutCommit(p) PROVE TokensStay
  BY <1>4, LogoutRows DEF TokensStay
<1>5. CASE tokens' # tokens
  <2>1. \E p \in Threads : LoginCommit(p) \/ RefreshCommit(p) \/ LogoutCommit(p)
    BY <1>5 DEF Next, Serve, LoginRead, LoginFail, RefreshLock, LogoutLock, LogoutRead, Abort,
       Act, GiveUp, SendLogin, SendRefresh, SendLogout, Send, Environment, SetEnabled,
       LockLapses, AccessLapses, SessionLapses, vars, rows
  <2>2. QED
    BY <1>2, <1>3, <1>4, <2>1
<1>6. QED
  BY <1>1, <1>5

\* A step in which no logout reads.
LEMMA QuietSeen ==
  ASSUME Shape, SeenOK, TokensStay,
         \A q \in Threads : Serves(q, "logout")' /\ jobs'[q].saw # None =>
           Serves(q, "logout") /\ jobs'[q].saw = jobs[q].saw /\ jobs'[q].token = jobs[q].token
  PROVE  SeenOK'
<1>1. \A q \in Threads : Serves(q, "logout") => jobs[q].token \in DOMAIN tokens
  BY LoggingOut
<1>2. QED
  BY <1>1 DEF SeenOK, TokensStay

LEMMA NextSeen ==
  ASSUME Shape, SeenOK, [Next]_vars
  PROVE  SeenOK'
<1>1. TokensStay
  BY Staying
<1>2. ASSUME NEW p \in Threads, jobs' = [jobs EXCEPT ![p] = None] PROVE SeenOK'
  <2>1. jobs'[p] = None /\ \A q \in Threads \ {p} : jobs'[q] = jobs[q]
    BY <1>2 DEF Shape, TypeOK
  <2>2. QED
    BY <1>1, <2>1, QuietSeen DEF Serves, Busy
<1>3. CASE jobs' = jobs
  BY <1>1, <1>3, QuietSeen DEF Serves, Busy
<1>4. ASSUME NEW p \in Threads, Serve(p), jobs' # [jobs EXCEPT ![p] = None] PROVE SeenOK'
  <2>1. CASE LoginRead(p)
    <3>1. jobs' = [jobs EXCEPT ![p].saw = users[jobs[p].user]] /\ jobs[p] \in Login /\ TypeOK
      BY <1>4, <2>1, Reading DEF LoginRead, End, Shape
    <3>2. jobs'[p].op = "login" /\ \A q \in Threads \ {p} : jobs'[q] = jobs[q]
      BY <3>1 DEF TypeOK, Login
    <3>3. QED
      BY <1>1, <3>2, QuietSeen DEF Serves, Busy
  <2>2. CASE RefreshLock(p)
    <3>1. jobs' = [jobs EXCEPT ![p].held = TRUE] /\ jobs[p] \in Refresh /\ TypeOK
      BY <1>4, <2>2, Kinds DEF RefreshLock, End, Shape, Serves
    <3>2. jobs'[p].op = "refresh" /\ \A q \in Threads \ {p} : jobs'[q] = jobs[q]
      BY <3>1 DEF TypeOK, Refresh
    <3>3. QED
      BY <1>1, <3>2, QuietSeen DEF Serves, Busy
  <2>3. CASE LogoutLock(p)
    <3>1. /\ jobs' = [jobs EXCEPT ![p].held = TRUE] /\ jobs[p] \in Logout /\ TypeOK
          /\ Serves(p, "logout")
      BY <1>4, <2>3, LoggingOut DEF LogoutLock, End, Shape
    <3>2. /\ jobs'[p].saw = jobs[p].saw /\ jobs'[p].token = jobs[p].token
          /\ \A q \in Threads \ {p} : jobs'[q] = jobs[q]
      BY <3>1 DEF TypeOK, Logout
    <3>3. QED
      BY <1>1, <3>1, <3>2, QuietSeen DEF Serves, Busy
  <2>4. CASE LogoutRead(p)
    <3> DEFINE seen == {t \in TokensOf(tokens[jobs[p].token].session) : Live(t)}
    <3>1. /\ jobs' = [jobs EXCEPT ![p].saw = seen] /\ jobs[p] \in Logout /\ TypeOK
          /\ Serves(p, "logout") /\ tokens' = tokens
      BY <2>4, LoggingOut DEF LogoutRead, Shape, rows
    <3>2. \A k \in seen : k \in DOMAIN tokens /\ tokens[k].session = tokens[jobs[p].token].session
      BY DEF TokensOf
    <3> HIDE DEF seen
    <3>3. /\ jobs'[p].saw = seen /\ jobs'[p].token = jobs[p].token
          /\ \A q \in Threads \ {p} : jobs'[q] = jobs[q]
      BY <3>1 DEF TypeOK, Logout
    <3>4. QED
      BY <3>1, <3>2, <3>3 DEF SeenOK, Serves, Busy
  <2>5. QED
    BY <1>4, <2>1, <2>2, <2>3, <2>4 DEF Serve, LoginFail, LoginCommit, RefreshCommit,
       LogoutCommit, End
<1>5. ASSUME NEW c \in Clients, Act(c) PROVE SeenOK'
  <2>1. CASE GiveUp(c)
    BY <1>3, <2>1 DEF GiveUp
  <2>2. ASSUME NEW p \in Threads, NEW job, Send(c, p, job), job.op = "logout" => job.saw = None
        PROVE  SeenOK'
    <3>1. jobs'[p] = job /\ \A q \in Threads \ {p} : jobs'[q] = jobs[q]
      BY <2>2 DEF Send, Shape, TypeOK
    <3>2. QED
      BY <1>1, <2>2, <3>1, QuietSeen DEF Serves, Busy
  <2>3. ASSUME NEW p \in Threads, SendLogin(c, p) PROVE SeenOK'
    <3>1. PICK u \in Users, good \in BOOLEAN :
            Send(c, p, [op |-> "login", user |-> u, good |-> good, saw |-> None])
      BY <2>3 DEF SendLogin
    <3>2. QED
      BY <2>2, <3>1
  <2>4. ASSUME NEW p \in Threads, SendRefresh(c, p) PROVE SeenOK'
    BY <2>2, <2>4 DEF SendRefresh
  <2>5. ASSUME NEW p \in Threads, SendLogout(c, p) PROVE SeenOK'
    BY <2>2, <2>5 DEF SendLogout
  <2>6. QED
    BY <1>5, <2>1, <2>3, <2>4, <2>5 DEF Act
<1>6. ASSUME NEW p \in Threads, Abort(p) PROVE SeenOK'
  BY <1>2, <1>6 DEF Abort, End
<1>7. CASE Environment
  BY <1>3, <1>7 DEF Environment, SetEnabled, LockLapses, AccessLapses, SessionLapses, rows
<1>8. CASE UNCHANGED vars
  BY <1>3, <1>8 DEF vars
<1>9. QED
  BY <1>2, <1>4, <1>5, <1>6, <1>7, <1>8 DEF Next

\* The live tokens of session s.
LiveOf(s) == {t \in TokensOf(s) : Live(t)}

\* The key of a session is its only live token, before and after a step.
LEMMA KeyFromLive ==
  ASSUME NEW s
  PROVE  /\ LiveOf(s) = {} => KeyOf(s) = 0
         /\ LiveOf(s)' = {} => KeyOf(s)' = 0
         /\ \A t : LiveOf(s) = {t} => KeyOf(s) = t
         /\ \A t : LiveOf(s)' = {t} => KeyOf(s)' = t
         /\ LiveOf(s)' = LiveOf(s) => KeyOf(s)' = KeyOf(s)
<1>1. KeyOf(s) = IF LiveOf(s) = {} THEN 0 ELSE CHOOSE t \in LiveOf(s) : TRUE
  BY DEF KeyOf, LiveOf
<1>2. KeyOf(s)' = IF LiveOf(s)' = {} THEN 0 ELSE CHOOSE t \in LiveOf(s)' : TRUE
  BY DEF KeyOf, LiveOf
<1>3. ASSUME NEW t, LiveOf(s) = {t} PROVE KeyOf(s) = t
  <2>1. LiveOf(s) # {} /\ (CHOOSE k \in LiveOf(s) : TRUE) \in LiveOf(s)
    BY <1>3
  <2>2. QED
    BY <1>1, <1>3, <2>1
<1>4. ASSUME NEW t, LiveOf(s)' = {t} PROVE KeyOf(s)' = t
  <2>1. LiveOf(s)' # {} /\ (CHOOSE k \in LiveOf(s)' : TRUE) \in LiveOf(s)'
    BY <1>4
  <2>2. QED
    BY <1>2, <1>4, <2>1
<1>5. LiveOf(s)' = LiveOf(s) => KeyOf(s)' = KeyOf(s)
  BY <1>1, <1>2
<1>6. (LiveOf(s) = {} => KeyOf(s) = 0) /\ (LiveOf(s)' = {} => KeyOf(s)' = 0)
  BY <1>1, <1>2
<1>7. QED
  BY <1>3, <1>4, <1>5, <1>6

stages == [s \in 1..MaxSessions |-> StageOf(s)]
keys == [s \in 1..MaxSessions |-> KeyOf(s)]

\* What the mapped step has to do to be one of SessionContract.
LEMMA PromiseStep ==
  ASSUME NEW i \in 1..MaxSessions,
         \A s \in 1..MaxSessions : s # i => StageOf(s)' = StageOf(s) /\ KeyOf(s)' = KeyOf(s)
  PROVE  /\ stages' = [stages EXCEPT ![i] = StageOf(i)']
         /\ keys' = [keys EXCEPT ![i] = KeyOf(i)']
<1>1. stages' = [s \in 1..MaxSessions |-> StageOf(s)'] /\ keys' = [s \in 1..MaxSessions |-> KeyOf(s)']
  BY DEF stages, keys
<1>2. QED
  BY <1>1 DEF stages, keys

\* Steps that open, extend and close nothing change nothing of the mapping.
LEMMA PromiseStutter ==
  ASSUME Shape, tokens' = tokens, DOMAIN sessions' = DOMAIN sessions,
         \A s \in DOMAIN sessions : sessions'[s].revoked = sessions[s].revoked
  PROVE  UNCHANGED <<stages, keys, DOMAIN tokens>>
<1>1. \A s : KeyOf(s)' = KeyOf(s)
  BY DEF KeyOf, TokensOf, Live
<1>2. \A s : StageOf(s)' = StageOf(s)
  BY DEF StageOf
<1>3. stages' = [s \in 1..MaxSessions |-> StageOf(s)'] /\ keys' = [s \in 1..MaxSessions |-> KeyOf(s)']
  BY DEF stages, keys
<1>4. stages' = stages /\ keys' = keys
  BY <1>1, <1>2, <1>3 DEF stages, keys
<1>5. QED
  BY <1>4

LEMMA LoginOpens ==
  ASSUME Shape, NEW p \in Threads, LoginCommit(p),
         NEW m, m = Len(sessions) + 1, NEW n, n = Len(tokens) + 1
  PROVE  m \in 1..MaxSessions /\ Promise!Open(m)
<1>1. TypeOK
  BY DEF Shape
<1>2. /\ \A s \in DOMAIN sessions : s \in DOMAIN sessions' /\ sessions'[s] = sessions[s]
      /\ sessions'[m].revoked = FALSE /\ m \in DOMAIN sessions'
      /\ \A t \in DOMAIN tokens : tokens'[t] = tokens[t]
      /\ tokens'[n].session = m /\ tokens'[n].revoked = FALSE
      /\ sessions' \in Seq(Session) /\ Len(sessions') = m
      /\ tokens' \in Seq(Token) /\ Len(tokens') = n
      /\ m \in 1..MaxSessions /\ n \in 1..MaxTokens
  BY LoginRows
<1>3. /\ DOMAIN tokens' = DOMAIN tokens \cup {n} /\ n \notin DOMAIN tokens
      /\ DOMAIN sessions' = DOMAIN sessions \cup {m} /\ m \notin DOMAIN sessions
  <2>1. /\ DOMAIN tokens' = 1..n /\ DOMAIN tokens = 1..Len(tokens) /\ Len(tokens) \in Nat
        /\ DOMAIN sessions' = 1..m /\ DOMAIN sessions = 1..Len(sessions) /\ Len(sessions) \in Nat
    BY <1>1, <1>2, LenProperties DEF TypeOK
  <2>2. QED
    BY <2>1
<1>4. \A t \in DOMAIN tokens : tokens[t].session # m
  BY <1>3 DEF Shape, Linked
<1>5. LiveOf(m)' = {n}
  BY <1>2, <1>3, <1>4 DEF LiveOf, TokensOf, Live
<1>6. ASSUME NEW s, s # m PROVE LiveOf(s)' = LiveOf(s)
  BY <1>2, <1>3, <1>6 DEF LiveOf, TokensOf, Live
<1>7. StageOf(m) = "absent" /\ StageOf(m)' = "open"
  BY <1>2, <1>3 DEF StageOf
<1>8. \A s : s # m => StageOf(s)' = StageOf(s)
  BY <1>2, <1>3 DEF StageOf
<1>9. KeyOf(m)' = n
  BY <1>5, KeyFromLive
<1>10. \A s : s # m => KeyOf(s)' = KeyOf(s)
  BY <1>6, KeyFromLive
<1>11. /\ stages' = [stages EXCEPT ![m] = "open"] /\ keys' = [keys EXCEPT ![m] = n]
       /\ stages[m] = "absent"
  BY <1>2, <1>7, <1>8, <1>9, <1>10, PromiseStep DEF stages
<1>12. n \in (1..MaxTokens) \ DOMAIN tokens /\ DOMAIN tokens' = DOMAIN tokens \cup {n}
  BY <1>2, <1>3
<1>13. QED
  BY <1>2, <1>11, <1>12 DEF Promise!Open, Promise!Issue, stages, keys

LEMMA RefreshExtends ==
  ASSUME Shape, Safe, Safe', NEW p \in Threads, RefreshCommit(p),
         NEW t, t = jobs[p].token, NEW i, i = tokens[t].session, NEW n, n = Len(tokens) + 1
  PROVE  i \in 1..MaxSessions /\ Promise!Extend(i)
<1>1. TypeOK /\ Holds(p, t)
  BY DEF Shape, RefreshCommit, Holds, Serves
<1>2. /\ t \in DOMAIN tokens /\ i \in DOMAIN sessions
      /\ DOMAIN sessions' = DOMAIN sessions
      /\ \A s \in DOMAIN sessions : sessions'[s].revoked = sessions[s].revoked
      /\ \A k \in DOMAIN tokens :
           /\ tokens'[k].session = tokens[k].session
           /\ tokens'[k].revoked = (tokens[k].revoked \/ k = t)
      /\ tokens'[n].session = i /\ tokens'[n].revoked = FALSE
      /\ tokens' \in Seq(Token) /\ Len(tokens') = n /\ n \in 1..MaxTokens
  BY RefreshRows
<1>3. /\ DOMAIN tokens' = DOMAIN tokens \cup {n} /\ n \notin DOMAIN tokens
      /\ 0 \notin DOMAIN tokens /\ i \in 1..MaxSessions
  <2>1. /\ DOMAIN tokens' = 1..n /\ DOMAIN tokens = 1..Len(tokens) /\ Len(tokens) \in Nat
        /\ DOMAIN sessions = 1..Len(sessions) /\ Len(sessions) \in Nat
        /\ Len(sessions) <= MaxSessions
    BY <1>1, <1>2, LenProperties DEF TypeOK
  <2>2. QED
    BY <1>2, <2>1, Bounds
<1>4. /\ Live(t) /\ ~sessions[i].revoked
      /\ \A k \in DOMAIN tokens : tokens[k].session = i /\ Live(k) => k = t
  BY <1>1, HolderHasTheKey
<1>5. LiveOf(i) = {t} /\ LiveOf(i)' = {n}
  <2>2. LiveOf(i) = {t}
    BY <1>2, <1>4 DEF LiveOf, TokensOf, Live
  <2>3. n \in LiveOf(i)'
    BY <1>2, <1>3 DEF LiveOf, TokensOf, Live
  <2>4. \A k \in LiveOf(i)' : k = n
    BY <1>2, <1>3 DEF LiveOf, TokensOf, Live, Safe, OneLiveToken
  <2>5. QED
    BY <2>2, <2>3, <2>4
<1>6. ASSUME NEW s, s # i PROVE LiveOf(s)' = LiveOf(s)
  <2>2. \A k \in DOMAIN tokens : tokens[k].session = s => (Live(k)' <=> Live(k))
    BY <1>2, <1>6 DEF Live
  <2>3. {k \in DOMAIN tokens' : tokens'[k].session = s} = {k \in DOMAIN tokens : tokens[k].session = s}
    BY <1>2, <1>3, <1>6
  <2>4. QED
    BY <2>2, <2>3 DEF LiveOf, TokensOf
<1>7. StageOf(i) = "open" /\ \A s : StageOf(s)' = StageOf(s)
  BY <1>2, <1>4 DEF StageOf
<1>8. KeyOf(i) = t /\ KeyOf(i)' = n
  BY <1>5, KeyFromLive
<1>9. \A s : s # i => KeyOf(s)' = KeyOf(s)
  BY <1>6, KeyFromLive
<1>10. /\ stages' = [stages EXCEPT ![i] = StageOf(i)'] /\ keys' = [keys EXCEPT ![i] = n]
       /\ stages[i] = "open" /\ keys[i] = t
  BY <1>3, <1>7, <1>8, <1>9, PromiseStep DEF stages, keys
<1>11. stages' = stages
  <2>1. stages' = [s \in 1..MaxSessions |-> StageOf(s)']
    BY DEF stages
  <2>2. QED
    BY <1>7, <2>1 DEF stages
<1>12. n \in (1..MaxTokens) \ DOMAIN tokens /\ DOMAIN tokens' = DOMAIN tokens \cup {n} /\ t # 0
  BY <1>2, <1>3
<1>13. QED
  BY <1>3, <1>10, <1>11, <1>12 DEF Promise!Extend, Promise!Issue, stages, keys

LEMMA LogoutCloses ==
  ASSUME Shape, Safe, Safe', SeenOK, NEW p \in Threads, LogoutCommit(p),
         NEW t, t = jobs[p].token, NEW i, i = tokens[t].session
  PROVE  i \in 1..MaxSessions /\ Promise!Close(i)
<1>1. /\ TypeOK /\ Holds(p, t)
      /\ \A k \in jobs[p].saw : k \in DOMAIN tokens /\ tokens[k].session = i
  BY DEF Shape, LogoutCommit, Holds, Serves, Safe, LocksOK, SeenOK
<1>2. /\ t \in DOMAIN tokens /\ i \in DOMAIN sessions
      /\ DOMAIN sessions' = DOMAIN sessions /\ DOMAIN tokens' = DOMAIN tokens
      /\ \A s \in DOMAIN sessions : sessions'[s].revoked = (sessions[s].revoked \/ s = i)
      /\ \A k \in DOMAIN tokens :
           /\ tokens'[k].session = tokens[k].session
           /\ tokens'[k].revoked = (tokens[k].revoked \/ k \in jobs[p].saw \/ k = t)
  BY LogoutRows
<1>3. i \in 1..MaxSessions
  BY <1>1, <1>2, LenProperties, Bounds DEF TypeOK
<1>4. ~sessions[i].revoked
  BY <1>1, HolderHasTheKey
<1>6. LiveOf(i)' = {}
  <2>1. sessions'[i].revoked
    BY <1>2
  <2>2. ASSUME NEW k \in LiveOf(i)' PROVE FALSE
    <3>1. k \in DOMAIN tokens' /\ tokens'[k].session = i /\ Live(k)'
      BY <2>2 DEF LiveOf, TokensOf
    <3>2. QED
      BY <2>1, <3>1 DEF Safe, RevokedIsDead
  <2>3. QED
    BY <2>2
<1>7. ASSUME NEW s, s # i PROVE LiveOf(s)' = LiveOf(s)
  <2>1. \A k \in DOMAIN tokens : tokens[k].session = s => (Live(k)' <=> Live(k))
    BY <1>1, <1>2, <1>7 DEF Live
  <2>2. {k \in DOMAIN tokens' : tokens'[k].session = s} = {k \in DOMAIN tokens : tokens[k].session = s}
    BY <1>2
  <2>3. QED
    BY <2>1, <2>2 DEF LiveOf, TokensOf
<1>8. StageOf(i) = "open" /\ StageOf(i)' = "closed"
  <2>1. i \in DOMAIN sessions /\ i \in DOMAIN sessions' /\ sessions'[i].revoked
    BY <1>2
  <2>2. QED
    BY <1>4, <2>1 DEF StageOf
<1>9. \A s : s # i => StageOf(s)' = StageOf(s)
  BY <1>2 DEF StageOf
<1>10. KeyOf(i)' = 0
  BY <1>6, KeyFromLive
<1>11. \A s : s # i => KeyOf(s)' = KeyOf(s)
  BY <1>7, KeyFromLive
<1>12. /\ stages' = [stages EXCEPT ![i] = "closed"] /\ keys' = [keys EXCEPT ![i] = 0]
       /\ stages[i] = "open"
  BY <1>3, <1>8, <1>9, <1>10, <1>11, PromiseStep DEF stages, keys
<1>13. QED
  BY <1>2, <1>3, <1>12 DEF Promise!Close, stages, keys

\* Every step opens, extends or closes one session, or changes none.
LEMMA NextPromise ==
  ASSUME Shape, Safe, Safe', SeenOK, [Next]_vars
  PROVE  [Promise!Next]_(Promise!vars)
<1> USE DEF Promise!vars, stages, keys
<1>1. ASSUME NEW p \in Threads, LoginCommit(p) PROVE Promise!Next
  <2>1. PICK m, n : m = Len(sessions) + 1 /\ n = Len(tokens) + 1
    OBVIOUS
  <2>2. m \in 1..MaxSessions /\ Promise!Open(m)
    BY <1>1, <2>1, LoginOpens
  <2>3. QED
    BY <2>2 DEF Promise!Next
<1>2. ASSUME NEW p \in Threads, RefreshCommit(p) PROVE Promise!Next
  <2>1. PICK t, n : t = jobs[p].token /\ n = Len(tokens) + 1
    OBVIOUS
  <2>2. PICK i : i = tokens[t].session
    OBVIOUS
  <2>3. i \in 1..MaxSessions /\ Promise!Extend(i)
    BY <1>2, <2>1, <2>2, RefreshExtends
  <2>4. QED
    BY <2>3 DEF Promise!Next
<1>3. ASSUME NEW p \in Threads, LogoutCommit(p) PROVE Promise!Next
  <2>1. PICK t : t = jobs[p].token
    OBVIOUS
  <2>2. PICK i : i = tokens[t].session
    OBVIOUS
  <2>3. i \in 1..MaxSessions /\ Promise!Close(i)
    BY <1>3, <2>1, <2>2, LogoutCloses
  <2>4. QED
    BY <2>3 DEF Promise!Next
<1>4. CASE UNCHANGED <<tokens, sessions>>
  BY <1>4, PromiseStutter
<1>5. ASSUME NEW s \in DOMAIN sessions, SessionLapses(s)
      PROVE  UNCHANGED Promise!vars
  BY <1>5, SessionLapsesRows, PromiseStutter DEF SessionLapses
<1>6. QED
  <2>1. CASE \E p \in Threads : LoginCommit(p) \/ RefreshCommit(p) \/ LogoutCommit(p)
    BY <1>1, <1>2, <1>3, <2>1
  <2>2. CASE \E s \in DOMAIN sessions : SessionLapses(s)
    BY <1>5, <2>2
  <2>3. \/ \E p \in Threads : LoginCommit(p) \/ RefreshCommit(p) \/ LogoutCommit(p)
        \/ \E s \in DOMAIN sessions : SessionLapses(s)
        \/ UNCHANGED <<tokens, sessions>>
    BY DEF Next, Serve, LoginRead, LoginFail, RefreshLock, LogoutLock, LogoutRead, Abort,
       Act, GiveUp, SendLogin, SendRefresh, SendLogout, Send, Environment, SetEnabled,
       LockLapses, AccessLapses, vars, rows
  <2>4. QED
    BY <1>4, <2>1, <2>2, <2>3

LEMMA InitPromise ==
  ASSUME Init
  PROVE  Promise!Init
<1>1. DOMAIN sessions = {} /\ DOMAIN tokens = {}
  BY EmptySeq DEF Init
<1>2. \A s : StageOf(s) = "absent"
  BY <1>1 DEF StageOf
<1>3. \A s : LiveOf(s) = {}
  BY <1>1 DEF LiveOf, TokensOf
<1>4. \A s : KeyOf(s) = 0
  BY <1>3, KeyFromLive
<1>5. QED
  BY <1>1, <1>2, <1>4 DEF Promise!Init

\* Logins, refreshes and logouts that overlap, fail, or are answered to nobody
\* keep the promise of SessionContract: a key is never handed out twice, an open
\* session has one at most, and a closed session stays closed, without a key.
THEOREM KeepsContract == Spec => Contract
<1>1. Init => Shape /\ Safe /\ SeenOK
  <2>1. Init => SeenOK
    BY DEF Init, SeenOK, Serves, Busy
  <2>2. QED
    BY <2>1, InitShape, InitSafe
<1>2. Shape /\ Safe /\ SeenOK /\ [Next]_vars => (Shape /\ Safe /\ SeenOK)'
  BY NextShape, NextSafe, NextSeen
<1>3. Init => Promise!Init
  BY InitPromise
<1>4. Shape /\ Safe /\ Safe' /\ SeenOK /\ [Next]_vars => [Promise!Next]_(Promise!vars)
  BY NextPromise
<1>5. QED
  BY <1>1, <1>2, <1>3, <1>4, PTL DEF Spec, Contract, Promise!Spec

-----------------------------------------------------------------------------
(* What a client holds is its own. *)

\* A client waits for a thread of its own, which serves it: a login while it has
\* no tokens, and a refresh or a logout with the token that it has otherwise.
CallsOK ==
  /\ \A c, d \in Clients :
       clients[c].call # None /\ clients[c].call = clients[d].call => c = d
  /\ \A c \in Clients : clients[c].call # None =>
       /\ Busy(clients[c].call)
       /\ clients[c].auth = None <=> jobs[clients[c].call].op = "login"
       /\ clients[c].auth # None => jobs[clients[c].call].token = clients[c].auth.token

\* Nobody else has its token, its own request is the only one with it as long as
\* no answer was lost, and until then the token is live.
HoldersOK ==
  /\ \A c, d \in Clients :
       /\ clients[c].auth # None /\ clients[d].auth # None
       /\ clients[c].auth.token = clients[d].auth.token
       => c = d
  /\ \A c \in Clients, p \in Threads :
       /\ clients[c].auth # None /\ Busy(p) /\ jobs[p].op # "login"
       /\ jobs[p].token = clients[c].auth.token
       => clients[c].call = p \/ clients[c].lost
  /\ \A c \in Clients :
       clients[c].auth # None /\ ~clients[c].lost => Live(clients[c].auth.token)

\* The session that it was told to have left is closed.
LeftOK ==
  \A c \in Clients : clients[c].left # 0 =>
    clients[c].left \in DOMAIN sessions /\ sessions[clients[c].left].revoked

Owned == CallsOK /\ HoldersOK /\ LeftOK

\* A step in which no request begins or ends, and no token is revoked.
LEMMA QuietOwned ==
  ASSUME Shape, Owned, tokens' = tokens,
         \A q \in Threads : Busy(q)' <=> Busy(q),
         \A q \in Threads : Busy(q) =>
           /\ jobs'[q].op = jobs[q].op
           /\ jobs[q].op # "login" => jobs'[q].token = jobs[q].token,
         \A c \in Clients :
           /\ clients'[c].call = clients[c].call
           /\ clients'[c].lost = clients[c].lost
           /\ clients'[c].left = clients[c].left
           /\ clients'[c].auth = None <=> clients[c].auth = None
           /\ clients[c].auth # None => clients'[c].auth.token = clients[c].auth.token,
         \A s \in DOMAIN sessions : s \in DOMAIN sessions' /\ sessions'[s].revoked = sessions[s].revoked
  PROVE  Owned'
<1>1. \A c \in Clients : clients[c].call # None => clients[c].call \in Threads
  BY DEF Shape, TypeOK, Client
<1>2. CallsOK'
  <2>1. \A c, d \in Clients :
          clients'[c].call # None /\ clients'[c].call = clients'[d].call => c = d
    BY DEF Owned, CallsOK
  <2>2. ASSUME NEW c \in Clients, clients'[c].call # None
        PROVE  /\ jobs'[clients'[c].call] # None
               /\ clients'[c].auth = None <=> jobs'[clients'[c].call].op = "login"
               /\ clients'[c].auth # None => jobs'[clients'[c].call].token = clients'[c].auth.token
    <3>1. PICK q \in Threads : q = clients[c].call /\ clients'[c].call = q
      BY <1>1, <2>2
    <3>2. /\ jobs[q] # None
          /\ clients[c].auth = None <=> jobs[q].op = "login"
          /\ clients[c].auth # None => jobs[q].token = clients[c].auth.token
      BY <2>2, <3>1 DEF Owned, CallsOK, Busy
    <3>3. /\ jobs'[q] # None /\ jobs'[q].op = jobs[q].op
          /\ jobs[q].op # "login" => jobs'[q].token = jobs[q].token
      BY <3>2 DEF Busy
    <3>4. QED
      BY <3>1, <3>2, <3>3
  <2>3. QED
    BY <2>1, <2>2 DEF CallsOK, Busy
<1>3. HoldersOK'
  <2>1. \A c, d \in Clients :
          clients'[c].auth # None /\ clients'[d].auth # None
            /\ clients'[c].auth.token = clients'[d].auth.token => c = d
    BY DEF Owned, HoldersOK
  <2>2. ASSUME NEW c \in Clients, NEW q \in Threads, clients'[c].auth # None, Busy(q)',
               jobs'[q].op # "login", jobs'[q].token = clients'[c].auth.token
        PROVE  clients'[c].call = q \/ clients'[c].lost
    <3>1. /\ clients[c].auth # None /\ Busy(q) /\ jobs[q].op # "login"
          /\ jobs[q].token = clients[c].auth.token
      BY <2>2
    <3>2. clients[c].call = q \/ clients[c].lost
      BY <3>1 DEF Owned, HoldersOK
    <3>3. QED
      BY <3>2
  <2>3. ASSUME NEW c \in Clients, clients'[c].auth # None, ~clients'[c].lost
        PROVE  ~tokens'[clients'[c].auth.token].revoked
    BY <2>3 DEF Owned, HoldersOK, Live
  <2>4. QED
    BY <2>1, <2>2, <2>3, Zenon DEF HoldersOK, Live
<1>4. LeftOK'
  BY DEF Owned, LeftOK
<1>5. QED
  BY <1>2, <1>3, <1>4 DEF Owned

\* A request begins: a login of a client without tokens, or one with its token.
LEMMA SendOwned ==
  ASSUME Shape, Owned, NEW c \in Clients, NEW p \in Threads, NEW job \in Job, Send(c, p, job),
         clients[c].auth = None <=> job.op = "login",
         clients[c].auth # None => job.token = clients[c].auth.token
  PROVE  Owned'
<1>1. /\ clients[c].call = None /\ ~Busy(p) /\ tokens' = tokens /\ sessions' = sessions
      /\ jobs' = [jobs EXCEPT ![p] = job] /\ clients' = [clients EXCEPT ![c].call = p]
  BY DEF Send, rows
<1>2. /\ clients \in [Clients -> Client] /\ jobs'[p] = job
      /\ \A q \in Threads \ {p} : jobs'[q] = jobs[q]
  BY <1>1 DEF Shape, TypeOK
<1>3. job # None /\ p # None
  BY Bounds
<1>4. /\ \A d \in Clients :
           /\ clients'[d].auth = clients[d].auth
           /\ clients'[d].lost = clients[d].lost /\ clients'[d].left = clients[d].left
      /\ clients'[c].call = p
      /\ \A d \in Clients \ {c} : clients'[d].call = clients[d].call
  BY <1>1, <1>2 DEF Client
<1>5. \A d \in Clients : clients[d].call # None =>
        clients[d].call \in Threads \ {p} /\ jobs'[clients[d].call] = jobs[clients[d].call]
  BY <1>1, <1>2 DEF Owned, CallsOK, Client
<1>6. CallsOK'
  <2>1. \A d, e \in Clients :
          clients'[d].call # None /\ clients'[d].call = clients'[e].call => d = e
    BY <1>4, <1>5 DEF Owned, CallsOK
  <2>2. ASSUME NEW d \in Clients, clients'[d].call # None
        PROVE  /\ jobs'[clients'[d].call] # None
               /\ clients'[d].auth = None <=> jobs'[clients'[d].call].op = "login"
               /\ clients'[d].auth # None => jobs'[clients'[d].call].token = clients'[d].auth.token
    <3>1. CASE d = c
      BY <1>2, <1>3, <1>4, <3>1
    <3>2. CASE d # c
      <4>1. clients'[d].call = clients[d].call /\ clients[d].call # None
        BY <1>4, <2>2, <3>2
      <4>2. jobs'[clients[d].call] = jobs[clients[d].call]
        BY <1>5, <4>1
      <4>3. QED
        BY <1>4, <4>1, <4>2 DEF Owned, CallsOK, Busy
    <3>3. QED
      BY <3>1, <3>2
  <2>3. QED
    BY <2>1, <2>2 DEF CallsOK, Busy
<1>7. HoldersOK'
  <2>1. \A d, e \in Clients :
          clients'[d].auth # None /\ clients'[e].auth # None
            /\ clients'[d].auth.token = clients'[e].auth.token => d = e
    BY <1>4 DEF Owned, HoldersOK
  <2>2. ASSUME NEW d \in Clients, NEW q \in Threads, clients'[d].auth # None, Busy(q)',
               jobs'[q].op # "login", jobs'[q].token = clients'[d].auth.token
        PROVE  clients'[d].call = q \/ clients'[d].lost
    <3>1. CASE q = p
      <4>1. job.token = clients[c].auth.token /\ clients[c].auth # None
        BY <1>2, <2>2, <3>1
      <4>2. d = c
        BY <1>2, <1>4, <2>2, <3>1, <4>1 DEF Owned, HoldersOK
      <4>3. QED
        BY <1>4, <3>1, <4>2
    <3>2. CASE q # p
      <4>1. Busy(q) /\ jobs[q].op # "login" /\ jobs[q].token = clients[d].auth.token
        BY <1>2, <1>4, <2>2, <3>2 DEF Busy
      <4>2. clients[d].auth # None
        BY <1>4, <2>2
      <4>3. clients[d].call = q \/ clients[d].lost
        BY <4>1, <4>2 DEF Owned, HoldersOK
      <4>4. q # None
        BY Bounds
      <4>5. QED
        BY <1>1, <1>4, <4>3, <4>4
    <3>3. QED
      BY <3>1, <3>2
  <2>3. ASSUME NEW d \in Clients, clients'[d].auth # None, ~clients'[d].lost
        PROVE  ~tokens'[clients'[d].auth.token].revoked
    BY <1>1, <1>4, <2>3 DEF Owned, HoldersOK, Live
  <2>4. QED
    BY <2>1, <2>2, <2>3, Zenon DEF HoldersOK, Live
<1>8. LeftOK'
  BY <1>1, <1>4 DEF Owned, LeftOK
<1>9. QED
  BY <1>6, <1>7, <1>8 DEF Owned

\* The client that waits for p, if any, is answered with new tokens, with the
\* number n, or keeps none, or keeps its own and an answer to it was lost.
LEMMA AnswerOwned ==
  ASSUME Shape, Owned, NEW p \in Threads, NEW n, n \notin DOMAIN tokens,
         \A q \in Threads : Busy(q)' => Busy(q) /\ jobs'[q] = jobs[q],
         \A q \in Threads \ {p} : jobs'[q] = jobs[q],
         \A c \in Clients : clients[c].call # p => clients'[c] = clients[c],
         \A c \in Clients : clients[c].call = p =>
           /\ clients'[c].call = None
           /\ clients'[c].left # 0 =>
                /\ clients'[c].left \in DOMAIN sessions'
                /\ sessions'[clients'[c].left].revoked
           /\ \/ clients'[c].auth = None
              \/ clients'[c].auth.token = n /\ ~tokens'[n].revoked
              \/ /\ clients[c].auth # None /\ clients'[c].lost
                 /\ clients'[c].auth = clients[c].auth,
         \A c \in Clients :
           clients[c].auth # None /\ clients[c].call # p /\ ~clients[c].lost =>
             ~tokens'[clients[c].auth.token].revoked,
         \A s \in DOMAIN sessions :
           s \in DOMAIN sessions' /\ (sessions[s].revoked => sessions'[s].revoked)
  PROVE  Owned'
<1>1. p # None
  BY Bounds
<1>2. \A c \in Clients : clients[c].auth # None => clients[c].auth.token # n
  BY DEF Shape, Linked
<1>3. \A q \in Threads : Busy(q) /\ jobs[q].op # "login" => jobs[q].token # n
  BY DEF Shape, Linked
<1>4. \A c \in Clients : clients[c].call # None => clients[c].call \in Threads
  BY DEF Shape, TypeOK, Client
<1>5. CallsOK'
  <2>1. \A c \in Clients : clients'[c].call # None =>
          clients[c].call # p /\ clients'[c] = clients[c]
    OBVIOUS
  <2>2. \A c, d \in Clients :
          clients'[c].call # None /\ clients'[c].call = clients'[d].call => c = d
    BY <2>1 DEF Owned, CallsOK
  <2>3. ASSUME NEW c \in Clients, clients'[c].call # None
        PROVE  /\ jobs'[clients'[c].call] # None
               /\ clients'[c].auth = None <=> jobs'[clients'[c].call].op = "login"
               /\ clients'[c].auth # None => jobs'[clients'[c].call].token = clients'[c].auth.token
    <3>1. PICK q \in Threads : q = clients[c].call /\ q # p
      BY <1>4, <2>1, <2>3
    <3>2. jobs'[q] = jobs[q] /\ clients'[c] = clients[c] /\ q # None
      BY <2>1, <2>3, <3>1
    <3>3. /\ jobs[q] # None
          /\ clients[c].auth = None <=> jobs[q].op = "login"
          /\ clients[c].auth # None => jobs[q].token = clients[c].auth.token
      BY <3>1, <3>2 DEF Owned, CallsOK, Busy
    <3>4. QED
      BY <3>1, <3>2, <3>3
  <2>4. QED
    BY <2>2, <2>3 DEF CallsOK, Busy
<1>6. ASSUME NEW c \in Clients, clients'[c].auth # None
      PROVE  \/ /\ clients[c].call = p /\ clients'[c].auth.token = n /\ ~tokens'[n].revoked
             \/ /\ clients[c].auth # None /\ clients'[c].auth = clients[c].auth
                /\ \/ clients'[c].lost
                   \/ clients[c].call # p /\ clients'[c] = clients[c]
  BY <1>6
<1>7. HoldersOK'
  <2>1. ASSUME NEW c \in Clients, NEW d \in Clients, clients'[c].auth # None,
               clients'[d].auth # None, clients'[c].auth.token = clients'[d].auth.token
        PROVE  c = d
    BY <1>1, <1>2, <1>6, <2>1 DEF Owned, CallsOK, HoldersOK
  <2>2. ASSUME NEW c \in Clients, NEW q \in Threads, clients'[c].auth # None, Busy(q)',
               jobs'[q].op # "login", jobs'[q].token = clients'[c].auth.token
        PROVE  clients'[c].call = q \/ clients'[c].lost
    <3>1. Busy(q) /\ jobs[q].op # "login" /\ jobs[q].token = clients'[c].auth.token
      BY <2>2
    <3>2. /\ clients[c].auth # None /\ clients'[c].auth = clients[c].auth
          /\ \/ clients'[c].lost
             \/ clients[c].call # p /\ clients'[c] = clients[c]
      BY <1>3, <1>6, <2>2, <3>1
    <3>3. clients[c].call = q \/ clients[c].lost
      BY <3>1, <3>2 DEF Owned, HoldersOK
    <3>4. QED
      BY <3>2, <3>3
  <2>3. ASSUME NEW c \in Clients, clients'[c].auth # None, ~clients'[c].lost
        PROVE  ~tokens'[clients'[c].auth.token].revoked
    BY <1>6, <2>3
  <2>4. QED
    BY <2>1, <2>2, <2>3, Zenon DEF HoldersOK, Live
<1>8. LeftOK'
  <2>1. ASSUME NEW c \in Clients, clients'[c].left # 0
        PROVE  clients'[c].left \in DOMAIN sessions' /\ sessions'[clients'[c].left].revoked
    <3>1. CASE clients[c].call = p
      BY <2>1, <3>1
    <3>2. CASE clients[c].call # p
      <4>1. clients'[c] = clients[c] /\ clients[c].left # 0
        BY <2>1, <3>2
      <4>2. clients[c].left \in DOMAIN sessions /\ sessions[clients[c].left].revoked
        BY <4>1 DEF Owned, LeftOK
      <4>3. QED
        BY <4>1, <4>2
    <3>3. QED
      BY <3>1, <3>2
  <2>2. QED
    BY <2>1 DEF LeftOK
<1>9. QED
  BY <1>5, <1>7, <1>8 DEF Owned

\* Thread p ends: its client has auth from then on, a new token or nothing.
LEMMA EndOwned ==
  ASSUME Shape, Owned, NEW p \in Threads, NEW auth, NEW left, End(p, auth, left),
         NEW n, n \notin DOMAIN tokens,
         auth # None => auth.token = n /\ ~tokens'[n].revoked,
         \A c \in Clients : clients[c].call = p /\ ~clients[c].lost /\ left # 0 =>
           left \in DOMAIN sessions' /\ sessions'[left].revoked,
         \A c \in Clients :
           clients[c].auth # None /\ clients[c].call # p /\ ~clients[c].lost =>
             ~tokens'[clients[c].auth.token].revoked,
         \A s \in DOMAIN sessions :
           s \in DOMAIN sessions' /\ (sessions[s].revoked => sessions'[s].revoked)
  PROVE  Owned'
<1>1. /\ jobs'[p] = None
      /\ \A q \in Threads \ {p} : jobs'[q] = jobs[q]
  BY DEF End, Shape, TypeOK
<1>2. \A q \in Threads : Busy(q)' => Busy(q) /\ jobs'[q] = jobs[q]
  BY <1>1 DEF Busy
<1>3. \A c \in Clients : clients[c].call # p => clients'[c] = clients[c]
  BY DEF End
<1>4. \A c \in Clients : clients[c].call = p =>
        /\ clients'[c].call = None /\ clients'[c].auth = auth
        /\ clients'[c].left = IF clients[c].lost THEN 0 ELSE left
  BY DEF End, Receive
<1>5. ASSUME NEW c \in Clients, clients[c].call = p
      PROVE  /\ clients'[c].call = None
             /\ clients'[c].left # 0 =>
                  /\ clients'[c].left \in DOMAIN sessions'
                  /\ sessions'[clients'[c].left].revoked
             /\ \/ clients'[c].auth = None
                \/ clients'[c].auth.token = n /\ ~tokens'[n].revoked
  BY <1>4, <1>5
<1>6. QED
  BY <1>1, <1>2, <1>3, <1>5, AnswerOwned

\* There is a token number that is not given out yet.
LEMMA NextToken ==
  ASSUME TypeOK
  PROVE  Len(tokens) + 1 \notin DOMAIN tokens
BY LenProperties DEF TypeOK

\* A request is refused or rolled back, and its client forgets its tokens.
LEMMA RefusedOwned ==
  ASSUME Shape, Owned, NEW p \in Threads, End(p, None, 0), UNCHANGED <<tokens, sessions>>
  PROVE  Owned'
<1>1. Len(tokens) + 1 \notin DOMAIN tokens
  BY NextToken DEF Shape
<1>2. \A c \in Clients :
        clients[c].auth # None /\ clients[c].call # p /\ ~clients[c].lost =>
          ~tokens'[clients[c].auth.token].revoked
  BY DEF Owned, HoldersOK, Live
<1>3. QED
  BY <1>1, <1>2, EndOwned

\* The client gives up, or the request ends and its answer is lost.
LEMMA NoAnswerOwned ==
  ASSUME Shape, Owned, NEW c \in Clients, NEW p \in Threads, clients[c].call = p,
         clients' = [clients EXCEPT ![c] =
           [auth |-> IF Serves(p, "logout") THEN None ELSE clients[c].auth, call |-> None,
            lost |-> Serves(p, "refresh"), left |-> 0]],
         jobs' = jobs \/ jobs' = [jobs EXCEPT ![p] = None], UNCHANGED <<tokens, sessions>>
  PROVE  Owned'
<1> DEFINE new == [auth |-> IF Serves(p, "logout") THEN None ELSE clients[c].auth, call |-> None,
                   lost |-> Serves(p, "refresh"), left |-> 0]
<1>1. clients \in [Clients -> Client] /\ TypeOK
  BY DEF Shape, TypeOK
<1>2. clients'[c] = new /\ \A d \in Clients \ {c} : clients'[d] = clients[d]
  BY <1>1
<1>3. /\ new.call = None /\ new.left = 0 /\ new.lost = Serves(p, "refresh")
      /\ new.auth = IF Serves(p, "logout") THEN None ELSE clients[c].auth
  OBVIOUS
<1> HIDE DEF new
<1>4. /\ \A q \in Threads \ {p} : jobs'[q] = jobs[q]
      /\ \A q \in Threads : Busy(q)' => Busy(q) /\ jobs'[q] = jobs[q]
  BY <1>1 DEF TypeOK, Busy
<1>5. p # None
  BY Bounds
<1>6. \A d \in Clients : clients[d].call = p => d = c
  BY <1>5 DEF Owned, CallsOK
<1>7. Busy(p) /\ (clients[c].auth = None <=> jobs[p].op = "login")
  BY <1>5 DEF Owned, CallsOK
<1>8. jobs[p].op \in {"login", "refresh", "logout"}
  BY <1>1, <1>7, Kinds DEF Job, Login, Refresh, Logout
<1>9. new.auth = None \/ (clients[c].auth # None /\ new.lost /\ new.auth = clients[c].auth)
  BY <1>3, <1>7, <1>8 DEF Serves
<1>10. Len(tokens) + 1 \notin DOMAIN tokens
  BY <1>1, NextToken
<1>11. \A d \in Clients : clients[d].call # p => clients'[d] = clients[d]
  BY <1>2
<1>12. ASSUME NEW d \in Clients, clients[d].call = p
       PROVE  /\ clients'[d].call = None /\ clients'[d].left = 0
              /\ \/ clients'[d].auth = None
                 \/ /\ clients[d].auth # None /\ clients'[d].lost
                    /\ clients'[d].auth = clients[d].auth
  BY <1>2, <1>3, <1>6, <1>9, <1>12
<1>13. \A d \in Clients :
         clients[d].auth # None /\ clients[d].call # p /\ ~clients[d].lost =>
           ~tokens'[clients[d].auth.token].revoked
  BY DEF Owned, HoldersOK, Live
<1>14. \A s \in DOMAIN sessions :
         s \in DOMAIN sessions' /\ (sessions[s].revoked => sessions'[s].revoked)
  OBVIOUS
<1>15. QED
  BY <1>4, <1>10, <1>11, <1>12, <1>13, <1>14, AnswerOwned

\* Thread p goes on with its request.
LEMMA GoOnOwned ==
  ASSUME Shape, Owned, NEW p \in Threads, Busy(p), NEW job \in Job, job.op = jobs[p].op,
         job.op # "login" => job.token = jobs[p].token,
         jobs' = [jobs EXCEPT ![p] = job], UNCHANGED <<rows, clients>>
  PROVE  Owned'
<1>1. jobs'[p] = job /\ \A q \in Threads \ {p} : jobs'[q] = jobs[q]
  BY DEF Shape, TypeOK
<1>2. job # None
  BY Bounds
<1>3. \A q \in Threads : Busy(q)' <=> Busy(q)
  BY <1>1, <1>2 DEF Busy
<1>4. QED
  BY <1>1, <1>3, QuietOwned DEF rows

LEMMA LoginReadOwned ==
  ASSUME Shape, Owned, NEW p \in Threads, LoginRead(p)
  PROVE  Owned'
<1> DEFINE job == [jobs[p] EXCEPT !.saw = users[jobs[p].user]]
<1>1. TypeOK /\ Busy(p) /\ jobs[p] \in Login /\ jobs[p].op = "login" /\ users[jobs[p].user] \in User
  BY Reading DEF LoginRead, Shape, Serves, Login, TypeOK
<1>2. CASE End(p, None, 0)
  BY <1>2, RefusedOwned DEF LoginRead, rows
<1>3. CASE jobs' = [jobs EXCEPT ![p].saw = users[jobs[p].user]] /\ UNCHANGED clients
  <2>1. jobs' = [jobs EXCEPT ![p] = job]
    BY <1>1, <1>3 DEF TypeOK
  <2>2. job \in Login /\ job.op = "login"
    BY <1>1 DEF Login
  <2> HIDE DEF job
  <2>3. job \in Job
    BY <2>2 DEF Job
  <2>4. QED
    BY <1>1, <1>3, <2>1, <2>2, <2>3, GoOnOwned DEF LoginRead
<1>4. QED
  BY <1>2, <1>3 DEF LoginRead

LEMMA RefreshLockOwned ==
  ASSUME Shape, Owned, NEW p \in Threads, RefreshLock(p)
  PROVE  Owned'
<1>1. Serves(p, "refresh") /\ UNCHANGED rows
  BY DEF RefreshLock
<1>2. TypeOK /\ Busy(p) /\ jobs[p] \in Refresh /\ jobs[p].op = "refresh"
  BY <1>1, Kinds DEF Shape, Serves
<1>3. CASE End(p, None, 0)
  BY <1>1, <1>3, RefusedOwned DEF rows
<1>4. CASE jobs' = [jobs EXCEPT ![p].held = TRUE] /\ UNCHANGED clients
  <2> DEFINE job == [jobs[p] EXCEPT !.held = TRUE]
  <2>1. jobs' = [jobs EXCEPT ![p] = job]
    BY <1>2, <1>4 DEF TypeOK
  <2>2. job \in Refresh /\ job.op = "refresh" /\ job.token = jobs[p].token
    BY <1>2 DEF Refresh
  <2> HIDE DEF job
  <2>3. job \in Job
    BY <2>2 DEF Job
  <2>4. QED
    BY <1>1, <1>2, <1>4, <2>1, <2>2, <2>3, GoOnOwned
<1>5. QED
  BY <1>3, <1>4 DEF RefreshLock

\* A client of which no answer was lost asks with a live token: the answer that
\* its session is closed already reaches none but those that lost one.
LEMMA LogoutLockOwned ==
  ASSUME Shape, Owned, NEW p \in Threads, LogoutLock(p)
  PROVE  Owned'
<1>1. Serves(p, "logout") /\ UNCHANGED rows
  BY DEF LogoutLock
<1>2. /\ Busy(p) /\ TypeOK /\ jobs[p] \in Logout /\ jobs[p].op = "logout" /\ p # None
  BY <1>1, LoggingOut, Bounds
<1>3. CASE ~Live(jobs[p].token) /\ End(p, None, tokens[jobs[p].token].session)
  <2>1. ASSUME NEW c \in Clients, clients[c].call = p, ~clients[c].lost
        PROVE  FALSE
    <3>1. clients[c].auth # None /\ jobs[p].token = clients[c].auth.token
      BY <1>2, <2>1 DEF Owned, CallsOK
    <3>2. QED
      BY <1>3, <2>1, <3>1 DEF Owned, HoldersOK
  <2>2. Len(tokens) + 1 \notin DOMAIN tokens
    BY <1>2, NextToken
  <2>3. \A c \in Clients :
          clients[c].auth # None /\ clients[c].call # p /\ ~clients[c].lost =>
            ~tokens'[clients[c].auth.token].revoked
    BY <1>1 DEF Owned, HoldersOK, Live, rows
  <2>4. QED
    BY <1>1, <1>3, <2>1, <2>2, <2>3, EndOwned DEF rows
<1>4. CASE jobs' = [jobs EXCEPT ![p].held = TRUE] /\ UNCHANGED clients
  <2> DEFINE job == [jobs[p] EXCEPT !.held = TRUE]
  <2>1. jobs' = [jobs EXCEPT ![p] = job]
    BY <1>2, <1>4 DEF TypeOK
  <2>2. job \in Logout /\ job.op = "logout" /\ job.token = jobs[p].token
    BY <1>2 DEF Logout
  <2> HIDE DEF job
  <2>3. job \in Job
    BY <2>2 DEF Job
  <2>4. QED
    BY <1>1, <1>2, <1>4, <2>1, <2>2, <2>3, GoOnOwned
<1>5. QED
  BY <1>3, <1>4 DEF LogoutLock

LEMMA LogoutReadOwned ==
  ASSUME Shape, Owned, NEW p \in Threads, LogoutRead(p)
  PROVE  Owned'
<1> DEFINE seen == {t \in TokensOf(tokens[jobs[p].token].session) : Live(t)}
           job == [jobs[p] EXCEPT !.saw = seen]
<1>1. /\ Serves(p, "logout") /\ UNCHANGED <<rows, clients, strikes>>
      /\ jobs' = [jobs EXCEPT ![p].saw = seen]
  BY DEF LogoutRead
<1>2. /\ Busy(p) /\ TypeOK /\ jobs[p] \in Logout /\ jobs[p].op = "logout"
  BY <1>1, LoggingOut
<1>3. jobs' = [jobs EXCEPT ![p] = job]
  BY <1>1, <1>2 DEF TypeOK
<1>4. DOMAIN tokens \subseteq 1..MaxTokens
  BY <1>2, LenProperties, Bounds DEF TypeOK
<1>5. seen \in SUBSET (1..MaxTokens)
  BY <1>4 DEF TokensOf
<1> HIDE DEF seen
<1>6. job \in Logout /\ job.op = "logout" /\ job.token = jobs[p].token
  BY <1>2, <1>5 DEF Logout
<1> HIDE DEF job
<1>7. job \in Job
  BY <1>6 DEF Job
<1>8. QED
  BY <1>1, <1>2, <1>3, <1>6, <1>7, GoOnOwned

\* A login gives its client the first token of a new session.
LEMMA LoginCommitOwned ==
  ASSUME Shape, Owned, NEW p \in Threads, LoginCommit(p)
  PROVE  Owned'
<1> DEFINE n == Len(tokens) + 1
           new == [session |-> Len(sessions) + 1, jwt |-> TRUE, token |-> n]
           auth == IF users[jobs[p].user].enabled THEN new ELSE None
<1>1. End(p, auth, 0)
  BY DEF LoginCommit
<1>2. /\ \A s \in DOMAIN sessions : s \in DOMAIN sessions' /\ sessions'[s] = sessions[s]
      /\ \A t \in DOMAIN tokens : t \in DOMAIN tokens' /\ tokens'[t] = tokens[t]
      /\ tokens'[n].revoked = FALSE
  BY LoginRows
<1>3. n \notin DOMAIN tokens
  BY NextToken DEF Shape
<1>4. auth # None => auth.token = n
  OBVIOUS
<1> HIDE DEF n, auth
<1>5. \A c \in Clients : clients[c].auth # None => clients[c].auth.token \in DOMAIN tokens
  BY DEF Shape, Linked
<1>6. \A c \in Clients :
        clients[c].auth # None /\ clients[c].call # p /\ ~clients[c].lost =>
          ~tokens'[clients[c].auth.token].revoked
  BY <1>2, <1>5 DEF Owned, HoldersOK, Live
<1>7. QED
  BY <1>1, <1>2, <1>3, <1>4, <1>6, EndOwned

\* Who else has the token that p exchanges or gives back has lost an answer.
LEMMA OthersKeep ==
  ASSUME Shape, Owned, NEW p \in Threads, Busy(p), jobs[p].op # "login", NEW c \in Clients,
         clients[c].auth # None, clients[c].call # p, ~clients[c].lost
  PROVE  /\ clients[c].auth.token # jobs[p].token /\ Live(clients[c].auth.token)
         /\ clients[c].auth.token \in DOMAIN tokens
BY DEF Owned, HoldersOK, Shape, Linked

\* A refresh gives its client the successor of its token.
LEMMA RefreshCommitOwned ==
  ASSUME Shape, Owned, NEW p \in Threads, RefreshCommit(p)
  PROVE  Owned'
<1> DEFINE n == Len(tokens) + 1
           new == [session |-> tokens[jobs[p].token].session, jwt |-> TRUE, token |-> n]
           auth == IF users[sessions[tokens[jobs[p].token].session].user].enabled
                     THEN new ELSE None
<1>1. End(p, auth, 0)
  BY Zenon DEF RefreshCommit
<1>2. Serves(p, "refresh")
  BY Zenon DEF RefreshCommit
<1>3. Busy(p) /\ jobs[p].op # "login"
  BY <1>2 DEF Serves
<1> HIDE DEF n
<1>4. auth = None \/ auth.token = n
  <2>1. new.token = n
    OBVIOUS
  <2>2. auth = new \/ auth = None
    BY Zenon
  <2>3. QED
    BY <2>1, <2>2, Zenon
<1>5. n \notin DOMAIN tokens
  BY NextToken DEF Shape, n
<1> DEFINE t == jobs[p].token
<1>6. /\ DOMAIN sessions' = DOMAIN sessions
      /\ \A k \in DOMAIN sessions : sessions'[k].revoked = sessions[k].revoked
      /\ \A k \in DOMAIN tokens : tokens'[k].revoked = (tokens[k].revoked \/ k = t)
      /\ tokens'[n].revoked = FALSE
  BY RefreshRows DEF n
<1> HIDE DEF auth
<1>7. \A c \in Clients :
        clients[c].auth # None /\ clients[c].call # p /\ ~clients[c].lost =>
          ~tokens'[clients[c].auth.token].revoked
  BY <1>3, <1>6, OthersKeep DEF Live
<1>8. QED
  BY <1>1, <1>4, <1>5, <1>6, <1>7, EndOwned

\* A logout closes the session, and what it saw of other tokens was not live.
LEMMA LogoutCommitOwned ==
  ASSUME Shape, Safe, SeenOK, Owned, NEW p \in Threads, LogoutCommit(p)
  PROVE  Owned'
<1>1. PICK t, s : t = jobs[p].token /\ s = tokens[t].session
  OBVIOUS
<1>2. /\ Serves(p, "logout") /\ Busy(p) /\ jobs[p].op # "login" /\ jobs[p].saw # None
      /\ End(p, None, s) /\ Holds(p, t)
  BY <1>1 DEF LogoutCommit, Serves, Safe, LocksOK, Holds
<1>3. /\ s \in DOMAIN sessions /\ DOMAIN sessions' = DOMAIN sessions
      /\ \A k \in DOMAIN sessions : sessions'[k].revoked = (sessions[k].revoked \/ k = s)
      /\ \A k \in DOMAIN tokens :
           tokens'[k].revoked = (tokens[k].revoked \/ k \in jobs[p].saw \/ k = t)
  BY <1>1, LogoutRows
<1>4. \A k \in jobs[p].saw : k \in DOMAIN tokens /\ tokens[k].session = tokens[t].session
  BY <1>1, <1>2 DEF SeenOK
<1>5. \A k \in jobs[p].saw : Live(k) => k = t
  BY <1>2, <1>4, HolderHasTheKey
<1>6. \A c \in Clients :
        clients[c].auth # None /\ clients[c].call # p /\ ~clients[c].lost =>
          ~tokens'[clients[c].auth.token].revoked
  BY <1>1, <1>2, <1>3, <1>5, OthersKeep DEF Live
<1>7. Len(tokens) + 1 \notin DOMAIN tokens
  BY NextToken DEF Shape
<1>8. QED
  BY <1>2, <1>3, <1>6, <1>7, EndOwned

LEMMA ServeOwned ==
  ASSUME Shape, Safe, SeenOK, Owned, NEW p \in Threads, Serve(p) \/ Abort(p)
  PROVE  Owned'
<1>1. CASE LoginFail(p)
  BY <1>1, RefusedOwned DEF LoginFail
<1>2. CASE Abort(p)
  <2>1. UNCHANGED <<tokens, sessions>>
    BY <1>2 DEF Abort, rows
  <2>2. CASE End(p, None, 0)
    BY <2>1, <2>2, RefusedOwned
  <2>3. CASE ~End(p, None, 0)
    <3>1. PICK c \in Clients :
            /\ clients[c].call = p
            /\ jobs' = [jobs EXCEPT ![p] = None]
            /\ clients' = [clients EXCEPT ![c] =
                 [auth |-> IF Serves(p, "logout") THEN None ELSE @.auth, call |-> None,
                  lost |-> Serves(p, "refresh"), left |-> 0]]
      BY <1>2, <2>3 DEF Abort
    <3>2. QED
      BY <2>1, <3>1, NoAnswerOwned
  <2>4. QED
    BY <2>2, <2>3
<1>3. QED
  BY <1>1, <1>2, LoginReadOwned, LoginCommitOwned, RefreshLockOwned, RefreshCommitOwned,
     LogoutLockOwned, LogoutReadOwned, LogoutCommitOwned DEF Serve

LEMMA ActOwned ==
  ASSUME Shape, Owned, NEW c \in Clients, Act(c)
  PROVE  Owned'
<1>1. CASE GiveUp(c)
  <2>1. PICK p : p = clients[c].call
    OBVIOUS
  <2>2. p \in Threads
    BY <1>1, <2>1 DEF GiveUp, Shape, TypeOK, Client
  <2>3. /\ clients' = [clients EXCEPT ![c] =
            [auth |-> IF Serves(p, "logout") THEN None ELSE clients[c].auth, call |-> None,
             lost |-> Serves(p, "refresh"), left |-> 0]]
        /\ UNCHANGED <<rows, jobs>>
    BY <1>1, <2>1 DEF GiveUp
  <2>4. QED
    BY <2>1, <2>2, <2>3, NoAnswerOwned DEF rows
<1>2. ASSUME NEW p \in Threads, SendLogin(c, p) PROVE Owned'
  <2>1. PICK u \in Users, good \in BOOLEAN :
          Send(c, p, [op |-> "login", user |-> u, good |-> good, saw |-> None])
    BY <1>2 DEF SendLogin
  <2> DEFINE job == [op |-> "login", user |-> u, good |-> good, saw |-> None]
  <2>2. job \in Job /\ job.op = "login"
    BY DEF Job, Login
  <2>3. clients[c].auth = None
    BY <1>2 DEF SendLogin
  <2> HIDE DEF job
  <2>4. QED
    BY <2>1, <2>2, <2>3, SendOwned DEF job
<1>3. ASSUME NEW p \in Threads, SendRefresh(c, p) PROVE Owned'
  <2> DEFINE job == [op |-> "refresh", token |-> clients[c].auth.token, held |-> FALSE]
  <2>1. Send(c, p, job) /\ clients[c].auth # None
    BY <1>3 DEF SendRefresh
  <2>2. clients[c].auth \in Auth
    BY <2>1 DEF Shape, TypeOK, Client
  <2>3. job \in Job /\ job.op = "refresh" /\ job.token = clients[c].auth.token
    BY <2>2 DEF Job, Refresh, Auth
  <2> HIDE DEF job
  <2>4. QED
    BY <2>1, <2>3, SendOwned
<1>4. ASSUME NEW p \in Threads, SendLogout(c, p) PROVE Owned'
  <2> DEFINE job == [op |-> "logout", token |-> clients[c].auth.token, held |-> FALSE,
                     saw |-> None]
  <2>1. Send(c, p, job) /\ clients[c].auth # None
    BY <1>4 DEF SendLogout
  <2>2. clients[c].auth \in Auth
    BY <2>1 DEF Shape, TypeOK, Client
  <2>3. None \in {None} \cup SUBSET (1..MaxTokens) /\ clients[c].auth.token \in 1..MaxTokens
    BY <2>2 DEF Auth
  <2>4. job \in Logout /\ job.op = "logout" /\ job.token = clients[c].auth.token
    BY <2>3 DEF Logout
  <2> HIDE DEF job
  <2>5. job \in Job
    BY <2>4 DEF Job
  <2>6. QED
    BY <2>1, <2>4, <2>5, SendOwned
<1>5. QED
  BY <1>1, <1>2, <1>3, <1>4 DEF Act

LEMMA EnvironmentOwned ==
  ASSUME Shape, Owned, Environment
  PROVE  Owned'
<1>1. CASE UNCHANGED <<tokens, jobs, clients>> /\ DOMAIN sessions' = DOMAIN sessions
            /\ \A s \in DOMAIN sessions : sessions'[s].revoked = sessions[s].revoked
  BY <1>1, QuietOwned DEF Busy
<1>2. ASSUME NEW u \in Users, SetEnabled(u) \/ LockLapses(u) PROVE Owned'
  BY <1>1, <1>2 DEF SetEnabled, LockLapses
<1>3. ASSUME NEW s \in DOMAIN sessions, SessionLapses(s) PROVE Owned'
  <2>1. UNCHANGED <<tokens, jobs, clients>>
    BY <1>3 DEF SessionLapses
  <2>2. QED
    BY <1>1, <1>3, <2>1, SessionLapsesRows
<1>4. ASSUME NEW c \in Clients, AccessLapses(c) PROVE Owned'
  <2> DEFINE auth == [clients[c].auth EXCEPT !.jwt = FALSE]
             new == [clients[c] EXCEPT !.auth = auth]
  <2>1. clients \in [Clients -> Client] /\ clients' = [clients EXCEPT ![c] = new]
    BY <1>4 DEF AccessLapses, Shape, TypeOK
  <2>2. clients[c].auth \in Auth /\ clients[c].auth # None
    BY <1>4, <2>1 DEF AccessLapses, Client
  <2>3. auth \in Auth /\ auth.token = clients[c].auth.token
    BY <2>2 DEF Auth
  <2>4. auth # None
    BY <2>3, Bounds
  <2> HIDE DEF auth
  <2>5. /\ new.auth = auth /\ new.call = clients[c].call
        /\ new.lost = clients[c].lost /\ new.left = clients[c].left
    BY <2>1 DEF Client
  <2> HIDE DEF new
  <2>6. clients'[c] = new /\ \A d \in Clients \ {c} : clients'[d] = clients[d]
    BY <2>1
  <2>7. \A d \in Clients :
          /\ clients'[d].call = clients[d].call
          /\ clients'[d].lost = clients[d].lost
          /\ clients'[d].left = clients[d].left
          /\ clients'[d].auth = None <=> clients[d].auth = None
          /\ clients[d].auth # None => clients'[d].auth.token = clients[d].auth.token
    BY <2>2, <2>3, <2>4, <2>5, <2>6
  <2>8. UNCHANGED <<tokens, sessions, jobs>>
    BY <1>4 DEF AccessLapses, rows
  <2>9. QED
    BY <2>7, <2>8, QuietOwned DEF Busy
<1>5. QED
  BY <1>2, <1>3, <1>4 DEF Environment

LEMMA NextOwned ==
  ASSUME Shape, Safe, SeenOK, Owned, [Next]_vars
  PROVE  Owned'
<1>1. CASE UNCHANGED vars
  BY <1>1 DEF vars, rows, Owned, CallsOK, HoldersOK, LeftOK, Busy, Live
<1>2. QED
  BY <1>1, ServeOwned, ActOwned, EnvironmentOwned DEF Next

LEMMA InitOwned ==
  ASSUME Init
  PROVE  Owned
BY DEF Init, Owned, CallsOK, HoldersOK, LeftOK

\* What the clients hold stays consistent with the requests and the rows.
LEMMA OwnedAlways == Spec => []Owned
<1>1. Init => Shape /\ Safe /\ SeenOK /\ Owned
  <2>1. Init => SeenOK
    BY DEF Init, SeenOK, Serves, Busy
  <2>2. QED
    BY <2>1, InitShape, InitSafe, InitOwned
<1>2. Shape /\ Safe /\ SeenOK /\ Owned /\ [Next]_vars => (Shape /\ Safe /\ SeenOK /\ Owned)'
  BY NextShape, NextSafe, NextSeen, NextOwned
<1>3. QED
  BY <1>1, <1>2, PTL DEF Spec

\* A client whose refreshes were all answered holds the live token of its
\* session, whoever else refreshes, logs in or logs out (_refresh of the client,
\* the rotation of refresh).
THEOREM HolderLive == Spec => []HolderIsLive
<1>1. Owned => HolderIsLive
  BY DEF Owned, HoldersOK, HolderIsLive
<1>2. QED
  BY <1>1, OwnedAlways, PTL

\* A client that was answered logged_out, and whose refreshes had all been
\* answered, has left a closed session (logout answers so to a revoked token).
THEOREM LoggedOutClosed == Spec => []LoggedOutIsClosed
<1>1. Owned => LoggedOutIsClosed
  BY DEF Owned, LeftOK, LoggedOutIsClosed
<1>2. QED
  BY <1>1, OwnedAlways, PTL
=============================================================================
