----------------------- MODULE EventProjectionProofs -----------------------
(***************************************************************************)
(* Proofs about EventProjection, for any processes, threads, events, items *)
(* and bounds: type correctness, that rebuilds never take an event out of  *)
(* an item's projection, and that the row lock of shared-secret sources    *)
(* keeps their policy and their high-water mark in step with what is       *)
(* stored.                                                                 *)
(***************************************************************************)
EXTENDS EventProjection, WellFoundedInduction, TLAPS

-----------------------------------------------------------------------------
(* The inductive invariant. *)

SessionRow ==
  [req : Requests \cup {None}, from : SourceRow \cup {None},
   tail : StreamRow \cup {None}, seq : Nat,
   rows : [Items -> ProjRow \cup {None}], hit : SUBSET Items,
   item : Items \cup {None}, seen : ViewRow, todo : SUBSET Items]

\* What a session holds at each phase of its handler.
SessionOf(a) ==
  /\ phase[a] \in IngestPhases =>
       a \in Procs /\ txn[a].req \in Requests /\ txn[a].from \in SourceRow
  /\ phase[a] \in {"insert", "load", "select", "commit"} =>
       txn[a].tail \in StreamRow
  /\ phase[a] \in {"load", "select", "commit"} => txn[a].seq \in 1..nextSeq
  /\ phase[a] = "load" => ItemOf[txn[a].req.id] \in Items
  /\ phase[a] \in RebuildPhases => txn[a].item \in Items
  /\ \A i \in Items : txn[a].rows[i] # None => proj[i] # None

SessionOK ==
  /\ txn \in [Actors -> SessionRow]
  /\ \A a \in Actors : SessionOf(a)

\* A projection shows stored events only.
HistoryOK == \A i \in Items : view[i].events \subseteq StoredOf(i)

\* A rebuild that has claimed its row holds it, and what it has read of the log
\* contains what the projection shows.
ClaimOf(a) ==
  /\ phase[a] \in {"read", "apply"} => rowLock[txn[a].item] = a
  /\ phase[a] = "apply" =>
       /\ txn[a].seen.events \subseteq StoredOf(txn[a].item)
       /\ view[txn[a].item].events \subseteq txn[a].seen.events

ClaimOK == \A a \in Actors : ClaimOf(a)

\* A delivery of a shared-secret source holds the source row, which is as it was
\* when the delivery was admitted.
AdmittedOf(p) ==
  phase[p] \in IngestPhases /\ SourceOf[txn[p].req.id] \notin HmacSources =>
    LET s == SourceOf[txn[p].req.id] IN
    srcLock[s] = p /\ source[s] = txn[p].from /\ source[s].policy = "open"

AdmittedOK == \A p \in Procs : AdmittedOf(p)

IInv == TypeOK /\ SessionOK /\ HistoryOK /\ ClaimOK /\ AdmittedOK

-----------------------------------------------------------------------------
(* Arithmetic and rows. *)

NatLess == {q \in Nat \X Nat : q[1] < q[2]}

\* The order of the naturals as a relation is well founded.
LEMMA NatLessWellFounded == IsWellFoundedOn(NatLess, Nat)
<1>1. OpToRel(<, Nat) = NatLess
  BY DEF OpToRel, NatLess
<1> QED
  BY <1>1, NatLessThanWellFounded, Zenon

\* A non-empty set of naturals with an upper bound has a greatest element.
LEMMA MaximumExists ==
  ASSUME NEW n \in Nat, NEW T \in SUBSET (0..n), T # {}
  PROVE  \E m \in T : \A k \in T : k <= m
<1> DEFINE U == {u \in Nat : \A k \in T : k <= u}
<1>1. n \in U
  OBVIOUS
<1>2. PICK u \in U : \A y \in U : ~(<<y, u>> \in NatLess)
  <2>1. U \subseteq Nat /\ U # {}
    BY <1>1
  <2> HIDE DEF U
  <2> QED
    BY <2>1, NatLessWellFounded, WFMin, Zenon
<1>3. \A y \in U : ~(y < u)
  BY <1>2 DEF NatLess
<1>4. CASE u \in T
  BY <1>4, <1>2
<1>5. CASE u \notin T
  <2>1. \A k \in T : k \in Nat /\ k <= u /\ k # u
    BY <1>5, <1>2
  <2>2. u \in Nat /\ u - 1 \in Nat
    <3>1. PICK k \in T : TRUE
      OBVIOUS
    <3> QED
      BY <2>1, <3>1, <1>2
  <2>3. u - 1 \in U
    BY <2>1, <2>2
  <2> QED
    BY <2>2, <2>3, <1>3
<1> QED
  BY <1>4, <1>5

\* The newest ingest_seq among stored events is the ingest_seq of one of them.
LEMMA LatestIsNat ==
  ASSUME TypeOK, NEW S \in SUBSET Stored, S # {}
  PROVE  LatestOf(S) \in Nat
<1> DEFINE T == {raw[e].seq : e \in S}
<1>1. T \in SUBSET (0..nextSeq) /\ T # {} /\ nextSeq \in Nat
  BY DEF TypeOK, Stored
<1>2. PICK m \in T : \A k \in T : k <= m
  <2> HIDE DEF T
  <2> QED
    BY <1>1, MaximumExists
<1>3. \E n \in T : \A e \in S : raw[e].seq <= n
  BY <1>2
<1>4. LatestOf(S) \in T
  BY <1>3 DEF LatestOf
<1> QED
  BY <1>1, <1>4

\* A commit that changes the status leaves a row whose status is one of those
\* that are ever committed.
LEMMA EmitIsRow ==
  ASSUME NEW row, NEW loaded, NEW new \in ProjRow,
         row \in [latest : Nat, projected : Nat,
                  status : Status \cup {"rebuilding"}],
         row \in ProjRow \/ new.status # loaded.status
  PROVE  Emit(row, loaded, new) \in ProjRow
<1> DEFINE r == Emit(row, loaded, new)
<1>1. DOMAIN row = {"latest", "projected", "status"}
  BY DEF ProjRow
<1>2. r = [latest |-> r.latest, projected |-> r.projected, status |-> r.status]
  BY <1>1 DEF Emit
<1>3. r.latest \in Nat /\ r.projected \in Nat
  BY <1>1 DEF Emit, ProjRow
<1>4. r.status \in Status
  BY <1>1 DEF Emit, ProjRow
<1> HIDE DEF r
<1>5. r \in ProjRow
  BY <1>2, <1>3, <1>4 DEF ProjRow
<1> QED
  BY <1>5 DEF r

\* last_source_sequence is written over the source row only where it grew.
LEMMA EmitIsSource ==
  ASSUME NEW row \in SourceRow, NEW old \in SourceRow, NEW n \in Nat
  PROVE  LET new == [old EXCEPT !.last = Greater(@, n)] IN
         /\ Emit(row, old, new) \in SourceRow
         /\ Emit(row, old, new).policy = row.policy
         /\ row = old => row.last <= Emit(row, old, new).last
<1> DEFINE new == [old EXCEPT !.last = Greater(@, n)]
           r == Emit(row, old, new)
<1>1. DOMAIN row = {"policy", "last"}
  BY DEF SourceRow
<1>2. r = [policy |-> r.policy, last |-> r.last]
  BY <1>1 DEF Emit
<1>3. /\ new.policy = old.policy /\ new.last \in Nat /\ old.last <= new.last
  BY DEF SourceRow, Greater
<1> HIDE DEF new
<1>4. r.policy = row.policy /\ r.last \in Nat
  BY <1>1, <1>3 DEF Emit, SourceRow
<1>5. row = old => row.last <= r.last
  BY <1>1, <1>3 DEF Emit, SourceRow
<1> HIDE DEF r
<1>6. r \in SourceRow
  BY <1>2, <1>4 DEF SourceRow
<1> QED
  BY <1>4, <1>5, <1>6 DEF r, new

-----------------------------------------------------------------------------
(* A step of one actor: what it must establish to preserve the invariant. *)

\* What the step of actor p leaves to the others: their sessions, the rows they
\* have locked, the events that are stored and the rows that exist.
Frame(p) ==
  /\ txn' \in [Actors -> SessionRow]
  /\ \A a \in Actors \ {p} : txn'[a] = txn[a] /\ phase'[a] = phase[a]
  /\ nextSeq <= nextSeq'
  /\ \A i \in Items : proj[i] # None => proj'[i] # None
  /\ \A e \in Events : raw[e] # None => raw'[e] # None
  /\ \A a \in Actors \ {p}, i \in Items :
       rowLock[i] = a => rowLock'[i] = a /\ view'[i] = view[i]
  /\ \A q \in Procs \ {p}, s \in Sources \ HmacSources :
       srcLock[s] = q => srcLock'[s] = q /\ source'[s] = source[s]

\* An actor's own part of the invariant.
Own(a) == SessionOf(a) /\ ClaimOf(a) /\ (a \in Procs => AdmittedOf(a))

\* If a step keeps to its frame, the invariant of the other actors is kept.
LEMMA StepOfOne ==
  ASSUME IInv, NEW p \in Actors, TypeOK', Frame(p), HistoryOK', Own(p)'
  PROVE  IInv'
<1> USE DEF IInv, Frame
<1>1. \A a \in Actors \ {p} : SessionOf(a)'
  BY DEF TypeOK, SessionOK, SessionOf
<1>2. \A a \in Actors \ {p} : ClaimOf(a)'
  <2> SUFFICES ASSUME NEW a \in Actors \ {p}
               PROVE  ClaimOf(a)'
    OBVIOUS
  <2>1. ClaimOf(a) /\ SessionOf(a)
    BY DEF ClaimOK, SessionOK
  <2>2. \A i \in Items : StoredOf(i) \subseteq StoredOf(i)'
    BY DEF StoredOf, Stored
  <2>3. phase[a] \in {"read", "apply"} => txn[a].item \in Items
    BY <2>1 DEF SessionOf, RebuildPhases
  <2> QED
    BY <2>1, <2>2, <2>3 DEF ClaimOf
<1>3. \A q \in Procs \ {p} : AdmittedOf(q)'
  <2> SUFFICES ASSUME NEW q \in Procs \ {p}
               PROVE  AdmittedOf(q)'
    OBVIOUS
  <2>1. AdmittedOf(q) /\ q \in Actors \ {p}
    BY DEF AdmittedOK, Actors
  <2>2. phase[q] \in IngestPhases => SourceOf[txn[q].req.id] \in Sources
    BY <2>1, DomainAssumption DEF SessionOK, SessionOf
  <2> QED
    BY <2>1, <2>2 DEF AdmittedOf
<1>4. SessionOK' /\ ClaimOK' /\ AdmittedOK'
  BY <1>1, <1>2, <1>3 DEF Own, SessionOK, ClaimOK, AdmittedOK, Actors
<1> QED
  BY <1>4

\* An actor at rest, or between two items, owes nothing.
LEMMA AtRest ==
  ASSUME NEW a \in Actors, phase'[a] \in {"idle", "next", "boot", "down"},
         \A i \in Items : txn'[a].rows[i] = None
  PROVE  Own(a)'
BY DEF Own, SessionOf, ClaimOf, AdmittedOf, IngestPhases, RebuildPhases

\* The log only grows under a projection that does not change.
LEMMA SameHistory ==
  ASSUME HistoryOK, view' = view,
         \A e \in Events : raw[e] # None => raw'[e] # None
  PROVE  HistoryOK'
BY DEF HistoryOK, StoredOf, Stored

\* Actors are threads or processes, and none of them is None.
LEMMA ActorsDistinct ==
  /\ \A a \in Actors : a # None
  /\ Procs \subseteq Actors /\ Threads \subseteq Actors
BY NoneAssumption DEF Actors

\* What a delivery knows of its request.
LEMMA RequestOf ==
  ASSUME SessionOK, NEW p \in Procs, phase[p] \in IngestPhases
  PROVE  /\ txn[p].req \in Requests /\ txn[p].req.id \in Events
         /\ SourceOf[txn[p].req.id] \in Sources
         /\ ItemOf[txn[p].req.id] \in Items \cup {None}
         /\ NumberOf[txn[p].req.id] \in Nat
         /\ txn[p].from \in SourceRow
         /\ txn[p] \in SessionRow
BY DomainAssumption DEF SessionOK, SessionOf, Actors

\* The empty session is a session.
LEMMA NoSessionIsRow == NoSession \in SessionRow
BY DEF NoSession, SessionRow, EmptyView, ViewRow

-----------------------------------------------------------------------------
(* Each step preserves the invariant. *)

\* A refusal writes an answer and, for HMAC_V1, a nonce: nothing the invariant
\* is about.
LEMMA RefuseSafe ==
  ASSUME IInv, NEW p \in Procs, NEW r \in Requests, Refuse(p, r)
  PROVE  IInv'
<1> USE DEF IInv, Refuse
<1>1. TypeOK'
  BY DEF TypeOK, locks, Stored
<1>2. SessionOK'
  BY DEF SessionOK, SessionOf
<1>3. HistoryOK'
  BY DEF HistoryOK, StoredOf, Stored
<1>4. ClaimOK'
  BY DEF ClaimOK, ClaimOf, StoredOf, Stored, locks
<1>5. AdmittedOK'
  BY DEF AdmittedOK, AdmittedOf, locks
<1> QED
  BY <1>1, <1>2, <1>3, <1>4, <1>5

\* A shared-secret delivery takes the lock of its source, and loads its row.
LEMMA AdmitLegacySafe ==
  ASSUME IInv, NEW p \in Procs, NEW r \in Requests, AdmitLegacy(p, r)
  PROVE  IInv'
<1> USE DEF IInv, AdmitLegacy, Goto
<1> USE DomainAssumption, ActorsDistinct
<1>1. TypeOK'
  BY DEF TypeOK, database, Stored, Phases, IngestPhases
<1>2. txn' \in [Actors -> SessionRow]
  <2>1. txn[p] \in SessionRow /\ source[SourceOf[r.id]] \in SourceRow
    BY DEF SessionOK, TypeOK
  <2>2. [txn[p] EXCEPT !.req = r, !.from = source[SourceOf[r.id]]] \in SessionRow
    BY <2>1 DEF SessionRow
  <2> QED
    BY <2>2 DEF SessionOK
<1>3. Frame(p)
  BY <1>2 DEF Frame, TypeOK, SessionOK, database
<1>4. HistoryOK'
  BY SameHistory DEF database
<1>5. Own(p)'
  <2>1. SessionOf(p)'
    BY DEF SessionOK, SessionRow, SessionOf, TypeOK, IngestPhases,
           RebuildPhases, database
  <2>2. ClaimOf(p)'
    BY DEF ClaimOf, TypeOK
  <2>3. AdmittedOf(p)'
    BY DEF AdmittedOf, SessionOK, SessionRow, TypeOK, database
  <2> QED
    BY <2>1, <2>2, <2>3 DEF Own
<1> QED
  BY <1>1, <1>3, <1>4, <1>5, StepOfOne

\* An HMAC_V1 delivery commits its nonce and goes on without the lock.
LEMMA AdmitHmacSafe ==
  ASSUME IInv, NEW p \in Procs, NEW r \in Requests, AdmitHmac(p, r)
  PROVE  IInv'
<1> USE DEF IInv, AdmitHmac, Goto
<1> USE DomainAssumption, ActorsDistinct
<1>1. TypeOK'
  BY DEF TypeOK, locks, Stored, Phases, IngestPhases
<1>2. txn' \in [Actors -> SessionRow]
  <2>1. txn[p] \in SessionRow /\ source[SourceOf[r.id]] \in SourceRow
    BY DEF SessionOK, TypeOK
  <2>2. [txn[p] EXCEPT !.req = r, !.from = source[SourceOf[r.id]]] \in SessionRow
    BY <2>1 DEF SessionRow
  <2> QED
    BY <2>2 DEF SessionOK
<1>3. Frame(p)
  BY <1>2 DEF Frame, TypeOK, SessionOK, locks
<1>4. HistoryOK'
  BY SameHistory
<1>5. Own(p)'
  <2>1. SessionOf(p)'
    BY DEF SessionOK, SessionRow, SessionOf, TypeOK, IngestPhases,
           RebuildPhases
  <2>2. ClaimOf(p)'
    BY DEF ClaimOf, TypeOK
  <2>3. AdmittedOf(p)'
    BY DEF AdmittedOf, SessionOK, SessionRow, TypeOK
  <2> QED
    BY <2>1, <2>2, <2>3 DEF Own
<1> QED
  BY <1>1, <1>3, <1>4, <1>5, StepOfOne

\* The source row a delivery leaves behind.
LEMMA WithNumberSafe ==
  ASSUME TypeOK, SessionOK, NEW p \in Procs, phase[p] \in IngestPhases
  PROVE  /\ WithNumber(p) \in [Sources -> SourceRow]
         /\ \A s \in Sources :
              /\ WithNumber(p)[s].policy = source[s].policy
              /\ s # SourceOf[txn[p].req.id] => WithNumber(p)[s] = source[s]
              /\ source[s] = txn[p].from =>
                   source[s].last <= WithNumber(p)[s].last
<1> DEFINE e == txn[p].req.id
           t == SourceOf[e]
           new == [txn[p].from EXCEPT !.last = Greater(@, NumberOf[e])]
           row == Emit(source[t], txn[p].from, new)
<1>1. /\ t \in Sources /\ NumberOf[e] \in Nat /\ txn[p].from \in SourceRow
      /\ source \in [Sources -> SourceRow]
  BY RequestOf DEF TypeOK
<1>2. /\ row \in SourceRow /\ row.policy = source[t].policy
      /\ source[t] = txn[p].from => source[t].last <= row.last
  BY <1>1, EmitIsSource
<1>3. WithNumber(p) = [source EXCEPT ![t] = row]
  BY DEF WithNumber
<1>4. \A s \in Sources : source[s].last \in Nat
  BY <1>1 DEF SourceRow
<1> HIDE DEF row, t
<1> QED
  BY <1>1, <1>2, <1>3, <1>4 DEF t

\* Releasing the source rows of one delivery touches no other's.
LEMMA UnlockSafe ==
  ASSUME TypeOK, NEW p \in Procs, Unlock(p)
  PROVE  /\ srcLock' \in [Sources -> Procs \cup {None}]
         /\ \A q \in Procs \ {p}, s \in Sources :
              srcLock[s] = q => srcLock'[s] = q
BY DEF TypeOK, Unlock

\* A source row is written by the delivery that holds it, if anyone holds it.
LEMMA WriterHolds ==
  ASSUME IInv, NEW p \in Procs, phase[p] \in IngestPhases,
         NEW q \in Procs \ {p}, NEW s \in Sources \ HmacSources, srcLock[s] = q
  PROVE  s # SourceOf[txn[p].req.id]
BY DEF IInv, AdmittedOK, AdmittedOf

\* A duplicate or conflict writes the source row and ends the delivery.
LEMMA AnswerStoredSafe ==
  ASSUME IInv, NEW p \in Procs, AnswerStored(p)
  PROVE  IInv'
<1> USE DEF IInv, AnswerStored, Goto, Finish
<1> USE ActorsDistinct
<1>0. phase[p] \in IngestPhases
  BY DEF IngestPhases
<1>1. TypeOK'
  <2>1. source' \in [Sources -> SourceRow]
    BY <1>0, WithNumberSafe
  <2>2. srcLock' \in [Sources -> Procs \cup {None}]
    BY UnlockSafe
  <2> QED
    BY <2>1, <2>2 DEF TypeOK, Stored, Phases
<1>2. Frame(p)
  <2>1. txn' \in [Actors -> SessionRow]
    BY NoSessionIsRow DEF SessionOK
  <2>2. \A q \in Procs \ {p}, s \in Sources \ HmacSources :
          srcLock[s] = q => srcLock'[s] = q /\ source'[s] = source[s]
    BY <1>0, UnlockSafe, WithNumberSafe, WriterHolds
  <2> QED
    BY <2>1, <2>2 DEF Frame, TypeOK, SessionOK
<1>3. HistoryOK'
  BY SameHistory
<1>4. Own(p)'
  BY AtRest DEF NoSession, SessionOK, TypeOK
<1> QED
  BY <1>1, <1>2, <1>3, <1>4, StepOfOne

\* The tail of the stream is loaded without a lock.
LEMMA ReadStreamSafe ==
  ASSUME IInv, NEW p \in Procs, ReadStream(p)
  PROVE  IInv'
<1> USE DEF IInv, ReadStream, Goto
<1> USE ActorsDistinct
<1>0. /\ phase[p] \in IngestPhases /\ txn[p] \in SessionRow
      /\ SourceOf[txn[p].req.id] \in Sources
  BY RequestOf DEF IngestPhases
<1>1. TypeOK'
  BY DEF TypeOK, database, locks, Stored, Phases, IngestPhases
<1>2. Frame(p)
  <2>1. stream[SourceOf[txn[p].req.id]] \in StreamRow
    BY <1>0 DEF TypeOK
  <2>2. [txn[p] EXCEPT !.tail = stream[SourceOf[txn[p].req.id]]] \in SessionRow
    BY <1>0, <2>1 DEF SessionRow
  <2>3. txn' \in [Actors -> SessionRow]
    BY <2>2 DEF SessionOK
  <2> QED
    BY <2>3 DEF Frame, TypeOK, SessionOK, database, locks
<1>3. HistoryOK'
  BY SameHistory DEF database
<1>4. Own(p)'
  <2>1. SessionOf(p)'
    BY <1>0 DEF SessionOK, SessionRow, SessionOf, TypeOK, IngestPhases,
           RebuildPhases, database
  <2>2. ClaimOf(p)'
    BY DEF ClaimOf, TypeOK
  <2>3. AdmittedOf(p)'
    BY <1>0 DEF AdmittedOK, AdmittedOf, SessionOK, SessionRow, TypeOK, database,
                locks, IngestPhases
  <2> QED
    BY <2>1, <2>2, <2>3 DEF Own
<1> QED
  BY <1>1, <1>2, <1>3, <1>4, StepOfOne

\* An unhandled error gives back what the delivery held.
LEMMA AbortSafe ==
  ASSUME IInv, NEW p \in Procs, phase[p] \in IngestPhases, Abort(p),
         nextSeq' \in Nat, nextSeq <= nextSeq',
         UNCHANGED <<source, nonces, raw, stream, proj, view, rowLock, up, crashes>>
  PROVE  IInv'
<1> USE DEF IInv, Abort, Goto, Finish
<1> USE ActorsDistinct
<1>1. TypeOK'
  <2>1. srcLock' \in [Sources -> Procs \cup {None}]
    BY UnlockSafe
  <2>2. \A e \in Stored' : raw'[e].seq \in 1..nextSeq'
    BY DEF TypeOK, Stored
  <2> QED
    BY <2>1, <2>2 DEF TypeOK, Phases
<1>2. Frame(p)
  <2>1. txn' \in [Actors -> SessionRow]
    BY NoSessionIsRow DEF SessionOK
  <2>2. \A q \in Procs \ {p}, s \in Sources :
          srcLock[s] = q => srcLock'[s] = q
    BY UnlockSafe
  <2> QED
    BY <2>1, <2>2 DEF Frame, TypeOK, SessionOK
<1>3. HistoryOK'
  BY SameHistory
<1>4. Own(p)'
  BY AtRest DEF NoSession, SessionOK, TypeOK
<1> QED
  BY <1>1, <1>2, <1>3, <1>4, StepOfOne

\* The INSERT draws a number, or fails and gives everything back.
LEMMA InsertSafe ==
  ASSUME IInv, NEW p \in Procs, Insert(p)
  PROVE  IInv'
<1> USE DEF IInv, Insert
<1> USE ActorsDistinct
<1> DEFINE e == txn[p].req.id
<1>0. /\ phase[p] \in IngestPhases /\ phase[p] = "insert" /\ txn[p] \in SessionRow
      /\ ItemOf[e] \in Items \cup {None}
  BY RequestOf DEF IngestPhases
<1>a. nextSeq \in Nat /\ nextSeq' = nextSeq + 1
  BY DEF TypeOK
<1>b. CASE Abort(p)
  BY <1>0, <1>a, <1>b, AbortSafe
<1>c. CASE /\ txn' = [txn EXCEPT ![p].seq = nextSeq + 1]
           /\ Goto(p, IF ItemOf[e] = None THEN "select" ELSE "load")
           /\ UNCHANGED <<answers, srcLock>>
  <2> USE <1>c DEF Goto
  <2>1. TypeOK'
    <3>1. \A f \in Stored' : raw'[f].seq \in 1..nextSeq'
      BY <1>a DEF TypeOK, Stored
    <3> QED
      BY <1>a, <3>1 DEF TypeOK, Phases, IngestPhases
  <2>2. Frame(p)
    <3>1. [txn[p] EXCEPT !.seq = nextSeq + 1] \in SessionRow
      BY <1>0, <1>a DEF SessionRow
    <3>2. txn' \in [Actors -> SessionRow]
      BY <3>1 DEF SessionOK
    <3> QED
      BY <1>a, <3>2 DEF Frame, TypeOK, SessionOK
  <2>3. HistoryOK'
    BY SameHistory
  <2>4. Own(p)'
    <3>1. SessionOf(p)'
      BY <1>0, <1>a DEF SessionOK, SessionRow, SessionOf, TypeOK, IngestPhases,
             RebuildPhases
    <3>2. ClaimOf(p)'
      BY DEF ClaimOf, TypeOK
    <3>3. AdmittedOf(p)'
      BY <1>0 DEF AdmittedOK, AdmittedOf, SessionOK, SessionRow, TypeOK,
                  IngestPhases
    <3> QED
      BY <3>1, <3>2, <3>3 DEF Own
  <2> QED
    BY <2>1, <2>2, <2>3, <2>4, StepOfOne
<1> QED
  BY <1>b, <1>c

LEMMA LoadedRow ==
  ASSUME txn \in [Actors -> SessionRow], NEW a \in Actors, NEW i, NEW row,
         txn' = [txn EXCEPT ![a].rows[i] = row]
  PROVE  txn'[a].rows = [txn[a].rows EXCEPT ![i] = row]
<1> DEFINE x == [txn[a].rows EXCEPT ![i] = row]
<1>1. txn[a] \in SessionRow /\ txn'[a] = [txn[a] EXCEPT !.rows = x]
  OBVIOUS
<1> HIDE DEF x
<1>2. txn'[a].rows = x
  BY <1>1 DEF SessionRow
<1> QED
  BY <1>2 DEF x

\* The projection row of the item is loaded, or the delivery fails.
LEMMA LoadRowSafe ==
  ASSUME IInv, NEW p \in Procs, LoadRow(p)
  PROVE  IInv'
<1> USE DEF IInv, LoadRow
<1> USE ActorsDistinct
<1> DEFINE i == ItemOf[txn[p].req.id]
<1>0. /\ phase[p] \in IngestPhases /\ phase[p] = "load" /\ txn[p] \in SessionRow
      /\ i \in Items
  BY RequestOf DEF IngestPhases, SessionOK, SessionOf
<1>a. nextSeq \in Nat /\ nextSeq' = nextSeq
  BY DEF TypeOK
<1>b. CASE Abort(p)
  BY <1>0, <1>a, <1>b, AbortSafe
<1>c. CASE /\ proj[i] # None
           /\ txn' = [txn EXCEPT ![p].rows[i] = proj[i]]
           /\ Goto(p, "select")
           /\ UNCHANGED <<answers, srcLock>>
  <2> USE <1>c DEF Goto
  <2>1. TypeOK'
    BY DEF TypeOK, Stored, Phases, IngestPhases
  <2>2. Frame(p)
    <3>1. [txn[p] EXCEPT !.rows = [txn[p].rows EXCEPT ![i] = proj[i]]] \in SessionRow
      BY <1>0 DEF SessionRow, TypeOK
    <3>2. txn' \in [Actors -> SessionRow]
      BY <3>1 DEF SessionOK
    <3> QED
      BY <1>a, <3>2 DEF Frame, TypeOK, SessionOK
  <2>3. HistoryOK'
    BY SameHistory
  <2>4. Own(p)'
    <3>0. txn'[p] = [txn[p] EXCEPT !.rows = [txn[p].rows EXCEPT ![i] = proj[i]]]
      BY DEF SessionOK
    <3>1. SessionOf(p)'
      <4>1. SessionOf(p) /\ txn[p].rows \in [Items -> ProjRow \cup {None}]
        BY <1>0 DEF SessionOK, SessionRow
      <4>2. phase'[p] = "select" /\ proj' = proj
        BY DEF TypeOK
      <4>3. \A j \in Items : txn'[p].rows[j] # None => proj[j] # None
        <5>1. txn'[p].rows = [txn[p].rows EXCEPT ![i] = proj[i]]
          <6>1. txn \in [Actors -> SessionRow] /\ p \in Actors
            BY DEF SessionOK
          <6>2. txn' = [txn EXCEPT ![p].rows[i] = proj[i]]
            BY <1>c
          <6> HIDE <1>c DEF IInv, LoadRow, Goto, i
          <6> QED
            BY <6>1, <6>2, LoadedRow
        <5>2. \A j \in Items : txn[p].rows[j] # None => proj[j] # None
          BY <4>1 DEF SessionOf
        <5>3. \A j \in Items :
                txn'[p].rows[j] = IF j = i THEN proj[j] ELSE txn[p].rows[j]
          BY <4>1, <5>1
        <5> QED
          BY <5>2, <5>3
      <4>4. txn'[p].req = txn[p].req /\ txn'[p].from = txn[p].from /\ txn'[p].tail = txn[p].tail
            /\ txn'[p].seq = txn[p].seq /\ txn'[p].item = txn[p].item
        BY <1>0, <3>0 DEF SessionRow
      <4> QED
        BY <1>0, <1>a, <4>1, <4>2, <4>3, <4>4 DEF SessionOf, IngestPhases, RebuildPhases
    <3>2. ClaimOf(p)'
      BY DEF ClaimOf, TypeOK
    <3>3. AdmittedOf(p)'
      BY <1>0, <3>0 DEF AdmittedOK, AdmittedOf, SessionOK, SessionRow, TypeOK,
                  IngestPhases
    <3> QED
      BY <3>1, <3>2, <3>3 DEF Own
  <2> QED
    BY <2>1, <2>2, <2>3, <2>4, StepOfOne
<1> QED
  BY <1>b, <1>c

\* The rows of the items an invalidation covers are loaded.
LEMMA SelectAffectedSafe ==
  ASSUME IInv, NEW p \in Procs, SelectAffected(p)
  PROVE  IInv'
<1> USE DEF IInv, SelectAffected, Goto
<1> USE ActorsDistinct
<1> DEFINE hit == {i \in Items : view[i].events \cap Covers[txn[p].req.id] # {}}
           rows == [i \in Items |-> IF i \in hit /\ txn[p].rows[i] = None
                                    THEN proj[i] ELSE txn[p].rows[i]]
<1>0. phase[p] \in IngestPhases /\ txn[p] \in SessionRow /\ txn \in [Actors -> SessionRow]
  BY RequestOf DEF IngestPhases, SessionOK
<1>a. txn' = [txn EXCEPT ![p] = [txn[p] EXCEPT !.hit = hit, !.rows = rows]]
  BY <1>0
<1>b. rows \in [Items -> ProjRow \cup {None}] /\ hit \subseteq Items
  BY <1>0 DEF TypeOK, SessionRow
<1>c. \A i \in Items : rows[i] # None => proj[i] # None
  BY DEF SessionOK, SessionOf
<1> HIDE DEF hit, rows
<1>1. TypeOK'
  BY DEF TypeOK, database, locks, Stored, Phases, IngestPhases
<1>2. Frame(p)
  <2>2. [txn[p] EXCEPT !.hit = hit, !.rows = rows] \in SessionRow
    BY <1>0, <1>b DEF SessionRow
  <2>3. txn' \in [Actors -> SessionRow]
    BY <1>0, <1>a, <2>2
  <2> QED
    BY <1>a, <2>3 DEF Frame, TypeOK, SessionOK, database, locks
<1>3. HistoryOK'
  BY SameHistory DEF database
<1>4. Own(p)'
  <2>0. txn'[p] = [txn[p] EXCEPT !.hit = hit, !.rows = rows]
    BY <1>0, <1>a
  <2>1. SessionOf(p)'
    BY <1>0, <1>c, <2>0 DEF SessionOK, SessionRow, SessionOf, TypeOK, IngestPhases,
           RebuildPhases, database
  <2>2. ClaimOf(p)'
    BY DEF ClaimOf, TypeOK
  <2>3. AdmittedOf(p)'
    BY <1>0, <2>0 DEF AdmittedOK, AdmittedOf, SessionOK, SessionRow, TypeOK, database,
                locks, IngestPhases
  <2> QED
    BY <2>1, <2>2, <2>3 DEF Own
<1> QED
  BY <1>1, <1>2, <1>3, <1>4, StepOfOne

\* The projection rows a delivery leaves: those it loaded exist, and stay rows.
LEMMA StaleRowsSafe ==
  ASSUME TypeOK, SessionOK, NEW p \in Procs, phase[p] = "commit",
         NEW i \in Items, i \in Touched(p)
  PROVE  /\ Emit(proj[i], txn[p].rows[i], MarkedStale(p, i)) \in ProjRow
         /\ proj[i] # None
<1> DEFINE old == txn[p].rows[i]
<1>1. txn[p] \in SessionRow /\ SessionOf(p)
  BY ActorsDistinct DEF SessionOK
<1>2. old \in ProjRow
  BY <1>1 DEF SessionRow, Touched
<1>3. txn[p].seq \in Nat
  BY <1>1 DEF SessionRow
<1>4. MarkedStale(p, i) \in ProjRow
  BY <1>2, <1>3 DEF MarkedStale, ProjRow, Status, Greater
<1>5. proj[i] # None
  BY <1>1 DEF SessionOf, Touched
<1>6. proj[i] \in ProjRow
  BY <1>5 DEF TypeOK
<1>7. proj[i] \in [latest : Nat, projected : Nat, status : Status \cup {"rebuilding"}]
  BY <1>6 DEF ProjRow
<1> QED
  BY <1>4, <1>5, <1>6, <1>7, EmitIsRow

\* The commit of a delivery: every table it writes keeps its type, and the
\* rebuild that follows starts at rest.
LEMMA CommitEventSafe ==
  ASSUME IInv, NEW p \in Procs, CommitEvent(p)
  PROVE  IInv'
<1> USE DEF IInv, CommitEvent, Goto
<1> USE ActorsDistinct
<1> DEFINE r == txn[p].req
           e == r.id
<1>0. /\ phase[p] \in IngestPhases /\ phase[p] = "commit" /\ txn[p] \in SessionRow
      /\ r \in Requests /\ e \in Events /\ ItemOf[e] \in Items \cup {None}
      /\ txn[p].tail \in StreamRow /\ txn[p].seq \in 1..nextSeq
      /\ SourceOf[e] \in Sources
  BY RequestOf DEF IngestPhases, SessionOK, SessionOf
<1>a. /\ raw' \in [Events -> RawRow \cup {None}]
      /\ \A f \in Stored' : raw'[f].seq \in 1..nextSeq'
      /\ \A f \in Events : raw[f] # None => raw'[f] # None
  <2> DEFINE row == [body |-> r.body, seq |-> txn[p].seq,
                     place |-> txn[p].tail.seq + 1, prev |-> txn[p].tail.mac]
  <2>1. row \in RawRow /\ row.seq \in 1..nextSeq
    BY <1>0 DEF RawRow, StreamRow, TypeOK
  <2>2. row # None
    BY <2>1, NoneAssumption
  <2>3. raw' = [raw EXCEPT ![e] = row]
    OBVIOUS
  <2> HIDE DEF row
  <2> QED
    BY <1>0, <2>1, <2>2, <2>3 DEF TypeOK, Stored
<1>b. /\ proj' \in [Items -> ProjRow \cup {None}]
      /\ \A i \in Items : proj[i] # None => proj'[i] # None
  <2>1. \A i \in Items : i \in Touched(p) => proj'[i] \in ProjRow
    BY <1>0, StaleRowsSafe
  <2>2. \A i \in Items : i \notin Touched(p) => proj'[i] = proj[i]
    OBVIOUS
  <2>3. None \notin ProjRow
    BY NoneAssumption
  <2>4. proj' = [i \in Items |-> proj'[i]]
    OBVIOUS
  <2> QED
    BY <2>1, <2>2, <2>3, <2>4 DEF TypeOK
<1>c. stream' \in [Sources -> StreamRow]
  BY <1>0 DEF TypeOK, StreamRow
<1>d. txn' \in [Actors -> SessionRow] /\ \A i \in Items : txn'[p].rows[i] = None
  <2>1. [NoSession EXCEPT !.todo = txn[p].hit, !.item = ItemOf[e]] \in SessionRow
    BY <1>0, NoSessionIsRow DEF SessionRow
  <2> QED
    BY <2>1 DEF SessionOK, NoSession
<1>1. TypeOK'
  <2>1. source' \in [Sources -> SourceRow]
    BY <1>0, WithNumberSafe
  <2>2. srcLock' \in [Sources -> Procs \cup {None}]
    BY UnlockSafe
  <2>3. phase' \in [Actors -> Phases]
    BY DEF TypeOK, Phases, RebuildPhases
  <2> QED
    BY <2>1, <2>2, <2>3, <1>a, <1>b, <1>c DEF TypeOK
<1>2. Frame(p)
  <2>1. \A q \in Procs \ {p}, s \in Sources \ HmacSources :
          srcLock[s] = q => srcLock'[s] = q /\ source'[s] = source[s]
    BY <1>0, UnlockSafe, WithNumberSafe, WriterHolds
  <2>2. \A a \in Actors \ {p} : txn'[a] = txn[a] /\ phase'[a] = phase[a]
    BY DEF SessionOK, TypeOK
  <2>3. nextSeq <= nextSeq'
    BY DEF TypeOK
  <2> QED
    BY <2>1, <2>2, <2>3, <1>a, <1>b, <1>d DEF Frame
<1>3. HistoryOK'
  BY <1>a, SameHistory
<1>4. Own(p)'
  <2>1. phase'[p] = IF ItemOf[e] = None THEN "next" ELSE "open"
    BY DEF TypeOK
  <2>2. txn'[p].item = ItemOf[e]
    BY DEF SessionOK, NoSession
  <2>3. SessionOf(p)'
    BY <2>1, <2>2, <1>0, <1>d DEF SessionOf, IngestPhases, RebuildPhases
  <2>4. ClaimOf(p)' /\ AdmittedOf(p)'
    BY <2>1 DEF ClaimOf, AdmittedOf, IngestPhases
  <2> QED
    BY <2>3, <2>4 DEF Own
<1> QED
  BY <1>1, <1>2, <1>3, <1>4, StepOfOne

\* The session of an actor that rebuilds an item.
LEMMA RebuildOf ==
  ASSUME SessionOK, NEW a \in Actors, phase[a] \in RebuildPhases
  PROVE  txn[a] \in SessionRow /\ txn[a].item \in Items
BY DEF SessionOK, SessionOf

\* A rebuild loads its row before it locks it.
LEMMA OpenRowSafe ==
  ASSUME IInv, NEW a \in Actors, OpenRow(a)
  PROVE  IInv'
<1> USE DEF IInv, OpenRow, Goto
<1> DEFINE i == txn[a].item
<1>0. phase[a] = "open" /\ txn[a] \in SessionRow /\ i \in Items
  BY RebuildOf DEF RebuildPhases
<1>1. TypeOK'
  BY DEF TypeOK, database, locks, Stored, Phases, RebuildPhases
<1>2. Frame(a)
  <2>1. [txn[a] EXCEPT !.rows = [txn[a].rows EXCEPT ![i] = proj[i]]] \in SessionRow
    BY <1>0 DEF SessionRow, TypeOK
  <2>2. txn' \in [Actors -> SessionRow]
    BY <2>1 DEF SessionOK
  <2> QED
    BY <2>2 DEF Frame, TypeOK, SessionOK, database, locks
<1>3. HistoryOK'
  BY SameHistory DEF database
<1>4. Own(a)'
  <2>0. txn'[a] = [txn[a] EXCEPT !.rows = [txn[a].rows EXCEPT ![i] = proj[i]]]
    BY DEF SessionOK
  <2>1. SessionOf(a)'
    BY <1>0, <2>0 DEF SessionOK, SessionRow, SessionOf, TypeOK, IngestPhases,
           RebuildPhases, database
  <2>2. ClaimOf(a)' /\ (a \in Procs => AdmittedOf(a)')
    BY DEF ClaimOf, AdmittedOf, IngestPhases, TypeOK
  <2> QED
    BY <2>1, <2>2 DEF Own
<1> QED
  BY <1>1, <1>2, <1>3, <1>4, StepOfOne

\* The claim takes a row lock nobody holds.
LEMMA ClaimRowSafe ==
  ASSUME IInv, NEW a \in Actors, ClaimRow(a)
  PROVE  IInv'
<1> USE DEF IInv, ClaimRow, Goto
<1> USE ActorsDistinct
<1>0. phase[a] = "claim" /\ txn[a] \in SessionRow /\ txn[a].item \in Items
  BY RebuildOf DEF RebuildPhases
<1>a. phase' \in [Actors -> Phases] /\ phase'[a] \in {"failing", "read"}
  BY DEF TypeOK, Phases, RebuildPhases
<1>1. TypeOK'
  BY <1>0, <1>a DEF TypeOK, database, Stored
<1>2. Frame(a)
  BY <1>0 DEF Frame, TypeOK, SessionOK, database
<1>3. HistoryOK'
  BY SameHistory DEF database
<1>4. Own(a)'
  <2>1. SessionOf(a)'
    BY <1>0, <1>a DEF SessionOK, SessionOf, IngestPhases, RebuildPhases, database
  <2>2. ClaimOf(a)'
    BY <1>0 DEF ClaimOf, TypeOK
  <2>3. a \in Procs => AdmittedOf(a)'
    BY <1>a DEF AdmittedOf, IngestPhases
  <2> QED
    BY <2>1, <2>2, <2>3 DEF Own
<1> QED
  BY <1>1, <1>2, <1>3, <1>4, StepOfOne

\* What a rebuild reads contains what the projection shows.
LEMMA ReadEventsSafe ==
  ASSUME IInv, NEW a \in Actors, ReadEvents(a)
  PROVE  IInv'
<1> USE DEF IInv, ReadEvents, Goto
<1> DEFINE now == StoredOf(txn[a].item)
           seen == [events |-> now,
                    voided |-> {o \in now : \E v \in Stored : o \in Covers[v]}]
<1>0. /\ phase[a] = "read" /\ txn[a] \in SessionRow /\ txn[a].item \in Items
      /\ rowLock[txn[a].item] = a
  BY RebuildOf DEF RebuildPhases, ClaimOK, ClaimOf
<1>a. seen \in ViewRow /\ seen.events = now
  BY DEF ViewRow, StoredOf, Stored
<1>b. txn' = [txn EXCEPT ![a] = [txn[a] EXCEPT !.seen = seen]]
  OBVIOUS
<1>1. TypeOK'
  BY DEF TypeOK, database, locks, Stored, Phases, RebuildPhases
<1> HIDE DEF seen
<1>2. Frame(a)
  <2>1. [txn[a] EXCEPT !.seen = seen] \in SessionRow
    BY <1>0, <1>a DEF SessionRow
  <2>2. txn' \in [Actors -> SessionRow]
    BY <1>b, <2>1 DEF SessionOK
  <2> QED
    BY <2>2, <1>b DEF Frame, TypeOK, SessionOK, database, locks
<1>3. HistoryOK'
  BY SameHistory DEF database
<1>4. Own(a)'
  <2>0. txn'[a] = [txn[a] EXCEPT !.seen = seen] /\ phase'[a] = "apply"
    BY <1>b DEF SessionOK, TypeOK
  <2>1. SessionOf(a)'
    BY <1>0, <2>0 DEF SessionOK, SessionRow, SessionOf, IngestPhases,
           RebuildPhases, database
  <2>2. ClaimOf(a)'
    <3>1. txn'[a].item = txn[a].item /\ txn'[a].seen.events = now
      BY <1>0, <1>a, <2>0 DEF SessionRow
    <3>2. StoredOf(txn[a].item)' = now
      BY <1>0, <2>0 DEF StoredOf, Stored, database, SessionRow
    <3>3. view[txn[a].item].events \subseteq now
      BY <1>0 DEF HistoryOK
    <3> QED
      BY <1>0, <3>1, <3>2, <3>3 DEF ClaimOf, database, locks, StoredOf, Stored
  <2>3. a \in Procs => AdmittedOf(a)'
    BY <2>0 DEF AdmittedOf, IngestPhases
  <2> QED
    BY <2>1, <2>2, <2>3 DEF Own
<1> QED
  BY <1>1, <1>2, <1>3, <1>4, StepOfOne

\* An actor that has failed, or finished, keeps its rebuild list only.
LEMMA RestOfList ==
  ASSUME SessionOK, NEW a \in Actors,
         txn' = [txn EXCEPT ![a] = [NoSession EXCEPT !.todo = txn[a].todo]]
  PROVE  /\ txn' \in [Actors -> SessionRow]
         /\ \A i \in Items : txn'[a].rows[i] = None
         /\ \A b \in Actors \ {a} : txn'[b] = txn[b]
<1>1. txn[a] \in SessionRow
  BY DEF SessionOK
<1>2. [NoSession EXCEPT !.todo = txn[a].todo] \in SessionRow
  BY <1>1, NoSessionIsRow DEF SessionRow
<1> QED
  BY <1>2 DEF SessionOK, NoSession

\* The projection row a rebuild commits is a row.
LEMMA RebuiltRowSafe ==
  ASSUME IInv, NEW a \in Actors, phase[a] = "apply", NEW i \in Items, i = txn[a].item
  PROVE  LET new == [FreshRow EXCEPT !.status = "rebuilding"]
             loaded == IF txn[a].rows[i] = None THEN new
                       ELSE [txn[a].rows[i] EXCEPT !.status = "rebuilding"]
             row == IF proj[i] = None THEN new ELSE proj[i]
         IN  Emit(row, loaded, Rebuilt(a, loaded)) \in ProjRow
<1> DEFINE new == [FreshRow EXCEPT !.status = "rebuilding"]
           loaded == IF txn[a].rows[i] = None THEN new
                     ELSE [txn[a].rows[i] EXCEPT !.status = "rebuilding"]
           row == IF proj[i] = None THEN new ELSE proj[i]
           Busy == [latest : Nat, projected : Nat,
                    status : Status \cup {"rebuilding"}]
<1>1. /\ TypeOK /\ txn[a] \in SessionRow
      /\ txn[a].seen.events \in SUBSET Stored
  BY DEF IInv, SessionOK, ClaimOK, ClaimOf, StoredOf
<1>2. new \in Busy
  BY DEF FreshRow
<1>3. loaded \in Busy /\ loaded.status = "rebuilding"
  BY <1>1, <1>2 DEF SessionRow, ProjRow, FreshRow
<1>4. row \in Busy
  BY <1>1, <1>2 DEF TypeOK, ProjRow
<1> HIDE DEF new, loaded, row
<1>5. Rebuilt(a, loaded) \in ProjRow
  <2>1. CASE txn[a].seen.events = {}
    BY <2>1, <1>3 DEF Rebuilt, ProjRow, Status
  <2>2. CASE txn[a].seen.events # {}
    <3>1. LatestOf(txn[a].seen.events) \in Nat
      BY <2>2, <1>1, LatestIsNat
    <3> QED
      BY <2>2, <3>1 DEF Rebuilt, ProjRow, Status
  <2> QED
    BY <2>1, <2>2
<1>6. Rebuilt(a, loaded).status # loaded.status
  BY <1>3, <1>5 DEF ProjRow, Status
<1>7. Emit(row, loaded, Rebuilt(a, loaded)) \in ProjRow
  BY <1>4, <1>5, <1>6, EmitIsRow
<1> QED
  BY <1>7 DEF new, loaded, row

\* The commit of a rebuild writes the rows it holds, from stored events.
LEMMA CommitRebuildSafe ==
  ASSUME IInv, NEW a \in Actors, CommitRebuild(a)
  PROVE  IInv'
<1> USE DEF IInv, CommitRebuild, Goto
<1> USE ActorsDistinct
<1> DEFINE i == txn[a].item
<1>0. /\ phase[a] = "apply" /\ txn[a] \in SessionRow /\ i \in Items
      /\ rowLock[i] = a /\ txn[a].seen.events \subseteq StoredOf(i)
      /\ txn[a].seen \in ViewRow
  BY RebuildOf DEF RebuildPhases, ClaimOK, ClaimOf, SessionRow
<1>a. /\ proj' \in [Items -> ProjRow \cup {None}]
      /\ \A j \in Items : proj[j] # None => proj'[j] # None
  <2>1. proj'[i] \in ProjRow /\ \A j \in Items \ {i} : proj'[j] = proj[j]
    BY <1>0, RebuiltRowSafe DEF TypeOK
  <2>2. None \notin ProjRow
    BY NoneAssumption
  <2>3. \E x : proj' = [proj EXCEPT ![i] = x]
    OBVIOUS
  <2> QED
    BY <2>1, <2>2, <2>3, <1>0 DEF TypeOK
<1>b. /\ view' \in [Items -> ViewRow]
      /\ \A j \in Items \ {i} : view'[j] = view[j]
      /\ view'[i] = view[i] \/ view'[i] = txn[a].seen
  BY <1>0 DEF TypeOK
<1>c. phase' \in [Actors -> Phases] /\ phase'[a] \in {"next", "idle"}
  BY DEF TypeOK, Phases, AfterRebuild
<1>1. TypeOK'
  BY <1>0, <1>a, <1>b, <1>c DEF TypeOK, Stored
<1>2. Frame(a)
  <2>1. /\ txn' \in [Actors -> SessionRow]
        /\ \A b \in Actors \ {a} : txn'[b] = txn[b] /\ phase'[b] = phase[b]
    BY RestOfList DEF TypeOK
  <2>2. \A b \in Actors \ {a}, j \in Items :
          rowLock[j] = b => rowLock'[j] = b /\ view'[j] = view[j]
    BY <1>0, <1>b DEF TypeOK
  <2>3. nextSeq <= nextSeq'
    BY DEF TypeOK
  <2> QED
    BY <2>1, <2>2, <2>3, <1>a DEF Frame
<1>3. HistoryOK'
  BY <1>0, <1>b DEF HistoryOK, StoredOf, Stored
<1>4. Own(a)'
  BY <1>c, AtRest, RestOfList
<1> QED
  BY <1>1, <1>2, <1>3, <1>4, StepOfOne

\* A rebuild that raises rolls back and frees its row.
LEMMA FailRebuildSafe ==
  ASSUME IInv, NEW a \in Actors, FailRebuild(a)
  PROVE  IInv'
<1> USE DEF IInv, FailRebuild, Goto
<1> USE ActorsDistinct
<1>0. /\ phase[a] \in {"read", "apply"} /\ txn[a].item \in Items
      /\ rowLock[txn[a].item] = a
  BY RebuildOf DEF RebuildPhases, ClaimOK, ClaimOf
<1>1. TypeOK'
  BY <1>0 DEF TypeOK, database, Stored, Phases, RebuildPhases
<1>2. Frame(a)
  BY <1>0 DEF Frame, TypeOK, SessionOK, database
<1>3. HistoryOK'
  BY SameHistory DEF database
<1>4. Own(a)'
  <2>1. phase'[a] = "failing"
    BY DEF TypeOK
  <2>2. SessionOf(a)'
    BY <1>0, <2>1 DEF SessionOK, SessionOf, IngestPhases, RebuildPhases, database
  <2> QED
    BY <2>1, <2>2 DEF Own, ClaimOf, AdmittedOf, IngestPhases
<1> QED
  BY <1>1, <1>2, <1>3, <1>4, StepOfOne

\* The failure is recorded on the row, in a transaction of its own.
LEMMA MarkFailedSafe ==
  ASSUME IInv, NEW a \in Actors, MarkFailed(a)
  PROVE  IInv'
<1> USE DEF IInv, MarkFailed, Goto
<1> USE ActorsDistinct
<1> DEFINE i == txn[a].item
           row == IF proj[i] = None THEN [FreshRow EXCEPT !.status = "failed"]
                  ELSE [proj[i] EXCEPT !.status = "failed"]
<1>0. i \in Items
  BY RebuildOf DEF RebuildPhases
<1>a. row \in ProjRow
  BY <1>0 DEF TypeOK, FreshRow, ProjRow, Status
<1>b. row # None
  BY <1>a, NoneAssumption
<1>c. proj' = [proj EXCEPT ![i] = row]
  OBVIOUS
<1>d. phase' \in [Actors -> Phases] /\ phase'[a] \in {"next", "idle"}
  BY DEF TypeOK, Phases, AfterRebuild
<1> HIDE DEF row
<1>e. proj' \in [Items -> ProjRow \cup {None}]
      /\ \A j \in Items : proj[j] # None => proj'[j] # None
  BY <1>0, <1>a, <1>b, <1>c DEF TypeOK
<1>1. TypeOK'
  BY <1>e, <1>d DEF TypeOK, Stored, locks
<1>2. Frame(a)
  <2>1. /\ txn' \in [Actors -> SessionRow]
        /\ \A b \in Actors \ {a} : txn'[b] = txn[b] /\ phase'[b] = phase[b]
    BY RestOfList DEF TypeOK
  <2>2. nextSeq <= nextSeq'
    BY DEF TypeOK
  <2> QED
    BY <2>1, <2>2, <1>e DEF Frame, locks
<1>3. HistoryOK'
  BY SameHistory
<1>4. Own(a)'
  BY <1>d, AtRest, RestOfList
<1> QED
  BY <1>1, <1>2, <1>3, <1>4, StepOfOne

\* The loop takes the next item, or ends and the process serves.
LEMMA NextItemSafe ==
  ASSUME IInv, NEW p \in Procs, NextItem(p)
  PROVE  IInv'
<1> USE DEF Goto, Finish
<1> USE ActorsDistinct
<1>0. /\ TypeOK /\ SessionOK /\ phase[p] = "next" /\ txn[p] \in SessionRow
      /\ UNCHANGED <<database, locks, crashes>>
  BY DEF IInv, NextItem, SessionOK
<1>3. HistoryOK'
  BY <1>0, SameHistory DEF IInv, database
<1>a. ASSUME up' = [up EXCEPT ![p] = TRUE], Finish(p, "idle")
      PROVE  IInv'
  <2>1. TypeOK'
    BY <1>0, <1>a DEF TypeOK, database, locks, Stored, Phases
  <2>2. /\ txn' \in [Actors -> SessionRow]
        /\ \A a \in Actors \ {p} : txn'[a] = txn[a] /\ phase'[a] = phase[a]
    BY <1>0, <1>a, NoSessionIsRow DEF TypeOK, SessionOK
  <2>3. Frame(p)
    BY <1>0, <2>2 DEF Frame, TypeOK, database, locks
  <2>4. Own(p)'
    BY <1>0, <1>a, AtRest DEF NoSession, SessionOK, TypeOK
  <2> QED
    BY <2>1, <2>3, <2>4, <1>3, StepOfOne
<1>b. ASSUME NEW i \in txn[p].todo,
             txn' = [txn EXCEPT ![p] = [txn[p] EXCEPT !.item = i,
                                          !.todo = txn[p].todo \ {i}]],
             Goto(p, "open"),
             UNCHANGED up
      PROVE  IInv'
  <2> DEFINE row == [txn[p] EXCEPT !.item = i, !.todo = txn[p].todo \ {i}]
  <2>0. i \in Items
    BY <1>0 DEF SessionRow
  <2>1. TypeOK'
    BY <1>0, <1>b DEF TypeOK, database, locks, Stored, Phases, RebuildPhases
  <2>2. row \in SessionRow /\ row.item = i /\ row.rows = txn[p].rows
    BY <1>0, <2>0 DEF SessionRow
  <2>3. txn' = [txn EXCEPT ![p] = row]
    BY <1>b
  <2> HIDE DEF row
  <2>4. /\ txn' \in [Actors -> SessionRow] /\ txn'[p] = row /\ phase'[p] = "open"
        /\ \A a \in Actors \ {p} : txn'[a] = txn[a] /\ phase'[a] = phase[a]
    <3>1. txn \in [Actors -> SessionRow] /\ p \in Actors
      BY <1>0 DEF SessionOK
    <3>2. /\ phase'[p] = "open"
          /\ \A a \in Actors \ {p} : phase'[a] = phase[a]
      BY <1>0, <1>b DEF TypeOK
    <3> QED
      BY <2>2, <2>3, <3>1, <3>2
  <2>5. Frame(p)
    BY <1>0, <2>4 DEF Frame, TypeOK, database, locks
  <2>6. Own(p)'
    <3>1. SessionOf(p)'
      BY <1>0, <2>0, <2>2, <2>4 DEF SessionOK, SessionOf, IngestPhases,
                                    RebuildPhases, database
    <3> QED
      BY <2>4, <3>1 DEF Own, ClaimOf, AdmittedOf, IngestPhases
  <2> QED
    BY <2>1, <2>5, <2>6, <1>3, StepOfOne
<1> QED
  BY <1>a, <1>b DEF NextItem

\* An admin rebuild starts in a thread at rest.
LEMMA AdminRebuildSafe ==
  ASSUME IInv, NEW t \in Threads, NEW i \in Items, AdminRebuild(t, i)
  PROVE  IInv'
<1> USE DEF IInv, AdminRebuild, Goto
<1> USE ActorsDistinct
<1>1. TypeOK'
  BY DEF TypeOK, database, locks, Stored, Phases, RebuildPhases
<1>2. txn' \in [Actors -> SessionRow] /\ txn'[t] = [txn[t] EXCEPT !.item = i]
  <2>1. txn[t] \in SessionRow
    BY DEF SessionOK
  <2>2. [txn[t] EXCEPT !.item = i] \in SessionRow
    BY <2>1 DEF SessionRow
  <2> QED
    BY <2>2 DEF SessionOK
<1>3. Frame(t)
  BY <1>2 DEF Frame, TypeOK, SessionOK, database, locks
<1>4. HistoryOK'
  BY SameHistory DEF database
<1>5. Own(t)'
  <2>1. phase'[t] = "open"
    BY DEF TypeOK
  <2>2. txn'[t].item = i /\ txn'[t].rows = txn[t].rows
    BY <1>2 DEF SessionOK, SessionRow
  <2>3. SessionOf(t)'
    BY <2>1, <2>2 DEF SessionOK, SessionOf, IngestPhases, RebuildPhases, database
  <2> QED
    BY <2>1, <2>3 DEF Own, ClaimOf, AdmittedOf, IngestPhases
<1> QED
  BY <1>1, <1>3, <1>4, <1>5, StepOfOne

\* Startup recovery selects its items.
LEMMA BootSafe ==
  ASSUME IInv, NEW p \in Procs, Boot(p)
  PROVE  IInv'
<1> USE DEF IInv, Boot, Goto
<1> USE ActorsDistinct
<1> DEFINE list == {i \in Items : Flagged(i)}
<1>1. TypeOK'
  BY DEF TypeOK, database, locks, Stored, Phases
<1>2. txn' \in [Actors -> SessionRow] /\ txn'[p] = [txn[p] EXCEPT !.todo = list]
  <2>1. txn[p] \in SessionRow
    BY DEF SessionOK
  <2>2. [txn[p] EXCEPT !.todo = list] \in SessionRow
    BY <2>1 DEF SessionRow
  <2> QED
    BY <2>2 DEF SessionOK
<1>3. Frame(p)
  BY <1>2 DEF Frame, TypeOK, SessionOK, database, locks
<1>4. HistoryOK'
  BY SameHistory DEF database
<1>5. Own(p)'
  <2>1. phase'[p] = "next"
    BY DEF TypeOK
  <2>2. txn'[p].rows = txn[p].rows
    BY <1>2 DEF SessionOK, SessionRow
  <2>3. SessionOf(p)'
    BY <2>1, <2>2 DEF SessionOK, SessionOf, IngestPhases, RebuildPhases, database
  <2> QED
    BY <2>1, <2>3 DEF Own, ClaimOf, AdmittedOf, IngestPhases
<1> QED
  BY <1>1, <1>3, <1>4, <1>5, StepOfOne

\* A process that died starts with empty sessions.
LEMMA RestartSafe ==
  ASSUME IInv, NEW p \in Procs, Restart(p)
  PROVE  IInv'
<1> USE DEF IInv, Restart, Goto
<1> USE ActorsDistinct
<1>1. TypeOK'
  BY DEF TypeOK, database, locks, Stored, Phases
<1>2. Frame(p)
  BY DEF Frame, TypeOK, SessionOK, database, locks
<1>3. HistoryOK'
  BY SameHistory DEF database
<1>4. Own(p)'
  <2>1. phase'[p] = "boot"
    BY DEF TypeOK
  <2>2. SessionOf(p)'
    BY <2>1 DEF SessionOK, SessionOf, IngestPhases, RebuildPhases, database
  <2> QED
    BY <2>1, <2>2 DEF Own, ClaimOf, AdmittedOf, IngestPhases
<1> QED
  BY <1>1, <1>2, <1>3, <1>4, StepOfOne

\* An admin changes a source row that no delivery has locked.
LEMMA PatchSourceSafe ==
  ASSUME IInv, NEW s \in Sources, NEW policy \in Policy, PatchSource(s, policy)
  PROVE  IInv'
<1> USE DEF IInv, PatchSource
<1>1. TypeOK'
  BY DEF TypeOK, locks, Stored, SourceRow
<1>2. SessionOK'
  BY DEF SessionOK, SessionOf
<1>3. HistoryOK'
  BY SameHistory
<1>4. ClaimOK'
  BY DEF ClaimOK, ClaimOf, StoredOf, Stored, locks
<1>5. AdmittedOK'
  <2> SUFFICES ASSUME NEW p \in Procs, phase[p] \in IngestPhases,
                      SourceOf[txn[p].req.id] \notin HmacSources
               PROVE  AdmittedOf(p)'
    BY DEF AdmittedOK, AdmittedOf
  <2>1. SourceOf[txn[p].req.id] \in Sources /\ p # None
    BY RequestOf, ActorsDistinct
  <2>2. srcLock[SourceOf[txn[p].req.id]] = p
    BY DEF AdmittedOK, AdmittedOf
  <2> QED
    BY <2>1, <2>2 DEF AdmittedOK, AdmittedOf, locks, TypeOK
<1> QED
  BY <1>1, <1>2, <1>3, <1>4, <1>5

\* A crash takes the sessions and the locks of a process and its threads, and
\* leaves those of the others.
LEMMA CrashSafe ==
  ASSUME IInv, NEW p \in Procs, Crash(p)
  PROVE  IInv'
<1> USE DEF IInv, Crash, database
<1> USE ActorsDistinct
<1> DEFINE dead == {p} \cup {t \in Threads : HomeOf[t] = p}
<1>0. dead \subseteq Actors
  OBVIOUS
<1>a. \A a \in Actors \ dead : txn'[a] = txn[a] /\ phase'[a] = phase[a]
  OBVIOUS
<1>b. \A a \in dead : txn'[a] = NoSession /\ phase'[a] \in {"down", "idle"}
  BY <1>0
<1>c. /\ \A a \in Actors \ dead, i \in Items : rowLock[i] = a => rowLock'[i] = a
      /\ \A a \in Actors \ dead, s \in Sources : srcLock[s] = a => srcLock'[s] = a
  OBVIOUS
<1>1. TypeOK'
  <2>1. phase' \in [Actors -> Phases]
    BY DEF TypeOK, Phases
  <2>2. srcLock' \in [Sources -> Procs \cup {None}]
    BY DEF TypeOK
  <2>3. rowLock' \in [Items -> Actors \cup {None}]
    BY DEF TypeOK
  <2>4. crashes' \in 0..MaxCrashes /\ up' \in [Procs -> BOOLEAN]
    BY BoundAssumption DEF TypeOK
  <2> QED
    BY <2>1, <2>2, <2>3, <2>4 DEF TypeOK, Stored
<1>2. txn' \in [Actors -> SessionRow]
  BY NoSessionIsRow DEF SessionOK
<1> HIDE DEF dead
<1>3. ASSUME NEW a \in Actors
      PROVE  Own(a)'
  <2>1. CASE a \in dead
    <3>1. phase'[a] \in {"idle", "next", "boot", "down"} /\ txn'[a] = NoSession
      BY <2>1, <1>b
    <3>2. \A i \in Items : txn'[a].rows[i] = None
      BY <3>1 DEF NoSession
    <3> QED
      BY <3>1, <3>2, AtRest
  <2>2. CASE a \notin dead
    <3>1. SessionOf(a) /\ ClaimOf(a) /\ (a \in Procs => AdmittedOf(a))
      BY DEF SessionOK, ClaimOK, AdmittedOK
    <3>2. txn'[a] = txn[a] /\ phase'[a] = phase[a]
      BY <2>2, <1>a
    <3>3. SessionOf(a)'
      BY <3>1, <3>2 DEF SessionOf
    <3>4. ClaimOf(a)'
      <4>1. phase[a] \in {"read", "apply"} => txn[a].item \in Items
        BY <3>1 DEF SessionOf, RebuildPhases
      <4> QED
        BY <3>1, <3>2, <4>1, <2>2, <1>c DEF ClaimOf, StoredOf, Stored
    <3>5. a \in Procs => AdmittedOf(a)'
      <4> SUFFICES ASSUME a \in Procs, phase[a] \in IngestPhases,
                          SourceOf[txn[a].req.id] \notin HmacSources
                   PROVE  AdmittedOf(a)'
        BY <3>2 DEF AdmittedOf
      <4>1. SourceOf[txn[a].req.id] \in Sources
        BY RequestOf
      <4> DEFINE s == SourceOf[txn[a].req.id]
      <4>2. srcLock[s] = a /\ source[s] = txn[a].from /\ source[s].policy = "open"
        BY <3>1 DEF AdmittedOf
      <4>3. srcLock'[s] = a /\ source' = source
        BY <4>1, <4>2, <2>2, <1>c
      <4> QED
        BY <3>2, <4>2, <4>3 DEF AdmittedOf
    <3> QED
      BY <3>3, <3>4, <3>5 DEF Own
  <2> QED
    BY <2>1, <2>2
<1>4. HistoryOK'
  BY SameHistory
<1>5. SessionOK' /\ ClaimOK' /\ AdmittedOK'
  BY <1>2, <1>3 DEF Own, SessionOK, ClaimOK, AdmittedOK
<1> QED
  BY <1>1, <1>4, <1>5

-----------------------------------------------------------------------------
(* The theorems. *)

\* The log starts empty and every actor at rest.
LEMMA InitSafe == Init => IInv
<1> SUFFICES ASSUME Init
             PROVE  IInv
  OBVIOUS
<1> USE DEF Init
<1>1. TypeOK
  <2>1. source \in [Sources -> SourceRow]
    BY DEF SourceRow, Policy
  <2>2. proj \in [Items -> ProjRow \cup {None}]
    BY DEF FreshRow, ProjRow, Status
  <2>3. stream \in [Sources -> StreamRow] /\ view \in [Items -> ViewRow]
    BY DEF StreamRow, ViewRow, EmptyView
  <2> QED
    BY <2>1, <2>2, <2>3, BoundAssumption
       DEF TypeOK, Stored, Phases, Actors
<1>2. SessionOK
  BY NoSessionIsRow DEF SessionOK, SessionOf, NoSession, IngestPhases, RebuildPhases
<1>3. HistoryOK /\ ClaimOK /\ AdmittedOK
  BY ActorsDistinct DEF HistoryOK, EmptyView, ClaimOK, ClaimOf, AdmittedOK, AdmittedOf,
         IngestPhases
<1> QED
  BY <1>1, <1>2, <1>3 DEF IInv

\* Every step, and every stutter, keeps the inductive invariant.
LEMMA NextSafe == IInv /\ [Next]_vars => IInv'
<1> SUFFICES ASSUME IInv, [Next]_vars
             PROVE  IInv'
  OBVIOUS
<1>1. ASSUME NEW p \in Procs, NEW r \in Requests,
             Refuse(p, r) \/ AdmitLegacy(p, r) \/ AdmitHmac(p, r)
      PROVE  IInv'
  BY <1>1, RefuseSafe, AdmitLegacySafe, AdmitHmacSafe
<1>2. ASSUME NEW p \in Procs, Ingest(p)
      PROVE  IInv'
  BY <1>2, AnswerStoredSafe, ReadStreamSafe, InsertSafe, LoadRowSafe,
     SelectAffectedSafe, CommitEventSafe DEF Ingest
<1>3. ASSUME NEW p \in Procs, NextItem(p) \/ Boot(p) \/ Crash(p) \/ Restart(p)
      PROVE  IInv'
  BY <1>3, NextItemSafe, BootSafe, CrashSafe, RestartSafe
<1>4. ASSUME NEW a \in Actors, Rebuild(a)
      PROVE  IInv'
  BY <1>4, OpenRowSafe, ClaimRowSafe, ReadEventsSafe, CommitRebuildSafe,
     FailRebuildSafe, MarkFailedSafe DEF Rebuild
<1>5. ASSUME NEW t \in Threads, NEW i \in Items, AdminRebuild(t, i)
      PROVE  IInv'
  BY <1>5, AdminRebuildSafe
<1>6. ASSUME NEW s \in Sources, NEW policy \in Policy, PatchSource(s, policy)
      PROVE  IInv'
  BY <1>6, PatchSourceSafe
<1>7. CASE UNCHANGED vars
  BY <1>7 DEF vars, database, locks, IInv, TypeOK, SessionOK, SessionOf, HistoryOK,
     ClaimOK, ClaimOf, AdmittedOK, AdmittedOf, StoredOf, Stored
<1> QED
  BY <1>1, <1>2, <1>3, <1>4, <1>5, <1>6, <1>7 DEF Next

\* The inductive invariant holds in every reachable state.
THEOREM Invariance == Spec => []IInv
BY InitSafe, NextSafe, PTL DEF Spec

\* Type correctness of the tables, the locks and the sessions; among it that a
\* commit never leaves a projection row with the status "rebuilding".
THEOREM TypeCorrect == Spec => []TypeOK
<1>1. IInv => TypeOK
  BY DEF IInv
<1> QED
  BY <1>1, Invariance, PTL

\* A step that changes the projected tables is the commit of a rebuild.
LEMMA ViewStep ==
  ASSUME IInv, [Next]_vars, view' # view
  PROVE  \E a \in Actors : CommitRebuild(a)
<1>1. ASSUME NEW p \in Procs, NEW r \in Requests,
             Refuse(p, r) \/ AdmitLegacy(p, r) \/ AdmitHmac(p, r)
      PROVE  view' = view
  BY <1>1 DEF Refuse, AdmitLegacy, AdmitHmac, database
<1>2. ASSUME NEW p \in Procs,
             AnswerStored(p) \/ ReadStream(p) \/ Insert(p)
      PROVE  view' = view
  BY <1>2 DEF AnswerStored, ReadStream, Insert, database
<1>3. ASSUME NEW p \in Procs,
             LoadRow(p) \/ SelectAffected(p) \/ CommitEvent(p)
      PROVE  view' = view
  BY <1>3 DEF LoadRow, SelectAffected, CommitEvent, database
<1>4. ASSUME NEW p \in Procs,
             NextItem(p) \/ Boot(p) \/ Crash(p) \/ Restart(p)
      PROVE  view' = view
  BY <1>4 DEF NextItem, Boot, Crash, Restart, database
<1>5. ASSUME NEW a \in Actors,
             OpenRow(a) \/ ClaimRow(a) \/ ReadEvents(a)
      PROVE  view' = view
  BY <1>5 DEF OpenRow, ClaimRow, ReadEvents, database
<1>6. ASSUME NEW a \in Actors,
             FailRebuild(a) \/ MarkFailed(a)
      PROVE  view' = view
  BY <1>6 DEF FailRebuild, MarkFailed, database
<1>7. ASSUME NEW t \in Threads, NEW i \in Items, AdminRebuild(t, i)
      PROVE  view' = view
  BY <1>7 DEF AdminRebuild, database
<1>8. ASSUME NEW s \in Sources, NEW policy \in Policy, PatchSource(s, policy)
      PROVE  view' = view
  BY <1>8 DEF PatchSource, database
<1>9. CASE UNCHANGED vars
  BY <1>9 DEF vars, database
<1> QED
  BY <1>1, <1>2, <1>3, <1>4, <1>5, <1>6, <1>7, <1>8, <1>9, Zenon DEF Next, Ingest, Rebuild

\* Rebuilds of one item (after a delivery, by an admin, at a startup, in any
\* number of processes) never lose one another's events.
THEOREM ViewNeverShrinks == Spec => ViewMonotone
<1> DEFINE Grows == \A i \in Items : view[i].events \subseteq view'[i].events
<1>1. ASSUME IInv, [Next]_vars
      PROVE  [Grows]_vars
  <2>1. CASE view' = view
    BY <2>1
  <2>2. CASE view' # view
    <3>1. PICK a \in Actors : CommitRebuild(a)
      BY <1>1, <2>2, ViewStep
    <3>2. /\ phase[a] = "apply" /\ txn[a].item \in Items
          /\ view[txn[a].item].events \subseteq txn[a].seen.events
          /\ view \in [Items -> ViewRow]
      BY <1>1, <3>1, RebuildOf
         DEF IInv, CommitRebuild, RebuildPhases, ClaimOK, ClaimOf, TypeOK
    <3>3. view' = view \/ view' = [view EXCEPT ![txn[a].item] = txn[a].seen]
      BY <3>1 DEF CommitRebuild
    <3> QED
      BY <3>2, <3>3
  <2> QED
    BY <2>1, <2>2
<1> QED
  BY <1>1, Invariance, PTL DEF Spec, ViewMonotone

\* A step that stores an event is the commit of a delivery.
LEMMA RawStep ==
  ASSUME [Next]_vars, raw' # raw
  PROVE  \E p \in Procs : CommitEvent(p)
<1>1. ASSUME NEW p \in Procs, NEW r \in Requests,
             Refuse(p, r) \/ AdmitLegacy(p, r) \/ AdmitHmac(p, r)
      PROVE  raw' = raw
  BY <1>1 DEF Refuse, AdmitLegacy, AdmitHmac, database
<1>2. ASSUME NEW p \in Procs,
             AnswerStored(p) \/ ReadStream(p) \/ Insert(p)
      PROVE  raw' = raw
  BY <1>2 DEF AnswerStored, ReadStream, Insert, database
<1>3. ASSUME NEW p \in Procs,
             LoadRow(p) \/ SelectAffected(p)
      PROVE  raw' = raw
  BY <1>3 DEF LoadRow, SelectAffected, database
<1>4. ASSUME NEW p \in Procs,
             NextItem(p) \/ Boot(p) \/ Crash(p) \/ Restart(p)
      PROVE  raw' = raw
  BY <1>4 DEF NextItem, Boot, Crash, Restart, database
<1>5. ASSUME NEW a \in Actors,
             OpenRow(a) \/ ClaimRow(a) \/ ReadEvents(a)
      PROVE  raw' = raw
  BY <1>5 DEF OpenRow, ClaimRow, ReadEvents, database
<1>6. ASSUME NEW a \in Actors,
             CommitRebuild(a) \/ FailRebuild(a) \/ MarkFailed(a)
      PROVE  raw' = raw
  BY <1>6 DEF CommitRebuild, FailRebuild, MarkFailed, database
<1>7. ASSUME NEW t \in Threads, NEW i \in Items, AdminRebuild(t, i)
      PROVE  raw' = raw
  BY <1>7 DEF AdminRebuild, database
<1>8. ASSUME NEW s \in Sources, NEW policy \in Policy, PatchSource(s, policy)
      PROVE  raw' = raw
  BY <1>8 DEF PatchSource, database
<1>9. CASE UNCHANGED vars
  BY <1>9 DEF vars, database
<1> QED
  BY <1>1, <1>2, <1>3, <1>4, <1>5, <1>6, <1>7, <1>8, <1>9, Zenon DEF Next, Ingest, Rebuild

\* An event of a shared-secret source is stored only while the source's policy
\* admits it, although its authentication was checked several steps earlier.
THEOREM NothingStoredAfterSuspension == Spec => StoredWhileAllowed
<1> DEFINE Allowed == \A e \in Events :
             raw[e] = None /\ raw'[e] # None /\ SourceOf[e] \notin HmacSources
             => source[SourceOf[e]].policy = "open"
<1>1. ASSUME IInv, [Next]_vars
      PROVE  [Allowed]_vars
  <2>1. CASE raw' = raw
    BY <2>1
  <2>2. CASE raw' # raw
    <3>1. PICK p \in Procs : CommitEvent(p)
      BY <1>1, <2>2, RawStep
    <3>2. /\ raw \in [Events -> RawRow \cup {None}]
          /\ phase[p] \in IngestPhases /\ AdmittedOf(p)
      BY <1>1, <3>1 DEF IInv, TypeOK, CommitEvent, IngestPhases, AdmittedOK
    <3>3. \E row : raw' = [raw EXCEPT ![txn[p].req.id] = row]
      BY <3>1 DEF CommitEvent
    <3>4. \A e \in Events : raw[e] = None /\ raw'[e] # None => e = txn[p].req.id
      BY <3>2, <3>3
    <3> QED
      BY <3>2, <3>4 DEF AdmittedOf
  <2> QED
    BY <2>1, <2>2
<1> QED
  BY <1>1, Invariance, PTL DEF Spec, StoredWhileAllowed

\* A step that changes a source row ends a delivery or is an admin's patch.
LEMMA SourceStep ==
  ASSUME [Next]_vars, source' # source
  PROVE  \/ \E p \in Procs : AnswerStored(p) \/ CommitEvent(p)
         \/ \E s \in Sources, policy \in Policy : PatchSource(s, policy)
<1>1. ASSUME NEW p \in Procs, NEW r \in Requests,
             Refuse(p, r) \/ AdmitLegacy(p, r) \/ AdmitHmac(p, r)
      PROVE  source' = source
  BY <1>1 DEF Refuse, AdmitLegacy, AdmitHmac, database
<1>2. ASSUME NEW p \in Procs,
             ReadStream(p) \/ Insert(p) \/ LoadRow(p)
      PROVE  source' = source
  BY <1>2 DEF ReadStream, Insert, LoadRow, database
<1>3. ASSUME NEW p \in Procs,
             SelectAffected(p)
      PROVE  source' = source
  BY <1>3 DEF SelectAffected, database
<1>4. ASSUME NEW p \in Procs,
             NextItem(p) \/ Boot(p) \/ Crash(p) \/ Restart(p)
      PROVE  source' = source
  BY <1>4 DEF NextItem, Boot, Crash, Restart, database
<1>5. ASSUME NEW a \in Actors,
             OpenRow(a) \/ ClaimRow(a) \/ ReadEvents(a)
      PROVE  source' = source
  BY <1>5 DEF OpenRow, ClaimRow, ReadEvents, database
<1>6. ASSUME NEW a \in Actors,
             CommitRebuild(a) \/ FailRebuild(a) \/ MarkFailed(a)
      PROVE  source' = source
  BY <1>6 DEF CommitRebuild, FailRebuild, MarkFailed, database
<1>7. ASSUME NEW t \in Threads, NEW i \in Items, AdminRebuild(t, i)
      PROVE  source' = source
  BY <1>7 DEF AdminRebuild, database
<1>8. CASE UNCHANGED vars
  BY <1>8 DEF vars, database
<1> QED
  BY <1>1, <1>2, <1>3, <1>4, <1>5, <1>6, <1>7, <1>8, Zenon DEF Next, Ingest, Rebuild

\* The high-water mark of a shared-secret source never falls, in any number of
\* processes: it is written from a row that nobody else could write.
THEOREM HighWaterNeverFalls == Spec => HighWaterHolds
<1> DEFINE Holds == \A s \in Sources \ HmacSources : source[s].last <= source'[s].last
<1>1. ASSUME IInv, [Next]_vars
      PROVE  [Holds]_vars
  <2>0. /\ source \in [Sources -> SourceRow]
        /\ \A s \in Sources : source[s].last \in Nat
    BY <1>1 DEF IInv, TypeOK, SourceRow
  <2>1. CASE source' = source
    BY <2>0, <2>1
  <2>2. ASSUME NEW p \in Procs, AnswerStored(p) \/ CommitEvent(p)
        PROVE  Holds
    <3>1. phase[p] \in IngestPhases /\ AdmittedOf(p) /\ source' = WithNumber(p)
      BY <1>1, <2>2 DEF AnswerStored, CommitEvent, IngestPhases, IInv, AdmittedOK
    <3>2. ASSUME NEW s \in Sources \ HmacSources
          PROVE  source[s].last <= source'[s].last
      <4>1. CASE s = SourceOf[txn[p].req.id]
        BY <1>1, <3>1, <4>1, WithNumberSafe DEF AdmittedOf, IInv
      <4>2. CASE s # SourceOf[txn[p].req.id]
        BY <1>1, <2>0, <3>1, <4>2, WithNumberSafe DEF IInv
      <4> QED
        BY <4>1, <4>2
    <3> QED
      BY <3>2
  <2>3. ASSUME NEW s \in Sources, NEW policy \in Policy, PatchSource(s, policy)
        PROVE  Holds
    BY <2>0, <2>3 DEF PatchSource, SourceRow
  <2> QED
    BY <1>1, <2>1, <2>2, <2>3, SourceStep
<1> QED
  BY <1>1, Invariance, PTL DEF Spec, HighWaterHolds
=============================================================================
