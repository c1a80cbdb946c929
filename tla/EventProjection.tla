-------------------------- MODULE EventProjection --------------------------
(***************************************************************************)
(* The raw event log and its projection: POST /api/v1/events               *)
(* (api/events.py, ingestion/service.py), the item rebuild                 *)
(* (projections/rebuild.py), the startup recovery (main.py) and the admin  *)
(* rebuild (api/admin.py), as transactions over one PostgreSQL database.   *)
(*                                                                         *)
(* receive_event is an async handler that awaits nothing after the request *)
(* body, so the event loop of an API process runs one delivery, with the   *)
(* rebuilds it triggers, at a time: a process p is both the event loop and *)
(* its startup recovery.  Synchronous handlers run in threads beside it.   *)
(* Sessions do not flush on their own and the database is READ COMMITTED,  *)
(* so a row read by Session.get is a snapshot that the commit compares     *)
(* with, column by column, to decide what to write (operator Emit).        *)
(***************************************************************************)
EXTENDS Naturals

CONSTANTS
  Procs,        \* API processes, each with one event loop
  Threads,      \* threadpool threads that serve the admin rebuild
  HomeOf,       \* the process a thread belongs to
  Events,       \* event identifiers
  Sources,      \* event sources, each with its own integrity stream
  HmacSources,  \* those that authenticate with HMAC_V1
  Items,        \* items
  SourceOf,     \* the source of an event
  ItemOf,       \* the item of an event, or None
  NumberOf,     \* the sequence number its source gave an event
  Covers,       \* the inspections a control_device.invalidated event covers
  Requests,     \* deliveries a source may make: event, content and nonce
  None,
  MaxSeq,       \* bound: no delivery starts once this many numbers are used
  MaxCrashes    \* bound on process crashes

Actors == Procs \cup Threads

ASSUME TopologyAssumption ==
  /\ Procs \cap Threads = {}
  /\ HomeOf \in [Threads -> Procs]

ASSUME DomainAssumption ==
  /\ HmacSources \subseteq Sources
  /\ SourceOf \in [Events -> Sources]
  /\ ItemOf \in [Events -> Items \cup {None}]
  /\ NumberOf \in [Events -> Nat]
  /\ Covers \in [Events -> SUBSET Events]
  /\ \A r \in Requests : r.id \in Events

ASSUME BoundAssumption == MaxSeq \in Nat /\ MaxCrashes \in Nat

VARIABLES
  source,    \* event_sources: what the policy admits, last_source_sequence
  nonces,    \* transport_nonces
  raw,       \* raw_events, None where an event is not stored
  stream,    \* integrity_stream_states
  proj,      \* projection_state, None where an item has no row
  view,      \* observations and runs projected from an item's events
  answers,   \* what deliveries were answered
  nextSeq,   \* the identity counter behind raw_events.ingest_seq
  srcLock,   \* who holds the row lock of an event source
  rowLock,   \* who holds the row lock of a projection_state row
  phase,     \* where an actor stands in its handler
  txn,       \* the session of an actor: what it has read
  up,        \* whether a process has finished its startup and serves
  crashes

database == <<source, nonces, raw, stream, proj, view, answers, nextSeq>>
locks    == <<srcLock, rowLock>>
vars     == <<database, locks, phase, txn, up, crashes>>

-----------------------------------------------------------------------------
(* Rows. *)

Policy == {"open", "narrowed", "revoked"}
Status == {"up_to_date", "stale", "failed"}
SourceRow == [policy : Policy, last : Nat]
StreamRow == [seq : Nat, mac : Events \cup {None}]
RawRow == [body : {r.body : r \in Requests}, seq : Nat, place : Nat,
           prev : Events \cup {None}]
ProjRow == [latest : Nat, projected : Nat, status : Status]
ViewRow == [events : SUBSET Events, voided : SUBSET Events]

ASSUME NoneAssumption ==
  None \notin Events \cup Items \cup Actors \cup RawRow \cup ProjRow

FreshRow == [latest |-> 0, projected |-> 0, status |-> "up_to_date"]
EmptyView == [events |-> {}, voided |-> {}]

Greater(m, n) == IF m >= n THEN m ELSE n

Stored == {e \in Events : raw[e] # None}
StoredOf(i) == {e \in Stored : ItemOf[e] = i}

\* max(raw.ingest_seq for raw in raws), for a non-empty set of stored events.
LatestOf(S) == CHOOSE n \in {raw[e].seq : e \in S} :
                 \A e \in S : raw[e].seq <= n

\* A slip: the UPDATE writes every column of the loaded row.
Emit_AllColumns(row, loaded, new) == new

\* What a commit writes: the columns whose value differs from the one loaded.
Emit(row, loaded, new) ==
  [f \in DOMAIN row |-> IF new[f] # loaded[f] THEN new[f] ELSE row[f]]

\* The rows recover_stale_projections selects.
Flagged(i) ==
  /\ proj[i] # None
  /\ \/ proj[i].latest > proj[i].projected
     \/ proj[i].status \in {"stale", "failed", "rebuilding"}

NoSession == [req |-> None, from |-> None, tail |-> None, seq |-> 0,
              rows |-> [i \in Items |-> None], hit |-> {}, item |-> None,
              seen |-> EmptyView, todo |-> {}]

Goto(a, p) == phase' = [phase EXCEPT ![a] = p]
Finish(a, p) == Goto(a, p) /\ txn' = [txn EXCEPT ![a] = NoSession]

-----------------------------------------------------------------------------
(* Ingestion: one delivery of request r by the event loop of process p. *)

Answer(r, outcome) == [id |-> r.id, body |-> r.body, outcome |-> outcome]

Replayed(r) == <<SourceOf[r.id], r.nonce>> \in nonces

\* _authenticate_source and the scope checks: the source row is locked while
\* they run.  HMAC_V1 stores the nonce and commits, which frees the row.
Refuse(p, r) ==
  LET s == SourceOf[r.id] IN
  /\ phase[p] = "idle" /\ nextSeq < MaxSeq /\ srcLock[s] = None
  /\ \/ /\ source[s].policy = "revoked"
        /\ UNCHANGED nonces
     \/ /\ source[s].policy # "revoked" /\ s \in HmacSources /\ Replayed(r)
        /\ UNCHANGED nonces
     \/ /\ source[s].policy = "narrowed" /\ s \in HmacSources /\ ~Replayed(r)
        /\ nonces' = nonces \cup {<<s, r.nonce>>}
     \/ /\ source[s].policy = "narrowed" /\ s \notin HmacSources
        /\ UNCHANGED nonces
  /\ answers' = answers \cup {Answer(r, "rejected")}
  /\ UNCHANGED <<source, raw, stream, proj, view, nextSeq, locks, phase, txn,
                 up, crashes>>

\* A slip: SELECT without FOR UPDATE.
AdmitLegacy_NoLock(p, r) ==
  LET s == SourceOf[r.id] IN
  /\ phase[p] = "idle" /\ nextSeq < MaxSeq
  /\ s \notin HmacSources /\ source[s].policy = "open" /\ srcLock[s] = None
  /\ txn' = [txn EXCEPT ![p] = [@ EXCEPT !.req = r, !.from = source[s]]]
  /\ Goto(p, "lookup")
  /\ UNCHANGED <<database, locks, up, crashes>>

AdmitLegacy(p, r) ==
  LET s == SourceOf[r.id] IN
  /\ phase[p] = "idle" /\ nextSeq < MaxSeq
  /\ s \notin HmacSources /\ source[s].policy = "open" /\ srcLock[s] = None
  /\ srcLock' = [srcLock EXCEPT ![s] = p]
  /\ txn' = [txn EXCEPT ![p] = [@ EXCEPT !.req = r, !.from = source[s]]]
  /\ Goto(p, "lookup")
  /\ UNCHANGED <<database, rowLock, up, crashes>>

AdmitHmac(p, r) ==
  LET s == SourceOf[r.id] IN
  /\ phase[p] = "idle" /\ nextSeq < MaxSeq
  /\ s \in HmacSources /\ source[s].policy = "open" /\ srcLock[s] = None
  /\ ~Replayed(r)
  /\ nonces' = nonces \cup {<<s, r.nonce>>}
  /\ txn' = [txn EXCEPT ![p] = [@ EXCEPT !.req = r, !.from = source[s]]]
  /\ Goto(p, "lookup")
  /\ UNCHANGED <<source, raw, stream, proj, view, answers, nextSeq, locks,
                 up, crashes>>

\* A slip: the number of the event, not the greater of the two, is stored.
WithNumber_Latest(p) ==
  LET e == txn[p].req.id
      s == SourceOf[e]
      old == txn[p].from
  IN  [source EXCEPT ![s] = Emit(@, old, [old EXCEPT !.last = NumberOf[e]])]

\* The last_source_sequence a delivery leaves: the session computes it from the
\* source row it loaded, and the commit writes it if that changes the row.
WithNumber(p) ==
  LET e == txn[p].req.id
      s == SourceOf[e]
      old == txn[p].from
  IN  [source EXCEPT ![s] = Emit(@, old,
         [old EXCEPT !.last = Greater(@, NumberOf[e])])]

Unlock(p) == srcLock' = [s \in Sources |->
                           IF srcLock[s] = p THEN None ELSE srcLock[s]]

\* The event is stored already: same content is a duplicate, other content a
\* conflict; either way the transaction commits the attempt.
AnswerStored(p) ==
  LET r == txn[p].req IN
  /\ phase[p] = "lookup" /\ raw[r.id] # None
  /\ answers' = answers \cup
       {Answer(r, IF raw[r.id].body = r.body THEN "duplicate" ELSE "conflict")}
  /\ source' = WithNumber(p)
  /\ Unlock(p) /\ Finish(p, "idle")
  /\ UNCHANGED <<nonces, raw, stream, proj, view, nextSeq, rowLock, up, crashes>>

\* A new event: the tail of the stream is read without a lock.
ReadStream(p) ==
  LET r == txn[p].req IN
  /\ phase[p] = "lookup" /\ raw[r.id] = None
  /\ txn' = [txn EXCEPT ![p].tail = stream[SourceOf[r.id]]]
  /\ Goto(p, "insert")
  /\ UNCHANGED <<database, locks, up, crashes>>

\* An unhandled exception: the session rolls back and the client gets a 500.
Abort(p) ==
  /\ answers' = answers \cup {Answer(txn[p].req, "error")}
  /\ Unlock(p) /\ Finish(p, "idle")

\* Unique keys of raw_events: event_id, and the place in the stream.
SameKey(p, q) ==
  \/ txn[p].req.id = txn[q].req.id
  \/ /\ SourceOf[txn[p].req.id] = SourceOf[txn[q].req.id]
     /\ txn[p].tail.seq = txn[q].tail.seq

Inserted(p) == p \in Procs /\ phase[p] \in {"load", "select", "commit"}

\* A slip: no unique keys on event_id and on the place in the stream.
Insert_NoUnique(p) ==
  LET e == txn[p].req.id IN
  /\ phase[p] = "insert"
  /\ nextSeq' = nextSeq + 1
  /\ txn' = [txn EXCEPT ![p].seq = nextSeq + 1]
  /\ Goto(p, IF ItemOf[e] = None THEN "select" ELSE "load")
  /\ UNCHANGED <<source, nonces, raw, stream, proj, view, answers, locks, up,
                 crashes>>

\* The INSERT draws an ingest_seq, waits for an uncommitted row with the same
\* key, and fails (outside the handler's try) if a committed one has it.
Insert(p) ==
  LET e == txn[p].req.id IN
  /\ phase[p] = "insert"
  /\ \A q \in Procs \ {p} : ~(Inserted(q) /\ SameKey(p, q))
  /\ nextSeq' = nextSeq + 1
  /\ \/ /\ raw[e] # None \/ stream[SourceOf[e]].seq # txn[p].tail.seq
        /\ Abort(p)
     \/ /\ raw[e] = None /\ stream[SourceOf[e]].seq = txn[p].tail.seq
        /\ txn' = [txn EXCEPT ![p].seq = nextSeq + 1]
        /\ Goto(p, IF ItemOf[e] = None THEN "select" ELSE "load")
        /\ UNCHANGED <<answers, srcLock>>
  /\ UNCHANGED <<source, nonces, raw, stream, proj, view, rowLock, up, crashes>>

\* The item's projection row.  An item without one gets a new object whose
\* latest_raw_ingest_seq is still None, and max(None, ingest_seq) raises.
LoadRow(p) ==
  LET i == ItemOf[txn[p].req.id] IN
  /\ phase[p] = "load"
  /\ \/ /\ proj[i] = None
        /\ Abort(p)
     \/ /\ proj[i] # None
        /\ txn' = [txn EXCEPT ![p].rows[i] = proj[i]]
        /\ Goto(p, "select")
        /\ UNCHANGED <<answers, srcLock>>
  /\ UNCHANGED <<source, nonces, raw, stream, proj, view, nextSeq, rowLock,
                 up, crashes>>

\* A slip: the affected items are rebuilt later, but not marked stale now.
SelectAffected_NotMarked(p) ==
  LET e == txn[p].req.id IN
  /\ phase[p] = "select"
  /\ txn' = [txn EXCEPT ![p].hit =
               {i \in Items : view[i].events \cap Covers[e] # {}}]
  /\ Goto(p, "commit")
  /\ UNCHANGED <<database, locks, up, crashes>>

\* control_device.invalidated: the items whose projected inspections it covers,
\* with their projection rows (a row already loaded is not read again).
SelectAffected(p) ==
  LET e == txn[p].req.id
      hit == {i \in Items : view[i].events \cap Covers[e] # {}}
      rows == [i \in Items |-> IF i \in hit /\ txn[p].rows[i] = None
                               THEN proj[i] ELSE txn[p].rows[i]]
  IN
  /\ phase[p] = "select"
  /\ txn' = [txn EXCEPT ![p] = [@ EXCEPT !.hit = hit, !.rows = rows]]
  /\ Goto(p, "commit")
  /\ UNCHANGED <<database, locks, up, crashes>>

\* The row the session holds for item i at its commit.
MarkedStale(p, i) ==
  LET old == txn[p].rows[i] IN
  [old EXCEPT !.status = "stale",
              !.latest = IF i = ItemOf[txn[p].req.id]
                         THEN Greater(@, txn[p].seq) ELSE @]

Touched(p) == {i \in Items : txn[p].rows[i] # None}

\* The commit writes everything at once.  It waits for the row lock of each
\* projection row it changes; a row it leaves as loaded is not written at all.
CommitEvent(p) ==
  LET r == txn[p].req
      e == r.id
      s == SourceOf[e]
  IN
  /\ phase[p] = "commit"
  /\ \A i \in Touched(p) : MarkedStale(p, i) # txn[p].rows[i] => rowLock[i] = None
  /\ raw' = [raw EXCEPT ![e] = [body |-> r.body, seq |-> txn[p].seq,
                                place |-> txn[p].tail.seq + 1,
                                prev |-> txn[p].tail.mac]]
  /\ stream' = [stream EXCEPT ![s] = [seq |-> txn[p].tail.seq + 1, mac |-> e]]
  /\ proj' = [i \in Items |->
                IF i \in Touched(p)
                THEN Emit(proj[i], txn[p].rows[i], MarkedStale(p, i))
                ELSE proj[i]]
  /\ source' = WithNumber(p)
  /\ answers' = answers \cup {Answer(r, "accepted")}
  /\ Unlock(p)
  /\ txn' = [txn EXCEPT ![p] = [NoSession EXCEPT !.todo = txn[p].hit,
                                                 !.item = ItemOf[e]]]
  /\ Goto(p, IF ItemOf[e] = None THEN "next" ELSE "open")
  /\ UNCHANGED <<nonces, view, nextSeq, rowLock, up, crashes>>

-----------------------------------------------------------------------------
(* rebuild_item, by an event loop (after a delivery, or at startup) or by a *)
(* thread that serves the admin rebuild.                                    *)

AfterRebuild(a) == IF a \in Procs THEN "next" ELSE "idle"

\* The projection row is read before any lock is taken.
OpenRow(a) ==
  LET i == txn[a].item IN
  /\ phase[a] = "open"
  /\ txn' = [txn EXCEPT ![a].rows[i] = proj[i]]
  /\ Goto(a, "claim")
  /\ UNCHANGED <<database, locks, up, crashes>>

\* A slip: the status is set but not flushed, so no row lock is taken.
ClaimRow_NoFlush(a) ==
  /\ phase[a] = "claim"
  /\ Goto(a, "read")
  /\ UNCHANGED <<database, locks, txn, up, crashes>>

\* The flush of status "rebuilding" (an INSERT for a new row) takes the row
\* lock; the advisory lock is only ever asked for by the holder of the row.
ClaimRow(a) ==
  LET i == txn[a].item IN
  /\ phase[a] = "claim" /\ rowLock[i] = None
  /\ \/ /\ txn[a].rows[i] = None /\ proj[i] # None
        /\ Goto(a, "failing")
        /\ UNCHANGED rowLock
     \/ /\ txn[a].rows[i] # None \/ proj[i] = None
        /\ rowLock' = [rowLock EXCEPT ![i] = a]
        /\ Goto(a, "read")
  /\ UNCHANGED <<database, srcLock, txn, up, crashes>>

\* The replay reads the item's events, and the invalidations committed so far.
ReadEvents(a) ==
  LET seen == StoredOf(txn[a].item) IN
  /\ phase[a] = "read"
  /\ txn' = [txn EXCEPT ![a].seen =
               [events |-> seen,
                voided |-> {o \in seen : \E v \in Stored : o \in Covers[v]}]]
  /\ Goto(a, "apply")
  /\ UNCHANGED <<database, locks, up, crashes>>

\* The row as rebuild_item leaves it in the session: after an empty history
\* only the status is set.
Rebuilt(a, loaded) ==
  IF txn[a].seen.events = {}
  THEN [loaded EXCEPT !.status = "up_to_date"]
  ELSE [latest |-> LatestOf(txn[a].seen.events),
        projected |-> LatestOf(txn[a].seen.events), status |-> "up_to_date"]

\* Replace the projected rows, update the projection row and commit.
CommitRebuild(a) ==
  LET i == txn[a].item
      new == [FreshRow EXCEPT !.status = "rebuilding"]
      loaded == IF txn[a].rows[i] = None THEN new
                ELSE [txn[a].rows[i] EXCEPT !.status = "rebuilding"]
      row == IF proj[i] = None THEN new ELSE proj[i]
  IN
  /\ phase[a] = "apply"
  /\ proj' = [proj EXCEPT ![i] = Emit(row, loaded, Rebuilt(a, loaded))]
  /\ view' = IF txn[a].seen.events = {} THEN view
             ELSE [view EXCEPT ![i] = txn[a].seen]
  /\ rowLock' = [rowLock EXCEPT ![i] = None]
  /\ txn' = [txn EXCEPT ![a] = [NoSession EXCEPT !.todo = txn[a].todo]]
  /\ Goto(a, AfterRebuild(a))
  /\ UNCHANGED <<source, nonces, raw, stream, answers, nextSeq, srcLock,
                 up, crashes>>

\* Decryption, or any statement, may raise: the rebuild rolls back ...
FailRebuild(a) ==
  /\ phase[a] \in {"read", "apply"}
  /\ rowLock' = [rowLock EXCEPT ![txn[a].item] = None]
  /\ Goto(a, "failing")
  /\ UNCHANGED <<database, srcLock, txn, up, crashes>>

\* ... and mark_projection_failed records it in a transaction of its own.
MarkFailed(a) ==
  LET i == txn[a].item IN
  /\ phase[a] = "failing" /\ rowLock[i] = None
  /\ proj' = [proj EXCEPT ![i] =
                IF proj[i] = None THEN [FreshRow EXCEPT !.status = "failed"]
                ELSE [proj[i] EXCEPT !.status = "failed"]]
  /\ txn' = [txn EXCEPT ![a] = [NoSession EXCEPT !.todo = txn[a].todo]]
  /\ Goto(a, AfterRebuild(a))
  /\ UNCHANGED <<source, nonces, raw, stream, view, answers, nextSeq, locks,
                 up, crashes>>

\* The loop over affected items, or over the items startup recovery selected.
NextItem(p) ==
  /\ phase[p] = "next"
  /\ \/ /\ txn[p].todo = {}
        /\ up' = [up EXCEPT ![p] = TRUE]
        /\ Finish(p, "idle")
     \/ \E i \in txn[p].todo :
          /\ txn' = [txn EXCEPT ![p] = [@ EXCEPT !.item = i,
                                                !.todo = txn[p].todo \ {i}]]
          /\ Goto(p, "open")
          /\ UNCHANGED up
  /\ UNCHANGED <<database, locks, crashes>>

AdminRebuild(t, i) ==
  /\ phase[t] = "idle" /\ up[HomeOf[t]]
  /\ txn' = [txn EXCEPT ![t].item = i]
  /\ Goto(t, "open")
  /\ UNCHANGED <<database, locks, up, crashes>>

-----------------------------------------------------------------------------
(* Sources and processes. *)

\* PATCH /sources/{id}: status, enabled flag or scopes; waits for a row lock.
PatchSource(s, policy) ==
  /\ srcLock[s] = None /\ source[s].policy # policy
  /\ source' = [source EXCEPT ![s].policy = policy]
  /\ UNCHANGED <<nonces, raw, stream, proj, view, answers, nextSeq, locks,
                 phase, txn, up, crashes>>

\* A process dies with its threads: their transactions and locks are gone.
Crash(p) ==
  LET dead == {p} \cup {t \in Threads : HomeOf[t] = p}
      Release(holder) == IF holder \in dead THEN None ELSE holder
  IN
  /\ crashes < MaxCrashes /\ phase[p] # "down"
  /\ crashes' = crashes + 1
  /\ phase' = [a \in Actors |-> IF a = p THEN "down"
                                ELSE IF a \in dead THEN "idle" ELSE phase[a]]
  /\ txn' = [a \in Actors |-> IF a \in dead THEN NoSession ELSE txn[a]]
  /\ srcLock' = [s \in Sources |-> Release(srcLock[s])]
  /\ rowLock' = [i \in Items |-> Release(rowLock[i])]
  /\ up' = [up EXCEPT ![p] = FALSE]
  /\ UNCHANGED database

\* restart: unless-stopped.
Restart(p) ==
  /\ phase[p] = "down"
  /\ Goto(p, "boot")
  /\ UNCHANGED <<database, locks, txn, up, crashes>>

\* A slip: recovery only looks for rebuilds that failed.
Boot_OnlyFailed(p) ==
  /\ phase[p] = "boot"
  /\ txn' = [txn EXCEPT ![p].todo =
               {i \in Items : proj[i] # None /\ proj[i].status = "failed"}]
  /\ Goto(p, "next")
  /\ UNCHANGED <<database, locks, up, crashes>>

\* lifespan: recover_stale_projections, before the first request is served.
Boot(p) ==
  /\ phase[p] = "boot"
  /\ txn' = [txn EXCEPT ![p].todo = {i \in Items : Flagged(i)}]
  /\ Goto(p, "next")
  /\ UNCHANGED <<database, locks, up, crashes>>

-----------------------------------------------------------------------------
\* An empty log; a rebuild of an item without events may have left its row.
Init ==
  /\ source = [s \in Sources |-> [policy |-> "open", last |-> 0]]
  /\ nonces = {}
  /\ raw = [e \in Events |-> None]
  /\ stream = [s \in Sources |-> [seq |-> 0, mac |-> None]]
  /\ proj \in [Items -> {None, FreshRow}]
  /\ view = [i \in Items |-> EmptyView]
  /\ answers = {}
  /\ nextSeq = 0
  /\ srcLock = [s \in Sources |-> None]
  /\ rowLock = [i \in Items |-> None]
  /\ phase = [a \in Actors |-> IF a \in Procs THEN "boot" ELSE "idle"]
  /\ txn = [a \in Actors |-> NoSession]
  /\ up = [p \in Procs |-> FALSE]
  /\ crashes = 0

Ingest(p) ==
  \/ AnswerStored(p)
  \/ ReadStream(p)
  \/ Insert(p)
  \/ LoadRow(p)
  \/ SelectAffected(p)
  \/ CommitEvent(p)

Rebuild(a) ==
  \/ OpenRow(a)
  \/ ClaimRow(a)
  \/ ReadEvents(a)
  \/ CommitRebuild(a)
  \/ FailRebuild(a)
  \/ MarkFailed(a)

Next ==
  \/ \E p \in Procs :
       \/ \E r \in Requests : Refuse(p, r) \/ AdmitLegacy(p, r) \/ AdmitHmac(p, r)
       \/ Ingest(p) \/ NextItem(p) \/ Boot(p) \/ Crash(p) \/ Restart(p)
  \/ \E a \in Actors : Rebuild(a)
  \/ \E t \in Threads, i \in Items : AdminRebuild(t, i)
  \/ \E s \in Sources, policy \in Policy : PatchSource(s, policy)

Spec == Init /\ [][Next]_vars

\* A handler that has begun goes on, a process that died is started again;
\* nothing obliges a client to send, an admin to act or a process to die.
Fairness ==
  /\ \A p \in Procs : WF_vars(Ingest(p) \/ NextItem(p) \/ Boot(p) \/ Restart(p))
  /\ \A a \in Actors : WF_vars(Rebuild(a))

FairSpec == Spec /\ Fairness

-----------------------------------------------------------------------------
(* Type invariant. *)

IngestPhases == {"lookup", "insert", "load", "select", "commit"}
RebuildPhases == {"open", "claim", "read", "apply", "failing"}
Phases == IngestPhases \cup RebuildPhases \cup {"boot", "down", "idle", "next"}

\* Types of the tables, the locks and the sessions.  The status of a committed
\* projection row is never "rebuilding": rebuild_item flushes that value but
\* never commits it.
TypeOK ==
  /\ source \in [Sources -> SourceRow]
  /\ nonces \subseteq {<<SourceOf[r.id], r.nonce>> : r \in Requests}
  /\ raw \in [Events -> RawRow \cup {None}]
  /\ \A e \in Stored : raw[e].seq \in 1..nextSeq
  /\ stream \in [Sources -> StreamRow]
  /\ proj \in [Items -> ProjRow \cup {None}]
  /\ view \in [Items -> ViewRow]
  /\ nextSeq \in Nat
  /\ srcLock \in [Sources -> Procs \cup {None}]
  /\ rowLock \in [Items -> Actors \cup {None}]
  /\ phase \in [Actors -> Phases]
  /\ up \in [Procs -> BOOLEAN]
  /\ crashes \in 0..MaxCrashes

-----------------------------------------------------------------------------
(* Safety. *)

EventsOf(s) == {e \in Stored : SourceOf[e] = s}

\* verify_integrity (security/integrity.py) finds no gap and no broken link in
\* any stream: the places of a source's stored events are 1 .. last_seq, each
\* event names the one before it, and the stream row names the last.  Two
\* deliveries of one HMAC source read the tail of its stream without a lock, so
\* this rests on the unique key of (stream, place).
ChainIntact ==
  \A s \in Sources :
    /\ {raw[e].place : e \in EventsOf(s)} = 1..stream[s].seq
    /\ \A e, f \in EventsOf(s) :
         /\ raw[e].place = raw[f].place => e = f
         /\ raw[f].place = raw[e].place + 1 => raw[f].prev = e
    /\ \A e \in EventsOf(s) :
         /\ raw[e].place = 1 => raw[e].prev = None
         /\ raw[e].place = stream[s].seq => stream[s].mac = e

\* Idempotency as the sender sees it: "accepted" and "duplicate" mean that the
\* log holds the content that was sent, "conflict" that it holds another one,
\* whatever deliveries of the same event raced with each other.
AnswersFaithful ==
  \A a \in answers :
    /\ a.outcome \in {"accepted", "duplicate"} =>
         raw[a.id] # None /\ raw[a.id].body = a.body
    /\ a.outcome = "conflict" => raw[a.id] # None /\ raw[a.id].body # a.body

\* What a crash may not lose (docs/recovery.md:30, "On startup, stale projections
\* are rebuilt from encrypted raw facts"): a committed event that its item's
\* projection does not show is on a row that startup recovery selects.  It holds
\* for one API process, whose event loop commits the events of an item in the
\* order of their ingest_seq, beside any number of rebuilds; and for several, when
\* an item's events come from one source: the row lock of a shared-secret source
\* keeps that order, the stream's unique key that of an HMAC source.  It does not
\* hold for two sources and two processes.
UnprojectedIsFlagged ==
  \A e \in Stored : ItemOf[e] # None =>
    e \in view[ItemOf[e]].events \/ Flagged(ItemOf[e])

\* The projection row tells the truth about the projected tables: its
\* last_projected_ingest_seq is the newest event they were rebuilt from, although
\* deliveries and rebuilds write the row from snapshots taken without its lock.
ProjectedIsTruthful ==
  \A i \in Items : proj[i] # None =>
    proj[i].projected =
      IF view[i].events = {} THEN 0 ELSE LatestOf(view[i].events)

\* docs/architecture.md:59: "Device invalidations are immutable facts that mark
\* derived observations INVALIDATED".  A projected inspection that a committed
\* invalidation covers is projected as invalidated, or its item is going to be
\* rebuilt: this server does it, or the row is flagged for startup recovery.  It
\* does not hold beside an admin's rebuild, which may have read the invalidations
\* before this one is committed.
InvalidationReflected ==
  \A v \in Stored, i \in Items : \A o \in view[i].events \cap Covers[v] :
    o \in view[i].voided \/ Flagged(i)

-----------------------------------------------------------------------------
(* Action properties. *)

\* Rebuilds of one item never lose an event to one another: the projected
\* history of an item only grows, although a rebuild that started earlier may
\* commit later (the events are read under the item's locks).
ViewMonotone ==
  [][\A i \in Items : view[i].events \subseteq view'[i].events]_vars

\* The row lock that shared-secret authentication takes is held to the final
\* commit: an event of such a source is stored only while the source is allowed
\* to send it, so an admin who suspends the source knows nothing arrives later.
StoredWhileAllowed ==
  [][\A e \in Events :
       raw[e] = None /\ raw'[e] # None /\ SourceOf[e] \notin HmacSources
       => source[SourceOf[e]].policy = "open"]_vars

\* The high-water mark that detects a source's sequence anomalies never falls
\* for a source whose row stays locked during a delivery.
HighWaterHolds ==
  [][\A s \in Sources \ HmacSources : source[s].last <= source'[s].last]_vars

-----------------------------------------------------------------------------
(* Liveness. *)

\* Every committed event reaches its item's projection, or a rebuild that tried
\* to project it failed and the item shows as failed: through crashes and
\* restarts, with no retry by the sender.
StoredIsSettled ==
  \A e \in {f \in Events : ItemOf[f] # None} :
    raw[e] # None
      ~> \/ e \in view[ItemOf[e]].events
         \/ proj[ItemOf[e]] # None /\ proj[ItemOf[e]].status = "failed"
=============================================================================
