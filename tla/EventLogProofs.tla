--------------------------- MODULE EventLogProofs ---------------------------
(***************************************************************************)
(* Proofs about EventProjection, on top of its inductive invariant, for    *)
(* any processes, threads, events, items and bounds: that deliveries which *)
(* race keep every stream a chain and every answer faithful, that a        *)
(* projection row tells the truth about the projected tables, that startup *)
(* recovery finds every event that is not projected where the events of an *)
(* item are committed in their order, and that invalidations are reflected *)
(* where nothing runs beside the event loop.                               *)
(***************************************************************************)
EXTENDS EventProjectionProofs

-----------------------------------------------------------------------------
(* The log: what the unique keys of raw_events keep apart. *)

\* A delivery has read the tail of its stream, and has not committed yet.
Keyed == {"insert", "load", "select", "commit"}

StreamOf(p) == stream[SourceOf[txn[p].req.id]]

\* The tail that a delivery has read is older than the stream, or it is the tail.
TailOK ==
  \A p \in Procs : phase[p] \in Keyed =>
    /\ txn[p].tail.seq <= StreamOf(p).seq
    /\ txn[p].tail.seq = StreamOf(p).seq => txn[p].tail.mac = StreamOf(p).mac

\* A row that is inserted and not committed has keys that no stored row has, and
\* that no other such row has.
KeyOK ==
  \A p \in Procs : Inserted(p) =>
    raw[txn[p].req.id] = None /\ txn[p].tail.seq = StreamOf(p).seq

KeysApart ==
  \A p, q \in Procs : Inserted(p) /\ Inserted(q) /\ SameKey(p, q) => p = q

\* A stream without events has no last event.
StartOK == \A s \in Sources : stream[s].seq = 0 => stream[s].mac = None

\* What an answer promises, of an event.
Faithful(a) ==
  /\ a.id \in Events
  /\ a.outcome \in {"accepted", "duplicate"} => raw[a.id] # None /\ raw[a.id].body = a.body
  /\ a.outcome = "conflict" => raw[a.id] # None /\ raw[a.id].body # a.body

AnswersOK == \A a \in answers : Faithful(a)

Log == TailOK /\ KeyOK /\ KeysApart /\ StartOK /\ ChainIntact /\ AnswersOK

-----------------------------------------------------------------------------
(* The rows: what snapshots that were read without a lock leave of them. *)

\* The newest event that the projection of item i shows, 0 if it shows none.
Newest(i) == IF view[i].events = {} THEN 0 ELSE LatestOf(view[i].events)

\* A loaded row is not ahead of the row.
SnapshotsOK ==
  \A a \in Actors, i \in Items :
    txn[a].rows[i] # None => txn[a].rows[i].projected <= proj[i].projected

\* A rebuild that found no row is the only one to insert it.
FirstRowOK ==
  \A a \in Actors :
    phase[a] \in {"read", "apply"} /\ txn[a].rows[txn[a].item] = None
      => proj[txn[a].item] = None

NoRowNoView == \A i \in Items : proj[i] = None => view[i].events = {}

Rows == SnapshotsOK /\ FirstRowOK /\ NoRowNoView /\ ProjectedIsTruthful

-----------------------------------------------------------------------------
(* The order in which the events of an item are committed. *)

\* One process, or all the events of an item from one source.
OneLine ==
  \/ \A p, q \in Procs : p = q
  \/ \A e, f \in Events : ItemOf[e] # None /\ ItemOf[e] = ItemOf[f]
                            => SourceOf[e] = SourceOf[f]

\* The ingest_seq that a delivery of item i has drawn is newer than all that is
\* stored, projected and loaded of the item.
DrawnFor(p, i) ==
  /\ \A f \in StoredOf(i) : raw[f].seq < txn[p].seq
  /\ proj[i] # None => proj[i].latest < txn[p].seq
  /\ txn[p].rows[i] # None => txn[p].rows[i].latest < txn[p].seq

\* What a session owes to the order: what a rebuild has read is still everything
\* when it commits, and a delivery that has inserted its event will be the newest
\* of its item, on a projection row that it has loaded.
InOrder(a) ==
  \A i \in Items :
    /\ txn[a].rows[i] # None => txn[a].rows[i].latest <= nextSeq
    /\ phase[a] = "apply" /\ txn[a].item = i => txn[a].seen.events = StoredOf(i)
    /\ Inserted(a) /\ ItemOf[txn[a].req.id] = i =>
         /\ DrawnFor(a, i)
         /\ phase[a] \in {"select", "commit"} => txn[a].rows[i] # None

LatestBound == \A i \in Items : proj[i] # None => proj[i].latest <= nextSeq

Ordered == (\A a \in Actors : InOrder(a)) /\ LatestBound /\ UnprojectedIsFlagged

-----------------------------------------------------------------------------
(* The log is kept by the steps that store nothing. *)

LEMMA KeyedSession ==
  ASSUME IInv, NEW p \in Procs, phase[p] \in Keyed
  PROVE  /\ txn[p].req \in Requests /\ txn[p].req.id \in Events
         /\ SourceOf[txn[p].req.id] \in Sources
         /\ txn[p].tail \in StreamRow /\ StreamOf(p) \in StreamRow
<1>1. phase[p] \in IngestPhases
  BY DEF Keyed, IngestPhases
<1>2. p \in Actors /\ SessionOK /\ TypeOK
  BY DEF Actors, IInv
<1>3. txn[p].tail \in StreamRow
  BY <1>2 DEF SessionOK, SessionOf, Keyed
<1>4. QED
  BY <1>1, <1>2, <1>3, RequestOf DEF TypeOK, StreamOf

\* A step in which nothing is stored and no delivery reads a tail or inserts.
LEMMA QuietLog ==
  ASSUME IInv, Log, UNCHANGED <<raw, stream>>,
         \A p \in Procs : phase'[p] \in Keyed =>
           /\ phase[p] \in Keyed /\ (phase'[p] # "insert" => phase[p] # "insert")
           /\ txn'[p].req = txn[p].req /\ txn'[p].tail = txn[p].tail,
         \A a \in answers' : a \in answers \/ Faithful(a)
  PROVE  Log'
<1>1. TailOK'
  BY DEF Log, TailOK, StreamOf
<1>2. \A p \in Procs : Inserted(p)' =>
        Inserted(p) /\ txn'[p].req = txn[p].req /\ txn'[p].tail = txn[p].tail
  BY DEF Inserted, Keyed
<1>3. KeyOK'
  BY <1>2 DEF Log, KeyOK, StreamOf
<1>4. KeysApart'
  BY <1>2 DEF Log, KeysApart, SameKey
<1>5. StartOK' /\ ChainIntact'
  BY DEF Log, StartOK, ChainIntact, EventsOf, Stored
<1>6. AnswersOK'
  BY DEF Log, AnswersOK, Faithful
<1>7. QED
  BY <1>1, <1>3, <1>4, <1>5, <1>6 DEF Log

\* The same, when one actor moves and ends up with no tail read.
LEMMA RestLog ==
  ASSUME IInv, Log, UNCHANGED <<raw, stream>>, NEW a \in Actors, NEW next, next \notin Keyed,
         phase' = [phase EXCEPT ![a] = next],
         \A b \in Actors \ {a} : txn'[b] = txn[b],
         \A x \in answers' : x \in answers \/ Faithful(x)
  PROVE  Log'
<1>1. phase'[a] = next /\ \A b \in Actors \ {a} : phase'[b] = phase[b]
  BY DEF IInv, TypeOK
<1>2. \A p \in Procs : phase'[p] \in Keyed => p \in Actors \ {a}
  BY <1>1 DEF Actors
<1>3. QED
  BY <1>1, <1>2, QuietLog

\* The same, when a delivery goes on with the tail that it has.
LEMMA GoOnLog ==
  ASSUME IInv, Log, UNCHANGED <<raw, stream, answers>>, NEW p \in Procs, NEW next,
         phase[p] \in Keyed, phase[p] # "insert", phase' = [phase EXCEPT ![p] = next],
         \A b \in Actors \ {p} : txn'[b] = txn[b],
         txn'[p].req = txn[p].req, txn'[p].tail = txn[p].tail
  PROVE  Log'
<1>1. \A b \in Actors \ {p} : phase'[b] = phase[b]
  BY DEF IInv, TypeOK
<1>2. QED
  BY <1>1, QuietLog DEF Actors

\* The sessions, as functions.
LEMMA Sessions ==
  ASSUME IInv
  PROVE  /\ txn \in [Actors -> SessionRow] /\ phase \in [Actors -> Phases]
         /\ Procs \subseteq Actors /\ Threads \subseteq Actors
         /\ \A a \in Actors : DOMAIN txn[a] = {"req", "from", "tail", "seq", "rows", "hit",
                                               "item", "seen", "todo"}
BY ActorsDistinct DEF IInv, SessionOK, TypeOK, SessionRow

LEMMA RefuseLog ==
  ASSUME IInv, Log, NEW p \in Procs, NEW r \in Requests, Refuse(p, r)
  PROVE  Log'
<1>1. UNCHANGED <<raw, stream, phase, txn>> /\ answers' = answers \cup {Answer(r, "rejected")}
  BY DEF Refuse
<1>2. Faithful(Answer(r, "rejected"))
  BY DomainAssumption DEF Faithful, Answer
<1>3. QED
  BY <1>1, <1>2, QuietLog

LEMMA AdmitLog ==
  ASSUME IInv, Log, NEW p \in Procs, NEW r \in Requests, AdmitLegacy(p, r) \/ AdmitHmac(p, r)
  PROVE  Log'
<1>1. /\ UNCHANGED <<raw, stream, answers>> /\ phase' = [phase EXCEPT ![p] = "lookup"]
      /\ \E new : txn' = [txn EXCEPT ![p] = new]
  BY DEF AdmitLegacy, AdmitHmac, Goto, database
<1>2. \A b \in Actors \ {p} : txn'[b] = txn[b]
  BY <1>1, Sessions
<1>3. "lookup" \notin Keyed
  BY DEF Keyed
<1>4. QED
  BY <1>1, <1>2, <1>3, RestLog, Sessions

\* A duplicate is answered for the content that is stored, a conflict for another.
LEMMA AnswerStoredLog ==
  ASSUME IInv, Log, NEW p \in Procs, AnswerStored(p)
  PROVE  Log'
<1> DEFINE r == txn[p].req
           a == Answer(r, IF raw[r.id].body = r.body THEN "duplicate" ELSE "conflict")
<1>1. /\ UNCHANGED <<raw, stream>> /\ phase' = [phase EXCEPT ![p] = "idle"]
      /\ txn' = [txn EXCEPT ![p] = NoSession] /\ answers' = answers \cup {a}
      /\ raw[r.id] # None /\ phase[p] = "lookup"
  BY DEF AnswerStored, Finish, Goto
<1>a. r.id \in Events
  BY <1>1, RequestOf DEF IInv, IngestPhases
<1>2. Faithful(a)
  BY <1>1, <1>a DEF Faithful, Answer
<1> HIDE DEF a
<1>3. \A b \in Actors \ {p} : txn'[b] = txn[b]
  BY <1>1, Sessions
<1>4. "idle" \notin Keyed
  BY DEF Keyed
<1>5. QED
  BY <1>1, <1>2, <1>3, <1>4, RestLog, Sessions

\* An unhandled error promises nothing.
LEMMA AbortLog ==
  ASSUME IInv, Log, NEW p \in Procs, phase[p] \in IngestPhases, Abort(p), UNCHANGED <<raw, stream>>
  PROVE  Log'
<1>1. /\ phase' = [phase EXCEPT ![p] = "idle"] /\ txn' = [txn EXCEPT ![p] = NoSession]
      /\ answers' = answers \cup {Answer(txn[p].req, "error")}
  BY DEF Abort, Finish, Goto
<1>2. Faithful(Answer(txn[p].req, "error"))
  BY RequestOf DEF IInv, Faithful, Answer
<1>3. \A b \in Actors \ {p} : txn'[b] = txn[b]
  BY <1>1, Sessions
<1>4. "idle" \notin Keyed
  BY DEF Keyed
<1>5. QED
  BY <1>1, <1>2, <1>3, <1>4, RestLog, Sessions

\* The tail that is read is the tail of the stream.
LEMMA ReadStreamLog ==
  ASSUME IInv, Log, NEW p \in Procs, ReadStream(p)
  PROVE  Log'
<1> DEFINE tail == stream[SourceOf[txn[p].req.id]]
<1>1. /\ UNCHANGED <<raw, stream, answers>> /\ phase' = [phase EXCEPT ![p] = "insert"]
      /\ txn' = [txn EXCEPT ![p].tail = tail] /\ phase[p] = "lookup"
  BY DEF ReadStream, Goto, database
<1>2. /\ txn'[p].tail = tail /\ txn'[p].req = txn[p].req /\ phase'[p] = "insert"
      /\ \A b \in Actors \ {p} : txn'[b] = txn[b] /\ phase'[b] = phase[b]
  BY <1>1, Sessions
<1>3. SourceOf[txn[p].req.id] \in Sources
  BY <1>1, RequestOf DEF IInv, IngestPhases
<1>4. tail.seq \in Nat
  BY <1>3 DEF IInv, TypeOK, StreamRow
<1>5. \A q \in Procs \ {p} : q \in Actors \ {p}
  BY Sessions
<1>6. TailOK'
  <2>1. ASSUME NEW q \in Procs, phase'[q] \in Keyed
        PROVE  /\ txn'[q].tail.seq <= stream'[SourceOf[txn'[q].req.id]].seq
               /\ txn'[q].tail.seq = stream'[SourceOf[txn'[q].req.id]].seq
                    => txn'[q].tail.mac = stream'[SourceOf[txn'[q].req.id]].mac
    <3>0. stream' = stream
      BY <1>1
    <3>1. CASE q = p
      BY <1>2, <1>4, <3>0, <3>1
    <3>2. CASE q # p
      BY <1>2, <1>5, <2>1, <3>0, <3>2 DEF Log, TailOK, StreamOf
    <3>3. QED
      BY <3>1, <3>2
  <2>2. QED
    BY <2>1, Zenon DEF TailOK, StreamOf
<1>7. \A q \in Procs : Inserted(q)' => q # p /\ Inserted(q) /\ txn'[q] = txn[q]
  BY <1>2, <1>5 DEF Inserted
<1>8. KeyOK'
  BY <1>1, <1>7 DEF Log, KeyOK, StreamOf
<1>9. KeysApart'
  BY <1>7 DEF Log, KeysApart, SameKey
<1>10. StartOK' /\ ChainIntact'
  BY <1>1 DEF Log, StartOK, ChainIntact, EventsOf, Stored
<1>11. AnswersOK'
  BY <1>1 DEF Log, AnswersOK, Faithful
<1>12. QED
  BY <1>6, <1>8, <1>9, <1>10, <1>11 DEF Log

\* The INSERT goes through for keys that no row has, committed or not.
LEMMA InsertLog ==
  ASSUME IInv, Log, NEW p \in Procs, Insert(p)
  PROVE  Log'
<1>1. UNCHANGED <<raw, stream>> /\ phase[p] = "insert"
  BY DEF Insert
<1>2. CASE Abort(p)
  BY <1>1, <1>2, AbortLog DEF IngestPhases
<1>3. CASE ~Abort(p)
  <2> DEFINE e == txn[p].req.id
             next == IF ItemOf[e] = None THEN "select" ELSE "load"
  <2>1. /\ raw[e] = None /\ stream[SourceOf[e]].seq = txn[p].tail.seq
        /\ txn' = [txn EXCEPT ![p].seq = nextSeq + 1]
        /\ phase' = [phase EXCEPT ![p] = next] /\ answers' = answers
        /\ \A q \in Procs \ {p} : ~(Inserted(q) /\ SameKey(p, q))
    BY <1>3 DEF Insert, Goto
  <2>2. next \in {"select", "load"}
    OBVIOUS
  <2> HIDE DEF next
  <2>3. /\ txn'[p].tail = txn[p].tail /\ txn'[p].req = txn[p].req /\ phase'[p] = next
        /\ \A b \in Actors \ {p} : txn'[b] = txn[b] /\ phase'[b] = phase[b]
    BY <2>1, Sessions
  <2>4. \A q \in Procs : q # p => q \in Actors \ {p}
    BY Sessions
  <2>5. \A q \in Procs : txn'[q].tail = txn[q].tail /\ txn'[q].req = txn[q].req
    BY <2>3, <2>4
  <2>6. \A q \in Procs : phase'[q] \in Keyed => phase[q] \in Keyed
    BY <1>1, <2>3, <2>4 DEF Keyed
  <2>7. \A q \in Procs : Inserted(q)' => q = p \/ Inserted(q)
    BY <2>3, <2>4 DEF Inserted
  <2>8. TailOK'
    BY <1>1, <2>5, <2>6 DEF Log, TailOK, StreamOf
  <2>9. KeyOK'
    BY <1>1, <2>1, <2>5, <2>7 DEF Log, KeyOK, StreamOf
  <2>10. KeysApart'
    <3>1. \A q \in Procs : SameKey(q, p) => SameKey(p, q)
      BY DEF SameKey
    <3>2. \A q, z \in Procs : SameKey(q, z)' => SameKey(q, z)
      BY <2>5 DEF SameKey
    <3>3. ASSUME NEW q \in Procs, NEW z \in Procs, Inserted(q)', Inserted(z)', SameKey(q, z)', q # z
          PROVE  FALSE
      BY <2>1, <2>7, <3>1, <3>2, <3>3 DEF Log, KeysApart
    <3>4. QED
      BY <3>3 DEF KeysApart
  <2>11. StartOK' /\ ChainIntact'
    BY <1>1 DEF Log, StartOK, ChainIntact, EventsOf, Stored
  <2>12. AnswersOK'
    BY <1>1, <2>1 DEF Log, AnswersOK, Faithful
  <2>13. QED
    BY <2>8, <2>9, <2>10, <2>11, <2>12 DEF Log
<1>4. QED
  BY <1>2, <1>3

LEMMA LoadLog ==
  ASSUME IInv, Log, NEW p \in Procs, LoadRow(p) \/ SelectAffected(p)
  PROVE  Log'
<1>1. CASE LoadRow(p) /\ Abort(p)
  BY <1>1, AbortLog DEF LoadRow, IngestPhases
<1>2. CASE LoadRow(p) /\ ~Abort(p)
  <2>1. /\ UNCHANGED <<raw, stream, answers>> /\ phase[p] = "load"
        /\ phase' = [phase EXCEPT ![p] = "select"]
        /\ txn' = [txn EXCEPT ![p].rows[ItemOf[txn[p].req.id]] = proj[ItemOf[txn[p].req.id]]]
    BY <1>2 DEF LoadRow, Goto
  <2>2. /\ txn'[p].tail = txn[p].tail /\ txn'[p].req = txn[p].req
        /\ \A b \in Actors \ {p} : txn'[b] = txn[b]
    BY <2>1, Sessions
  <2>3. QED
    BY <2>1, <2>2, GoOnLog DEF Keyed
<1>3. CASE SelectAffected(p)
  <2>1. /\ UNCHANGED <<raw, stream, answers>> /\ phase[p] = "select"
        /\ phase' = [phase EXCEPT ![p] = "commit"]
    BY <1>3 DEF SelectAffected, Goto, database
  <2> DEFINE hit == {i \in Items : view[i].events \cap Covers[txn[p].req.id] # {}}
             rows == [i \in Items |-> IF i \in hit /\ txn[p].rows[i] = None
                                      THEN proj[i] ELSE txn[p].rows[i]]
  <2>2. txn' = [txn EXCEPT ![p] = [txn[p] EXCEPT !.hit = hit, !.rows = rows]]
    BY <1>3, Sessions DEF SelectAffected
  <2> HIDE DEF hit, rows
  <2>3. /\ txn'[p].tail = txn[p].tail /\ txn'[p].req = txn[p].req
        /\ \A b \in Actors \ {p} : txn'[b] = txn[b]
    BY <2>2, Sessions
  <2>4. QED
    BY <2>1, <2>3, GoOnLog DEF Keyed
<1>4. QED
  BY <1>1, <1>2, <1>3

-----------------------------------------------------------------------------
(* The commit of a delivery appends one event to one stream. *)

\* The links of the stream of source z.
ChainOf(z) ==
  /\ {raw[e].place : e \in EventsOf(z)} = 1..stream[z].seq
  /\ \A e, f \in EventsOf(z) :
       /\ raw[e].place = raw[f].place => e = f
       /\ raw[f].place = raw[e].place + 1 => raw[f].prev = e
  /\ \A e \in EventsOf(z) :
       /\ raw[e].place = 1 => raw[e].prev = None
       /\ raw[e].place = stream[z].seq => stream[z].mac = e

\* What the commit of a delivery stores: event e follows the last of its stream.
Appends(e, body, seq) ==
  LET s == SourceOf[e] IN
  /\ raw[e] = None
  /\ raw' = [raw EXCEPT ![e] = [body |-> body, seq |-> seq, place |-> stream[s].seq + 1,
                                prev |-> stream[s].mac]]
  /\ stream' = [stream EXCEPT ![s] = [seq |-> stream[s].seq + 1, mac |-> e]]

\* The tail that the delivery has read is still the last of its stream.
LEMMA CommitAppends ==
  ASSUME IInv, Log, NEW p \in Procs, CommitEvent(p)
  PROVE  Appends(txn[p].req.id, txn[p].req.body, txn[p].seq)
<1> DEFINE e == txn[p].req.id
           s == SourceOf[e]
<1>1. phase[p] = "commit" /\ Inserted(p) /\ phase[p] \in Keyed
  BY DEF CommitEvent, Inserted, Keyed
<1>2. txn[p].tail.seq = stream[s].seq /\ raw[e] = None
  BY <1>1 DEF Log, KeyOK, StreamOf
<1>3. txn[p].tail.mac = stream[s].mac
  BY <1>1, <1>2 DEF Log, TailOK, StreamOf
<1>4. /\ raw' = [raw EXCEPT ![e] = [body |-> txn[p].req.body, seq |-> txn[p].seq,
                                    place |-> txn[p].tail.seq + 1,
                                    prev |-> txn[p].tail.mac]]
      /\ stream' = [stream EXCEPT ![s] = [seq |-> txn[p].tail.seq + 1, mac |-> e]]
  BY DEF CommitEvent
<1>5. QED
  BY <1>2, <1>3, <1>4 DEF Appends

\* The tables after an append, spelled out.
LEMMA AppendedTables ==
  ASSUME TypeOK, NEW e \in Events, NEW body, NEW seq, Appends(e, body, seq),
         None \notin {[body |-> body, seq |-> seq, place |-> stream[SourceOf[e]].seq + 1,
                       prev |-> stream[SourceOf[e]].mac]}
  PROVE  /\ \A f \in Events : f # e => raw'[f] = raw[f]
         /\ raw[e] = None /\ raw'[e] # None
         /\ raw'[e].place = stream[SourceOf[e]].seq + 1
         /\ raw'[e].prev = stream[SourceOf[e]].mac
         /\ raw'[e].body = body /\ raw'[e].seq = seq
         /\ \A z \in Sources : z # SourceOf[e] => stream'[z] = stream[z]
         /\ stream'[SourceOf[e]].seq = stream[SourceOf[e]].seq + 1
         /\ stream'[SourceOf[e]].mac = e
         /\ SourceOf[e] \in Sources /\ stream[SourceOf[e]].seq \in Nat
         /\ \A z \in Sources : z # SourceOf[e] => EventsOf(z)' = EventsOf(z)
         /\ EventsOf(SourceOf[e])' = EventsOf(SourceOf[e]) \cup {e}
<1>1. SourceOf[e] \in Sources
  BY DomainAssumption
<1>2. stream[SourceOf[e]] \in StreamRow
  BY <1>1 DEF TypeOK
<1>3. stream[SourceOf[e]].seq \in Nat
  BY <1>2 DEF StreamRow
<1> DEFINE row == [body |-> body, seq |-> seq, place |-> stream[SourceOf[e]].seq + 1,
                   prev |-> stream[SourceOf[e]].mac]
           new == [seq |-> stream[SourceOf[e]].seq + 1, mac |-> e]
<1>4. raw' = [raw EXCEPT ![e] = row] /\ stream' = [stream EXCEPT ![SourceOf[e]] = new]
      /\ raw[e] = None
  BY DEF Appends
<1>5. /\ row.place = stream[SourceOf[e]].seq + 1 /\ row.prev = stream[SourceOf[e]].mac
      /\ row.body = body /\ row.seq = seq /\ row # None
      /\ new.seq = stream[SourceOf[e]].seq + 1 /\ new.mac = e
  OBVIOUS
<1> HIDE DEF row, new
<1>6. raw'[e] = row /\ \A f \in Events : f # e => raw'[f] = raw[f]
  BY <1>4 DEF TypeOK
<1>7. stream'[SourceOf[e]] = new /\ \A z \in Sources : z # SourceOf[e] => stream'[z] = stream[z]
  BY <1>1, <1>4 DEF TypeOK
<1>8. \A z \in Sources : z # SourceOf[e] => EventsOf(z)' = EventsOf(z)
  BY <1>6 DEF EventsOf, Stored
<1>9. EventsOf(SourceOf[e])' = EventsOf(SourceOf[e]) \cup {e}
  BY <1>5, <1>6 DEF EventsOf, Stored
<1>10. QED
  BY <1>1, <1>3, <1>4, <1>5, <1>6, <1>7, <1>8, <1>9

\* An event that names the last of its stream extends the chain.
LEMMA AppendKeepsChain ==
  ASSUME TypeOK, ChainIntact, StartOK,
         NEW e \in Events, NEW body, NEW seq, Appends(e, body, seq),
         None \notin {[body |-> body, seq |-> seq, place |-> stream[SourceOf[e]].seq + 1,
                       prev |-> stream[SourceOf[e]].mac]}
  PROVE  ChainIntact' /\ StartOK'
<1>0. \A z \in Sources : ChainOf(z)
  BY Zenon DEF ChainIntact, ChainOf
<1>1. PICK s \in Sources : s = SourceOf[e]
  BY DomainAssumption
<1>2. PICK n \in Nat : n = stream[s].seq
  BY <1>1, AppendedTables
<1>3. /\ \A f \in Events : f # e => raw'[f] = raw[f]
      /\ raw[e] = None /\ raw'[e].place = n + 1 /\ raw'[e].prev = stream[s].mac
      /\ \A z \in Sources : z # s => stream'[z] = stream[z] /\ EventsOf(z)' = EventsOf(z)
      /\ stream'[s].seq = n + 1 /\ stream'[s].mac = e
      /\ EventsOf(s)' = EventsOf(s) \cup {e}
  BY <1>1, <1>2, AppendedTables
<1>4. /\ \A z \in Sources : EventsOf(z) \subseteq Events
      /\ \A z \in Sources : e \notin EventsOf(z)
  BY <1>3 DEF EventsOf, Stored
<1>5. ASSUME NEW z \in Sources, z # s
      PROVE  ChainOf(z)'
  <2>1. ChainOf(z) /\ EventsOf(z)' = EventsOf(z) /\ stream'[z] = stream[z]
    BY <1>0, <1>3, <1>5
  <2>2. \A f \in EventsOf(z) : raw'[f] = raw[f]
    BY <1>3, <1>4
  <2>3. QED
    BY <2>1, <2>2 DEF ChainOf
<1>6. ChainOf(s)'
  <2>1. /\ {raw[f].place : f \in EventsOf(s)} = 1..n
        /\ \A f, g \in EventsOf(s) :
             /\ raw[f].place = raw[g].place => f = g
             /\ raw[g].place = raw[f].place + 1 => raw[g].prev = f
        /\ \A f \in EventsOf(s) :
             /\ raw[f].place = 1 => raw[f].prev = None
             /\ raw[f].place = n => stream[s].mac = f
    BY <1>0, <1>2 DEF ChainOf
  <2>2. \A f \in EventsOf(s) : raw'[f] = raw[f] /\ raw[f].place \in 1..n /\ f # e
    BY <1>3, <1>4, <2>1
  <2>3. {raw'[f].place : f \in EventsOf(s)'} = 1..stream'[s].seq
    <3>1. \A f \in EventsOf(s)' : raw'[f].place \in 1..(n + 1)
      BY <1>3, <2>2
    <3>2. ASSUME NEW k \in 1..(n + 1)
          PROVE  \E f \in EventsOf(s)' : raw'[f].place = k
      <4>1. CASE k = n + 1
        BY <1>3, <4>1
      <4>2. CASE k # n + 1
        <5>1. k \in 1..n
          BY <4>2
        <5>a. k \in {raw[f].place : f \in EventsOf(s)}
          BY <2>1, <5>1, Zenon
        <5>2. PICK f \in EventsOf(s) : raw[f].place = k
          BY <5>a, Zenon
        <5>3. f \in EventsOf(s)' /\ raw'[f].place = k
          BY <1>3, <2>2, <5>2
        <5>4. QED
          BY <5>3, Zenon
      <4>3. QED
        BY <4>1, <4>2
    <3>3. QED
      BY <1>3, <3>1, <3>2
  <2>4. ASSUME NEW f \in EventsOf(s)', NEW g \in EventsOf(s)'
        PROVE  /\ raw'[f].place = raw'[g].place => f = g
               /\ raw'[g].place = raw'[f].place + 1 => raw'[g].prev = f
    <3>1. CASE f # e /\ g # e
      BY <1>3, <2>1, <2>2, <3>1
    <3>2. CASE f = e
      <4>1. CASE g = e
        BY <1>3, <3>2, <4>1
      <4>2. CASE g # e
        <5>1. raw'[g].place \in 1..n
          BY <1>3, <2>2, <4>2
        <5>2. QED
          BY <1>3, <3>2, <5>1
      <4>3. QED
        BY <4>1, <4>2
    <3>3. CASE f # e /\ g = e
      <4>1. f \in EventsOf(s) /\ raw'[f] = raw[f] /\ raw[f].place \in 1..n
        BY <1>3, <2>2, <3>3
      <4>2. raw'[f].place = n => stream[s].mac = f
        BY <2>1, <4>1
      <4>3. QED
        BY <1>3, <3>3, <4>1, <4>2
    <3>4. QED
      BY <3>1, <3>2, <3>3
  <2>5. ASSUME NEW f \in EventsOf(s)'
        PROVE  /\ raw'[f].place = 1 => raw'[f].prev = None
               /\ raw'[f].place = stream'[s].seq => stream'[s].mac = f
    <3>1. CASE f = e
      <4>1. n + 1 = 1 => stream[s].mac = None
        BY <1>2 DEF StartOK
      <4>2. QED
        BY <1>3, <3>1, <4>1
    <3>2. CASE f # e
      BY <1>3, <2>1, <2>2, <3>2
    <3>3. QED
      BY <3>1, <3>2
  <2>6. QED
    BY <2>3, <2>4, <2>5, Zenon DEF ChainOf
<1>7. ChainIntact'
  <2>1. \A z \in Sources : ChainOf(z)'
    BY <1>5, <1>6
  <2>2. QED
    BY <2>1, Zenon DEF ChainIntact, ChainOf
<1>8. StartOK'
  <2>1. ASSUME NEW z \in Sources
        PROVE  stream'[z].seq = 0 => stream'[z].mac = None
    BY <1>3 DEF StartOK
  <2>2. QED
    BY <2>1 DEF StartOK
<1>9. QED
  BY <1>7, <1>8

\* What is stored is a row: it is not None.
LEMMA StoresARow ==
  ASSUME IInv, Log, NEW p \in Procs, CommitEvent(p)
  PROVE  None \notin {[body |-> txn[p].req.body, seq |-> txn[p].seq,
                       place |-> stream[SourceOf[txn[p].req.id]].seq + 1,
                       prev |-> stream[SourceOf[txn[p].req.id]].mac]}
<1>1. phase[p] = "commit" /\ phase[p] \in Keyed
  BY DEF CommitEvent, Keyed
<1>2. txn[p].req \in Requests /\ StreamOf(p) \in StreamRow
  BY <1>1, KeyedSession
<1>3. txn[p].seq \in Nat
  BY Sessions DEF SessionRow
<1>4. stream[SourceOf[txn[p].req.id]] \in StreamRow
  BY <1>2 DEF StreamOf
<1> DEFINE row == [body |-> txn[p].req.body, seq |-> txn[p].seq,
                   place |-> stream[SourceOf[txn[p].req.id]].seq + 1,
                   prev |-> stream[SourceOf[txn[p].req.id]].mac]
<1>5. row \in RawRow
  BY <1>2, <1>3, <1>4 DEF RawRow, StreamRow
<1> HIDE DEF row
<1>6. row # None
  BY <1>5, NoneAssumption
<1>7. QED
  BY <1>6 DEF row

\* After the commit the other deliveries are where they were, with older tails.
LEMMA CommitEventLog ==
  ASSUME IInv, Log, NEW p \in Procs, CommitEvent(p)
  PROVE  Log'
<1>0. phase[p] = "commit" /\ Inserted(p) /\ phase[p] \in Keyed
  BY DEF CommitEvent, Inserted, Keyed
<1>1. PICK e \in Events : e = txn[p].req.id
  BY <1>0, KeyedSession
<1>2. PICK s \in Sources : s = SourceOf[e]
  BY <1>0, <1>1, KeyedSession
<1>3. PICK body, seq : body = txn[p].req.body /\ seq = txn[p].seq
  OBVIOUS
<1>4. Appends(e, body, seq)
  BY <1>1, <1>3, CommitAppends
<1>5. None \notin {[body |-> body, seq |-> seq, place |-> stream[SourceOf[e]].seq + 1,
                    prev |-> stream[SourceOf[e]].mac]}
  BY <1>1, <1>3, StoresARow
<1>6. TypeOK /\ ChainIntact /\ StartOK
  BY DEF IInv, Log
<1>7. ChainIntact' /\ StartOK'
  BY <1>4, <1>5, <1>6, AppendKeepsChain
<1>8. /\ \A f \in Events : f # e => raw'[f] = raw[f]
      /\ raw[e] = None /\ raw'[e] # None /\ raw'[e].body = body
      /\ \A z \in Sources : z # s => stream'[z] = stream[z]
      /\ stream'[s].seq = stream[s].seq + 1 /\ stream[s].seq \in Nat
  BY <1>2, <1>4, <1>5, <1>6, AppendedTables
<1>9. /\ \A b \in Actors \ {p} : txn'[b] = txn[b] /\ phase'[b] = phase[b]
      /\ phase'[p] \in {"next", "open"}
      /\ answers' = answers \cup {Answer(txn[p].req, "accepted")}
  BY Sessions DEF CommitEvent, Goto
<1>10. \A q \in Procs : phase'[q] \in Keyed =>
         q # p /\ phase'[q] = phase[q] /\ txn'[q] = txn[q]
  BY <1>9, Sessions DEF Keyed
<1>11. TailOK'
  <2>1. ASSUME NEW q \in Procs, phase'[q] \in Keyed
        PROVE  /\ txn'[q].tail.seq <= stream'[SourceOf[txn'[q].req.id]].seq
               /\ txn'[q].tail.seq = stream'[SourceOf[txn'[q].req.id]].seq
                    => txn'[q].tail.mac = stream'[SourceOf[txn'[q].req.id]].mac
    <3>1. PICK z \in Sources, tail \in StreamRow :
            z = SourceOf[txn[q].req.id] /\ tail = txn[q].tail
      BY <1>10, <2>1, KeyedSession
    <3>2. txn'[q] = txn[q] /\ tail.seq \in Nat
      BY <1>10, <2>1, <3>1 DEF StreamRow
    <3>3. tail.seq <= stream[z].seq /\ (tail.seq = stream[z].seq => tail.mac = stream[z].mac)
      BY <1>10, <2>1, <3>1 DEF Log, TailOK, StreamOf
    <3>4. /\ tail.seq <= stream'[z].seq
          /\ tail.seq = stream'[z].seq => tail.mac = stream'[z].mac
      BY <1>8, <3>2, <3>3
    <3>5. QED
      BY <3>1, <3>2, <3>4
  <2>2. QED
    BY <2>1, Zenon DEF TailOK, StreamOf
<1>12. \A q \in Procs : Inserted(q)' =>
         q # p /\ Inserted(q) /\ phase[q] \in Keyed /\ txn'[q] = txn[q]
  BY <1>10 DEF Inserted, Keyed
<1>13. KeyOK'
  <2>1. ASSUME NEW q \in Procs, Inserted(q)'
        PROVE  /\ raw'[txn'[q].req.id] = None
               /\ txn'[q].tail.seq = stream'[SourceOf[txn'[q].req.id]].seq
    <3>1. q # p /\ Inserted(q) /\ phase[q] \in Keyed /\ txn'[q] = txn[q]
      BY <1>12, <2>1
    <3>2. ~SameKey(p, q)
      BY <1>0, <3>1 DEF Log, KeysApart
    <3>3. /\ raw[txn[q].req.id] = None
          /\ txn[q].tail.seq = stream[SourceOf[txn[q].req.id]].seq
          /\ txn[p].tail.seq = stream[s].seq
      BY <1>0, <1>1, <1>2, <3>1 DEF Log, KeyOK, StreamOf
    <3>4. txn[q].req.id # e /\ SourceOf[txn[q].req.id] # s
      BY <1>1, <1>2, <3>2, <3>3 DEF SameKey
    <3>5. txn[q].req.id \in Events /\ SourceOf[txn[q].req.id] \in Sources
      BY <3>1, KeyedSession
    <3>6. QED
      BY <1>8, <3>1, <3>3, <3>4, <3>5
  <2>2. QED
    BY <2>1, Zenon DEF KeyOK, StreamOf
<1>14. KeysApart'
  BY <1>12 DEF Log, KeysApart, SameKey
<1>15. AnswersOK'
  <2>1. ASSUME NEW a \in answers
        PROVE  Faithful(a)'
    <3>1. Faithful(a)
      BY DEF Log, AnswersOK
    <3>2. raw[a.id] # None => raw'[a.id] = raw[a.id]
      BY <1>8, <3>1 DEF Faithful
    <3>3. QED
      BY <3>1, <3>2 DEF Faithful
  <2>2. PICK new : new = Answer(txn[p].req, "accepted")
    OBVIOUS
  <2>3. Faithful(new)'
    <3>1. /\ new.id = e /\ new.body = body /\ new.outcome = "accepted"
          /\ raw'[e] # None /\ raw'[e].body = body
      BY <1>1, <1>3, <1>8, <2>2 DEF Answer
    <3>2. QED
      BY <3>1 DEF Faithful
  <2>a. \A a \in answers' : a \in answers \/ a = new
    BY <1>9, <2>2
  <2>4. QED
    BY <2>1, <2>3, <2>a DEF AnswersOK
<1>16. QED
  BY <1>7, <1>11, <1>13, <1>14, <1>15 DEF Log

\* Rebuilds store nothing and read no tail.
LEMMA RebuildLog ==
  ASSUME IInv, Log, NEW a \in Actors, Rebuild(a)
  PROVE  Log'
<1>1. UNCHANGED <<raw, stream, answers>> /\ \A b \in Actors \ {a} : txn'[b] = txn[b]
  BY Sessions DEF Rebuild, OpenRow, ClaimRow, ReadEvents, CommitRebuild, FailRebuild,
     MarkFailed, database
<1>2. \E next : next \notin Keyed /\ phase' = [phase EXCEPT ![a] = next]
  BY DEF Rebuild, OpenRow, ClaimRow, ReadEvents, CommitRebuild, FailRebuild, MarkFailed,
     Goto, AfterRebuild, Keyed
<1>3. QED
  BY <1>1, <1>2, RestLog

\* What the loop over items does: it takes the next item, or it ends.
LEMMA LoopStep ==
  ASSUME IInv, NEW p \in Procs, NextItem(p)
  PROVE  /\ UNCHANGED <<database, locks>>
         /\ \A b \in Actors \ {p} : txn'[b] = txn[b] /\ phase'[b] = phase[b]
         /\ phase'[p] \in {"idle", "open"}
         /\ \E next \in {"idle", "open"} : phase' = [phase EXCEPT ![p] = next]
         /\ txn'[p].rows = txn[p].rows \/ txn'[p].rows = [i \in Items |-> None]
<1>1. UNCHANGED <<database, locks>>
  BY Zenon DEF NextItem
<1> DEFINE Moves ==
             /\ \A b \in Actors \ {p} : txn'[b] = txn[b] /\ phase'[b] = phase[b]
             /\ phase'[p] \in {"idle", "open"}
             /\ \E next \in {"idle", "open"} : phase' = [phase EXCEPT ![p] = next]
             /\ txn'[p].rows = txn[p].rows \/ txn'[p].rows = [i \in Items |-> None]
<1>2. ASSUME Finish(p, "idle")
      PROVE  Moves
  <2>1. txn' = [txn EXCEPT ![p] = NoSession] /\ phase' = [phase EXCEPT ![p] = "idle"]
    BY <1>2 DEF Finish, Goto
  <2>2. QED
    BY <2>1, Sessions DEF NoSession
<1>3. ASSUME NEW i \in txn[p].todo,
             txn' = [txn EXCEPT ![p] = [txn[p] EXCEPT !.item = i,
                                          !.todo = txn[p].todo \ {i}]],
             Goto(p, "open")
      PROVE  Moves
  <2>1. phase' = [phase EXCEPT ![p] = "open"]
    BY <1>3 DEF Goto
  <2>2. QED
    BY <1>3, <2>1, Sessions
<1> HIDE DEF Moves
<1>4. Moves
  BY <1>2, <1>3 DEF NextItem
<1>5. QED
  BY <1>1, <1>4 DEF Moves

\* Nor does the loop over items, nor a startup, nor an admin.
LEMMA LoopLog ==
  ASSUME IInv, Log, NEW p \in Procs, NextItem(p) \/ Boot(p) \/ Restart(p)
  PROVE  Log'
<1>1. CASE NextItem(p)
  <2>1. UNCHANGED <<raw, stream, answers>>
    BY <1>1, LoopStep DEF database
  <2>2. PICK next \in {"idle", "open"} : phase' = [phase EXCEPT ![p] = next]
    BY <1>1, LoopStep
  <2>3. next \notin Keyed
    BY <2>2 DEF Keyed
  <2>4. \A b \in Actors \ {p} : txn'[b] = txn[b]
    BY <1>1, LoopStep
  <2>5. QED
    BY <2>1, <2>2, <2>3, <2>4, RestLog, Sessions
<1>2. CASE Boot(p) \/ Restart(p)
  <2>1. UNCHANGED <<raw, stream, answers>> /\ \A b \in Actors \ {p} : txn'[b] = txn[b]
    BY <1>2, Sessions DEF Boot, Restart, database
  <2>2. \E next : next \notin Keyed /\ phase' = [phase EXCEPT ![p] = next]
    BY <1>2 DEF Boot, Restart, Goto, Keyed
  <2>3. QED
    BY <2>1, <2>2, RestLog, Sessions
<1>3. QED
  BY <1>1, <1>2

LEMMA AdminLog ==
  ASSUME IInv, Log, NEW t \in Threads, NEW i \in Items, AdminRebuild(t, i)
  PROVE  Log'
<1>1. UNCHANGED <<raw, stream, answers>> /\ \A b \in Actors \ {t} : txn'[b] = txn[b]
  BY Sessions DEF AdminRebuild, database
<1>2. "open" \notin Keyed /\ phase' = [phase EXCEPT ![t] = "open"]
  BY DEF AdminRebuild, Goto, Keyed
<1>3. QED
  BY <1>1, <1>2, RestLog, Sessions

\* A crash takes sessions away, and with them what was not committed.
LEMMA CrashLog ==
  ASSUME IInv, Log, NEW p \in Procs, Crash(p)
  PROVE  Log'
<1> DEFINE dead == {p} \cup {t \in Threads : HomeOf[t] = p}
<1>1. /\ UNCHANGED <<raw, stream, answers>>
      /\ phase' = [a \in Actors |-> IF a = p THEN "down"
                                    ELSE IF a \in dead THEN "idle" ELSE phase[a]]
      /\ txn' = [a \in Actors |-> IF a \in dead THEN NoSession ELSE txn[a]]
  BY DEF Crash, database
<1> HIDE DEF dead
<1>2. ASSUME NEW q \in Procs, phase'[q] \in Keyed
      PROVE  phase'[q] = phase[q] /\ txn'[q] = txn[q]
  BY <1>1, <1>2, Sessions DEF Keyed, dead
<1>3. QED
  BY <1>1, <1>2, QuietLog

\* Every step keeps the log.
LEMMA NextLog == IInv /\ Log /\ [Next]_vars => Log'
<1> SUFFICES ASSUME IInv, Log, [Next]_vars
             PROVE  Log'
  OBVIOUS
<1>1. ASSUME NEW p \in Procs, NEW r \in Requests,
             Refuse(p, r) \/ AdmitLegacy(p, r) \/ AdmitHmac(p, r)
      PROVE  Log'
  BY <1>1, RefuseLog, AdmitLog
<1>2. ASSUME NEW p \in Procs, Ingest(p)
      PROVE  Log'
  BY <1>2, AnswerStoredLog, ReadStreamLog, InsertLog, LoadLog, CommitEventLog DEF Ingest
<1>3. ASSUME NEW p \in Procs, NextItem(p) \/ Boot(p) \/ Crash(p) \/ Restart(p)
      PROVE  Log'
  BY <1>3, LoopLog, CrashLog
<1>4. ASSUME NEW a \in Actors, Rebuild(a)
      PROVE  Log'
  BY <1>4, RebuildLog
<1>5. ASSUME NEW t \in Threads, NEW i \in Items, AdminRebuild(t, i)
      PROVE  Log'
  BY <1>5, AdminLog
<1>6. ASSUME NEW s \in Sources, NEW policy \in Policy, PatchSource(s, policy)
      PROVE  Log'
  <2>1. UNCHANGED <<raw, stream, phase, txn, answers>>
    BY <1>6 DEF PatchSource
  <2>2. QED
    BY <2>1, QuietLog
<1>7. CASE UNCHANGED vars
  <2>1. UNCHANGED <<raw, stream, phase, txn, answers>>
    BY <1>7 DEF vars, database
  <2>2. QED
    BY <2>1, QuietLog
<1>8. QED
  BY <1>1, <1>2, <1>3, <1>4, <1>5, <1>6, <1>7, Zenon DEF Next

\* An empty log is a chain.
LEMMA InitLog == Init => Log
<1> SUFFICES ASSUME Init
             PROVE  Log
  OBVIOUS
<1>1. \A e \in Events : raw[e] = None
  BY DEF Init
<1>2. \A s \in Sources : stream[s].seq = 0 /\ stream[s].mac = None /\ EventsOf(s) = {}
  BY DEF Init, EventsOf, Stored
<1>3. ChainIntact
  <2>1. 1..0 = {}
    OBVIOUS
  <2>2. QED
    BY <1>2, <2>1 DEF ChainIntact
<1>4. \A p \in Procs : phase[p] = "boot"
  <2>1. phase = [a \in Actors |-> IF a \in Procs THEN "boot" ELSE "idle"]
    BY DEF Init
  <2>2. QED
    BY <2>1, ActorsDistinct
<1>5. TailOK /\ KeyOK /\ KeysApart
  BY <1>4 DEF TailOK, KeyOK, KeysApart, Keyed, Inserted
<1>6. StartOK /\ AnswersOK
  BY <1>2 DEF StartOK, AnswersOK, Init
<1>7. QED
  BY <1>3, <1>5, <1>6 DEF Log

\* The log is in order in every reachable state.
LEMMA LogAlways == Spec => [](IInv /\ Log)
BY InitSafe, NextSafe, InitLog, NextLog, PTL DEF Spec

\* Deliveries that read the tail of a stream without a lock, race for its next
\* place, fail, or die between two steps, leave every stream a chain without a gap:
\* verify_integrity never reports an event that this code stored.
THEOREM StreamsAreChains == Spec => []ChainIntact
<1>1. Log => ChainIntact
  BY DEF Log
<1>2. QED
  BY <1>1, LogAlways, PTL

\* Whatever deliveries of one event race with each other, "accepted" and
\* "duplicate" are answered for the content that is stored, "conflict" for another.
THEOREM AnswersStandUp == Spec => []AnswersFaithful
<1>1. Log => AnswersFaithful
  BY DEF Log, AnswersOK, Faithful, AnswersFaithful
<1>2. QED
  BY <1>1, LogAlways, PTL

-----------------------------------------------------------------------------
(* The newest of a set of events. *)

\* The greatest ingest_seq of a set of rows.
GreatestIn(rows, S) ==
  CHOOSE n \in {rows[e].seq : e \in S} : \A e \in S : rows[e].seq <= n

\* There is one, if their ingest_seqs are bounded.
LEMMA GreatestOf ==
  ASSUME NEW n \in Nat, NEW rows, NEW S, S # {}, \A e \in S : rows[e].seq \in 1..n
  PROVE  /\ GreatestIn(rows, S) \in 1..n
         /\ \A e \in S : rows[e].seq <= GreatestIn(rows, S)
         /\ \E e \in S : rows[e].seq = GreatestIn(rows, S)
<1> DEFINE T == {rows[e].seq : e \in S}
           m == CHOOSE k \in T : \A e \in S : rows[e].seq <= k
<1>1. T \in SUBSET (0..n) /\ T # {}
  OBVIOUS
<1>2. PICK k \in T : \A j \in T : j <= k
  <2> HIDE DEF T
  <2>1. QED
    BY <1>1, MaximumExists
<1>3. \E j \in T : \A e \in S : rows[e].seq <= j
  BY <1>2
<1>4. m \in T /\ \A e \in S : rows[e].seq <= m
  <2> HIDE DEF T
  <2>1. QED
    BY <1>3
<1>5. (\E e \in S : rows[e].seq = m) /\ m \in 1..n
  <2> HIDE DEF m
  <2>1. QED
    BY <1>4
<1>6. GreatestIn(rows, S) = m
  BY DEF GreatestIn
<1>7. QED
  <2> HIDE DEF m
  <2>1. QED
    BY <1>4, <1>5, <1>6

\* LatestOf is the greatest ingest_seq, now and after a step.
LEMMA LatestIsGreatest ==
  ASSUME TypeOK, NEW S \in SUBSET Stored, S # {}
  PROVE  /\ LatestOf(S) \in 1..nextSeq /\ \A e \in S : raw[e].seq <= LatestOf(S)
         /\ \E e \in S : raw[e].seq = LatestOf(S)
<1>1. nextSeq \in Nat /\ \A e \in S : raw[e].seq \in 1..nextSeq
  BY DEF TypeOK, Stored
<1>2. LatestOf(S) = GreatestIn(raw, S)
  BY DEF LatestOf, GreatestIn
<1>3. QED
  BY <1>1, <1>2, GreatestOf

LEMMA LatestIsGreatestNext ==
  ASSUME TypeOK', NEW S, S \subseteq Stored', S # {}
  PROVE  /\ LatestOf(S)' \in 1..nextSeq' /\ \A e \in S : raw'[e].seq <= LatestOf(S)'
         /\ \E e \in S : raw'[e].seq = LatestOf(S)'
<1>1. nextSeq' \in Nat /\ \A e \in S : raw'[e].seq \in 1..nextSeq'
  BY DEF TypeOK, Stored
<1>2. LatestOf(S)' = GreatestIn(raw', S)
  BY DEF LatestOf, GreatestIn
<1>3. QED
  BY <1>1, <1>2, GreatestOf

\* The log keeps what is stored.
Keeps == \A e \in Events : raw[e] # None => raw'[e] = raw[e]

LEMMA LogKeeps == ASSUME IInv, Log, [Next]_vars PROVE Keeps
<1>1. CASE raw' = raw
  BY <1>1 DEF Keeps
<1>2. CASE raw' # raw
  <2>1. PICK p \in Procs : CommitEvent(p)
    BY <1>2, RawStep
  <2>2. PICK e : e = txn[p].req.id
    OBVIOUS
  <2>3. raw[e] = None /\ \E row : raw' = [raw EXCEPT ![e] = row]
    BY <2>1, <2>2, CommitAppends DEF Appends
  <2>4. QED
    BY <2>3 DEF Keeps, IInv, TypeOK
<1>3. QED
  BY <1>1, <1>2

\* So the newest of a set of stored events stays the newest ...
LEMMA SameLatest ==
  ASSUME TypeOK, TypeOK', Keeps, NEW S \in SUBSET Stored, S # {}
  PROVE  LatestOf(S)' = LatestOf(S)
<1>1. S \subseteq Stored' /\ \A e \in S : raw'[e] = raw[e]
  BY DEF Keeps, Stored
<1>2. PICK m \in Nat : m = LatestOf(S)
  BY LatestIsNat
<1>3. /\ \A e \in S : raw[e].seq <= m
      /\ \E e \in S : raw[e].seq = m
  BY <1>2, LatestIsGreatest
<1>4. /\ LatestOf(S)' \in 1..nextSeq' /\ \A e \in S : raw'[e].seq <= LatestOf(S)'
      /\ \E e \in S : raw'[e].seq = LatestOf(S)'
  BY <1>1, LatestIsGreatestNext
<1>5. PICK k : k = LatestOf(S)'
  OBVIOUS
<1>6. /\ \A e \in S : raw[e].seq <= k
      /\ \E e \in S : raw[e].seq = k
      /\ nextSeq' \in Nat /\ k \in 1..nextSeq'
  BY <1>1, <1>4, <1>5 DEF TypeOK
<1>7. m <= k /\ k <= m /\ k \in Nat
  BY <1>3, <1>6
<1>8. m = k
  BY <1>7
<1>9. QED
  BY <1>2, <1>5, <1>8

\* ... and a larger set has a newer one.
LEMMA LatestGrows ==
  ASSUME TypeOK, NEW S \in SUBSET Stored, NEW T \in SUBSET S, T # {}
  PROVE  LatestOf(T) <= LatestOf(S)
<1>1. PICK e \in T : raw[e].seq = LatestOf(T)
  BY LatestIsGreatest
<1>2. raw[e].seq <= LatestOf(S)
  BY LatestIsGreatest
<1>3. QED
  BY <1>1, <1>2

\* What the projection of an item shows is stored.
LEMMA NewestIsNat ==
  ASSUME IInv, NEW i \in Items
  PROVE  Newest(i) \in Nat /\ view[i].events \in SUBSET Stored
<1>1. view[i].events \in SUBSET Stored
  BY DEF IInv, HistoryOK, StoredOf
<1>2. QED
  BY <1>1, LatestIsNat DEF IInv, Newest

LEMMA SameNewest ==
  ASSUME IInv, TypeOK', Keeps, NEW i \in Items, view'[i] = view[i]
  PROVE  Newest(i)' = Newest(i)
<1>1. PICK S : S = view[i].events
  OBVIOUS
<1>2. S \in SUBSET Stored
  BY <1>1, NewestIsNat
<1>3. CASE S = {}
  BY <1>1, <1>3 DEF Newest
<1>4. CASE S # {}
  <2>1. LatestOf(S)' = LatestOf(S)
    BY <1>2, <1>4, SameLatest DEF IInv
  <2>2. Newest(i) = LatestOf(S)
    BY <1>1, <1>4 DEF Newest
  <2>3. Newest(i)' = LatestOf(S)'
    <3>1. view'[i].events = S
      BY <1>1
    <3>2. QED
      BY <1>4, <3>1 DEF Newest, LatestOf
  <2>4. QED
    BY <2>1, <2>2, <2>3
<1>5. QED
  BY <1>3, <1>4

-----------------------------------------------------------------------------
(* The projection rows, step by step. *)

\* What a step that rebuilds nothing leaves of the rows and the sessions.
RowsKept ==
  \A i \in Items :
    /\ proj[i] # None => proj'[i] # None /\ proj'[i].projected = proj[i].projected
    /\ proj[i] = None /\ proj'[i] # None => proj'[i].projected = 0

RowsLoaded(b) ==
  /\ \A i \in Items : txn'[b].rows[i] # None =>
       txn'[b].rows[i] = txn[b].rows[i] \/ txn'[b].rows[i] = proj[i]
  /\ phase'[b] \in {"read", "apply"} /\ txn'[b].rows[txn'[b].item] = None
       => proj'[txn'[b].item] = None

LEMMA LoadedHasRow ==
  ASSUME IInv, NEW a \in Actors, NEW i \in Items, txn[a].rows[i] # None
  PROVE  proj[i] # None
BY DEF IInv, SessionOK, SessionOf

LEMMA RowNumbers ==
  ASSUME IInv
  PROVE  /\ \A i \in Items : proj[i] # None => proj[i].projected \in Nat /\ proj[i].latest \in Nat
         /\ \A a \in Actors, i \in Items : txn[a].rows[i] # None =>
              txn[a].rows[i].projected \in Nat /\ txn[a].rows[i].latest \in Nat
<1>1. ASSUME NEW i \in Items, proj[i] # None
      PROVE  proj[i].projected \in Nat /\ proj[i].latest \in Nat
  BY <1>1 DEF IInv, TypeOK, ProjRow
<1>2. ASSUME NEW a \in Actors, NEW i \in Items, txn[a].rows[i] # None
      PROVE  txn[a].rows[i].projected \in Nat /\ txn[a].rows[i].latest \in Nat
  <2>1. txn[a] \in SessionRow
    BY Sessions
  <2>2. txn[a].rows[i] \in ProjRow
    BY <1>2, <2>1 DEF SessionRow
  <2>3. QED
    BY <2>2 DEF ProjRow
<1>3. QED
  BY <1>1, <1>2

LEMMA QuietRows ==
  ASSUME IInv, IInv', Rows, Keeps, RowsKept, view' = view,
         \A b \in Actors : RowsLoaded(b)
  PROVE  Rows'
<1>1. SnapshotsOK'
  <2>1. ASSUME NEW b \in Actors, NEW i \in Items, txn'[b].rows[i] # None
        PROVE  txn'[b].rows[i].projected <= proj'[i].projected
    <3>1. CASE txn'[b].rows[i] = txn[b].rows[i]
      <4>1. txn[b].rows[i] # None /\ proj[i] # None
        BY <2>1, <3>1, LoadedHasRow
      <4>2. txn[b].rows[i].projected <= proj[i].projected
        BY <4>1 DEF Rows, SnapshotsOK
      <4>3. proj'[i].projected = proj[i].projected
        BY <4>1 DEF RowsKept
      <4>4. QED
        BY <3>1, <4>2, <4>3
    <3>2. CASE txn'[b].rows[i] = proj[i]
      <4>1. proj[i] # None
        BY <2>1, <3>2
      <4>2. proj'[i].projected = proj[i].projected /\ proj[i].projected \in Nat
        BY <4>1, RowNumbers DEF RowsKept
      <4>3. QED
        BY <3>2, <4>2
    <3>3. QED
      BY <2>1, <3>1, <3>2 DEF RowsLoaded
  <2>2. QED
    BY <2>1 DEF SnapshotsOK
<1>2. FirstRowOK'
  BY DEF RowsLoaded, FirstRowOK
<1>3. NoRowNoView'
  BY DEF RowsKept, Rows, NoRowNoView
<1>4. ProjectedIsTruthful'
  <2>1. ASSUME NEW i \in Items, proj'[i] # None
        PROVE  proj'[i].projected = Newest(i)'
    <3>1. Newest(i)' = Newest(i)
      BY SameNewest DEF IInv
    <3>2. CASE proj[i] # None
      BY <3>1, <3>2 DEF RowsKept, Rows, ProjectedIsTruthful, Newest
    <3>3. CASE proj[i] = None
      <4>1. view[i].events = {}
        BY <3>3 DEF Rows, NoRowNoView
      <4>2. Newest(i) = 0
        BY <4>1 DEF Newest
      <4>3. proj'[i].projected = 0
        BY <2>1, <3>3 DEF RowsKept
      <4>4. QED
        BY <3>1, <4>2, <4>3
    <3>4. QED
      BY <3>2, <3>3
  <2>2. QED
    BY <2>1 DEF ProjectedIsTruthful, Newest
<1>5. QED
  BY <1>1, <1>2, <1>3, <1>4 DEF Rows

\* The sessions that a step leaves as they are.
LEMMA IdleRows ==
  ASSUME Rows, NEW b \in Actors, txn'[b] = txn[b], phase'[b] = phase[b],
         phase[b] \in {"read", "apply"} => proj'[txn[b].item] = proj[txn[b].item]
  PROVE  RowsLoaded(b)
BY DEF RowsLoaded, Rows, FirstRowOK

\* A step that leaves the projection rows as they are.
LEMMA SameRows ==
  ASSUME IInv, IInv', Rows, Keeps, proj' = proj, view' = view,
         \A b \in Actors : RowsLoaded(b) \/ (txn'[b] = txn[b] /\ phase'[b] = phase[b])
  PROVE  Rows'
<1>1. RowsKept
  BY DEF RowsKept
<1>2. \A b \in Actors : RowsLoaded(b)
  BY IdleRows
<1>3. QED
  BY <1>1, <1>2, QuietRows

\* A step of actor p that leaves the projection tables as they are, outside of the
\* locked part of a rebuild.
Outside(p) ==
  /\ proj' = proj /\ view' = view
  /\ \A b \in Actors \ {p} : txn'[b] = txn[b] /\ phase'[b] = phase[b]
  /\ phase'[p] \notin {"read", "apply"}
  /\ \A i \in Items : \/ txn'[p].rows[i] = None
                     \/ txn'[p].rows[i] = txn[p].rows[i]
                     \/ txn'[p].rows[i] = proj[i]

LEMMA OutsideRows ==
  ASSUME IInv, IInv', Rows, Keeps, NEW p \in Actors, Outside(p)
  PROVE  Rows'
<1>1. RowsLoaded(p)
  BY DEF Outside, RowsLoaded
<1>2. \A b \in Actors : RowsLoaded(b) \/ (txn'[b] = txn[b] /\ phase'[b] = phase[b])
  BY <1>1 DEF Outside
<1>3. proj' = proj /\ view' = view
  BY DEF Outside
<1>4. QED
  BY <1>2, <1>3, SameRows

\* An actor that finishes.
LEMMA FinishRows ==
  ASSUME IInv, NEW a \in Actors, NEW next, next \notin {"read", "apply"}, Finish(a, next),
         proj' = proj, view' = view
  PROVE  Outside(a)
BY Sessions DEF Outside, Finish, Goto, NoSession

\* An actor that goes on with what it has loaded.
LEMMA GoOnRows ==
  ASSUME IInv, NEW a \in Actors, NEW next, next \notin {"read", "apply"},
         phase' = [phase EXCEPT ![a] = next], NEW new, txn' = [txn EXCEPT ![a] = new],
         new.rows = txn[a].rows, proj' = proj, view' = view
  PROVE  Outside(a)
BY Sessions DEF Outside

LEMMA AdmitOutside ==
  ASSUME IInv, NEW p \in Procs, NEW r \in Requests, AdmitLegacy(p, r) \/ AdmitHmac(p, r)
  PROVE  Outside(p)
<1>1. /\ proj' = proj /\ view' = view /\ phase' = [phase EXCEPT ![p] = "lookup"]
  BY DEF AdmitLegacy, AdmitHmac, database, Goto
<1>2. PICK new : new = [txn[p] EXCEPT !.req = r, !.from = source[SourceOf[r.id]]]
  OBVIOUS
<1>3. txn' = [txn EXCEPT ![p] = new]
  BY <1>2 DEF AdmitLegacy, AdmitHmac
<1>4. new.rows = txn[p].rows
  BY <1>2, Sessions
<1>5. QED
  BY <1>1, <1>3, <1>4, GoOnRows, Sessions

LEMMA IngestOutside ==
  ASSUME IInv, NEW p \in Procs,
         AnswerStored(p) \/ ReadStream(p) \/ Insert(p) \/ LoadRow(p) \/ SelectAffected(p)
  PROVE  Outside(p)
<1>0. p \in Actors
  BY Sessions
<1>1. CASE AnswerStored(p)
  <2>1. Finish(p, "idle") /\ proj' = proj /\ view' = view
    BY <1>1 DEF AnswerStored
  <2>2. QED
    BY <1>0, <2>1, FinishRows
<1>2. CASE (Insert(p) \/ LoadRow(p)) /\ Abort(p)
  <2>1. Finish(p, "idle") /\ proj' = proj /\ view' = view
    BY <1>2 DEF Insert, LoadRow, Abort
  <2>2. QED
    BY <1>0, <2>1, FinishRows
<1>3. CASE ReadStream(p)
  <2>1. PICK new : new = [txn[p] EXCEPT !.tail = stream[SourceOf[txn[p].req.id]]]
    OBVIOUS
  <2>2. /\ proj' = proj /\ view' = view /\ phase' = [phase EXCEPT ![p] = "insert"]
        /\ txn' = [txn EXCEPT ![p] = new]
    BY <1>3, <2>1 DEF ReadStream, Goto, database
  <2>3. new.rows = txn[p].rows
    BY <1>0, <2>1, Sessions
  <2>4. QED
    BY <1>0, <2>2, <2>3, GoOnRows
<1>4. CASE Insert(p) /\ ~Abort(p)
  <2>1. PICK new : new = [txn[p] EXCEPT !.seq = nextSeq + 1]
    OBVIOUS
  <2>2. PICK next : next = IF ItemOf[txn[p].req.id] = None THEN "select" ELSE "load"
    OBVIOUS
  <2>3. /\ proj' = proj /\ view' = view /\ phase' = [phase EXCEPT ![p] = next]
        /\ txn' = [txn EXCEPT ![p] = new]
    BY <1>4, <2>1, <2>2 DEF Insert, Goto
  <2>4. next \notin {"read", "apply"}
    BY <2>2
  <2>5. new.rows = txn[p].rows
    BY <1>0, <2>1, Sessions
  <2>6. QED
    BY <1>0, <2>3, <2>4, <2>5, GoOnRows
<1>5. CASE LoadRow(p) /\ ~Abort(p)
  <2>1. PICK i : i = ItemOf[txn[p].req.id]
    OBVIOUS
  <2>2. /\ proj' = proj /\ view' = view /\ phase' = [phase EXCEPT ![p] = "select"]
        /\ txn' = [txn EXCEPT ![p].rows[i] = proj[i]]
    BY <1>5, <2>1 DEF LoadRow, Goto
  <2>3. txn[p].rows \in [Items -> ProjRow \cup {None}]
    BY <1>0, Sessions DEF SessionRow
  <2>4. /\ \A b \in Actors \ {p} : txn'[b] = txn[b] /\ phase'[b] = phase[b]
        /\ phase'[p] = "select" /\ txn'[p].rows = [txn[p].rows EXCEPT ![i] = proj[i]]
    BY <1>0, <2>2, Sessions
  <2>5. \A j \in Items : txn'[p].rows[j] = txn[p].rows[j] \/ txn'[p].rows[j] = proj[j]
    BY <2>3, <2>4
  <2>6. QED
    BY <2>2, <2>4, <2>5 DEF Outside
<1>6. CASE SelectAffected(p)
  <2> DEFINE hit == {i \in Items : view[i].events \cap Covers[txn[p].req.id] # {}}
             rows == [i \in Items |-> IF i \in hit /\ txn[p].rows[i] = None
                                      THEN proj[i] ELSE txn[p].rows[i]]
  <2>1. /\ proj' = proj /\ view' = view /\ phase' = [phase EXCEPT ![p] = "commit"]
        /\ txn' = [txn EXCEPT ![p] = [txn[p] EXCEPT !.hit = hit, !.rows = rows]]
    BY <1>0, <1>6, Sessions DEF SelectAffected, Goto, database
  <2>2. \A i \in Items : rows[i] = txn[p].rows[i] \/ rows[i] = proj[i]
    OBVIOUS
  <2> HIDE DEF hit, rows
  <2>3. /\ \A b \in Actors \ {p} : txn'[b] = txn[b] /\ phase'[b] = phase[b]
        /\ phase'[p] = "commit" /\ txn'[p].rows = rows
    BY <1>0, <2>1, Sessions
  <2>4. QED
    BY <2>1, <2>2, <2>3 DEF Outside
<1>7. QED
  BY <1>1, <1>2, <1>3, <1>4, <1>5, <1>6

\* The loop over items, a startup, an admin's request.
LEMMA LoopOutside ==
  ASSUME IInv, NEW p \in Procs, NextItem(p) \/ Boot(p) \/ Restart(p)
  PROVE  Outside(p)
<1>1. CASE NextItem(p)
  <2>1. /\ proj' = proj /\ view' = view
        /\ \A b \in Actors \ {p} : txn'[b] = txn[b] /\ phase'[b] = phase[b]
        /\ phase'[p] \in {"idle", "open"}
        /\ txn'[p].rows = txn[p].rows \/ txn'[p].rows = [i \in Items |-> None]
    BY <1>1, LoopStep DEF database
  <2>2. QED
    BY <2>1 DEF Outside
<1>2. CASE Boot(p)
  <2>1. PICK new : new = [txn[p] EXCEPT !.todo = {i \in Items : Flagged(i)}]
    OBVIOUS
  <2>2. /\ proj' = proj /\ view' = view /\ phase' = [phase EXCEPT ![p] = "next"]
        /\ txn' = [txn EXCEPT ![p] = new]
    BY <1>2, <2>1 DEF Boot, Goto, database
  <2>3. new.rows = txn[p].rows
    BY <2>1, Sessions
  <2>4. QED
    BY <2>2, <2>3, GoOnRows, Sessions
<1>3. CASE Restart(p)
  <2>1. /\ proj' = proj /\ view' = view /\ txn' = txn /\ phase' = [phase EXCEPT ![p] = "boot"]
    BY <1>3 DEF Restart, Goto, database
  <2>2. QED
    BY <2>1, Sessions DEF Outside
<1>4. QED
  BY <1>1, <1>2, <1>3

LEMMA AdminOutside ==
  ASSUME IInv, NEW t \in Threads, NEW i \in Items, AdminRebuild(t, i)
  PROVE  Outside(t)
<1>1. PICK new : new = [txn[t] EXCEPT !.item = i]
  OBVIOUS
<1>2. /\ proj' = proj /\ view' = view /\ phase' = [phase EXCEPT ![t] = "open"]
      /\ txn' = [txn EXCEPT ![t] = new]
  BY <1>1 DEF AdminRebuild, Goto, database
<1>3. new.rows = txn[t].rows
  BY <1>1, Sessions
<1>4. QED
  BY <1>2, <1>3, GoOnRows, Sessions

\* A rebuild that loads its row.
LEMMA OpenOutside ==
  ASSUME IInv, NEW a \in Actors, OpenRow(a)
  PROVE  Outside(a)
<1>1. PICK i : i = txn[a].item
  OBVIOUS
<1>2. /\ proj' = proj /\ view' = view /\ phase' = [phase EXCEPT ![a] = "claim"]
      /\ txn' = [txn EXCEPT ![a].rows[i] = proj[i]]
  BY <1>1 DEF OpenRow, Goto, database
<1>3. txn[a].rows \in [Items -> ProjRow \cup {None}]
  BY Sessions DEF SessionRow
<1>4. /\ \A b \in Actors \ {a} : txn'[b] = txn[b] /\ phase'[b] = phase[b]
      /\ phase'[a] = "claim" /\ txn'[a].rows = [txn[a].rows EXCEPT ![i] = proj[i]]
  BY <1>2, Sessions
<1>5. \A j \in Items : txn'[a].rows[j] = txn[a].rows[j] \/ txn'[a].rows[j] = proj[j]
  BY <1>3, <1>4
<1>6. QED
  BY <1>2, <1>4, <1>5 DEF Outside

\* The commit of a delivery writes the status and the latest event of a row, never
\* the newest event that is projected.
LEMMA CommitEventRows ==
  ASSUME IInv, IInv', Rows, Keeps, NEW p \in Procs, CommitEvent(p)
  PROVE  Rows'
<1>1. /\ view' = view /\ rowLock' = rowLock
      /\ proj' = [i \in Items |-> IF i \in Touched(p)
                                  THEN Emit(proj[i], txn[p].rows[i], MarkedStale(p, i))
                                  ELSE proj[i]]
      /\ \A b \in Actors \ {p} : txn'[b] = txn[b] /\ phase'[b] = phase[b]
      /\ phase'[p] \in {"next", "open"}
      /\ txn'[p] = [NoSession EXCEPT !.todo = txn[p].hit, !.item = ItemOf[txn[p].req.id]]
  BY Sessions DEF CommitEvent, Goto
<1>2. ASSUME NEW i \in Items, i \in Touched(p)
      PROVE  proj[i] # None /\ proj'[i] # None /\ proj'[i].projected = proj[i].projected
  <2>1. txn[p].rows[i] # None
    BY <1>2 DEF Touched
  <2>2. proj[i] \in ProjRow /\ proj[i] # None
    BY <2>1, LoadedHasRow, Sessions DEF IInv, TypeOK
  <2>3. txn[p].rows[i] \in ProjRow
    BY <2>1, Sessions DEF SessionRow
  <2>4. MarkedStale(p, i).projected = txn[p].rows[i].projected
    BY <2>3 DEF MarkedStale, ProjRow
  <2>5. DOMAIN proj[i] = {"latest", "projected", "status"}
    BY <2>2 DEF ProjRow
  <2>6. Emit(proj[i], txn[p].rows[i], MarkedStale(p, i)).projected = proj[i].projected
    BY <2>4, <2>5 DEF Emit
  <2>7. proj'[i] = Emit(proj[i], txn[p].rows[i], MarkedStale(p, i))
    BY <1>1, <1>2
  <2>8. proj'[i] # None
    <3>1. Emit(proj[i], txn[p].rows[i], MarkedStale(p, i)) \in ProjRow
      BY <1>2, StaleRowsSafe DEF CommitEvent, IInv
    <3>2. QED
      BY <2>7, <3>1, NoneAssumption
  <2>9. QED
    BY <2>2, <2>6, <2>7, <2>8
<1>3. \A i \in Items : i \notin Touched(p) => proj'[i] = proj[i]
  BY <1>1
<1>4. RowsKept
  BY <1>2, <1>3 DEF RowsKept
<1>5. ASSUME NEW b \in Actors
      PROVE  RowsLoaded(b)
  <2>1. CASE b = p
    <3>1. \A i \in Items : txn'[p].rows[i] = None
      BY <1>1 DEF NoSession
    <3>2. QED
      BY <1>1, <2>1, <3>1 DEF RowsLoaded
  <2>2. CASE b # p /\ phase[b] \in {"read", "apply"}
    <3>1. txn[b].item \in Items
      BY <2>2 DEF IInv, SessionOK, SessionOf, RebuildPhases
    <3>2. txn[b].rows[txn[b].item] = None => proj'[txn[b].item] = None
      <4>1. ASSUME txn[b].rows[txn[b].item] = None
            PROVE  proj'[txn[b].item] = None
        <5>1. proj[txn[b].item] = None
          BY <2>2, <4>1 DEF Rows, FirstRowOK
        <5>2. QED
          BY <1>2, <1>3, <3>1, <5>1
      <4>2. QED
        BY <4>1
    <3>3. QED
      BY <1>1, <2>2, <3>2 DEF RowsLoaded
  <2>3. CASE b # p /\ phase[b] \notin {"read", "apply"}
    BY <1>1, <2>3 DEF RowsLoaded
  <2>4. QED
    BY <2>1, <2>2, <2>3
<1>6. QED
  BY <1>1, <1>4, <1>5, QuietRows

\* The steps of a rebuild before its commit.
LEMMA RebuildRows ==
  ASSUME IInv, IInv', Rows, Keeps, NEW a \in Actors,
         OpenRow(a) \/ ClaimRow(a) \/ ReadEvents(a) \/ FailRebuild(a)
  PROVE  Rows'
<1>1. CASE OpenRow(a)
  BY <1>1, OpenOutside, OutsideRows
<1>2. CASE ClaimRow(a) \/ FailRebuild(a)
  <2>1. /\ proj' = proj /\ view' = view /\ txn' = txn
        /\ \A b \in Actors \ {a} : phase'[b] = phase[b]
    BY <1>2, Sessions DEF ClaimRow, FailRebuild, Goto, database
  <2>2. \/ phase'[a] = "failing"
        \/ phase'[a] = "read" /\ (txn[a].rows[txn[a].item] # None \/ proj[txn[a].item] = None)
    BY <1>2, Sessions DEF ClaimRow, FailRebuild, Goto
  <2>3. RowsLoaded(a)
    BY <2>1, <2>2 DEF RowsLoaded
  <2>4. QED
    BY <2>1, <2>3, SameRows
<1>3. CASE ReadEvents(a)
  <2>1. PICK seen : txn' = [txn EXCEPT ![a].seen = seen]
    BY <1>3 DEF ReadEvents
  <2>2. /\ proj' = proj /\ view' = view /\ phase[a] = "read"
        /\ \A b \in Actors \ {a} : txn'[b] = txn[b] /\ phase'[b] = phase[b]
    BY <1>3, <2>1, Sessions DEF ReadEvents, Goto, database
  <2>3. txn'[a].rows = txn[a].rows /\ txn'[a].item = txn[a].item
    BY <2>1, Sessions
  <2>4. RowsLoaded(a)
    BY <2>2, <2>3 DEF RowsLoaded, Rows, FirstRowOK
  <2>5. QED
    BY <2>2, <2>4, SameRows
<1>4. QED
  BY <1>1, <1>2, <1>3

\* Only one rebuild of an item is in its locked part.
LEMMA OthersElsewhere ==
  ASSUME IInv, NEW a \in Actors, NEW b \in Actors, a # b, phase[b] \in {"read", "apply"},
         rowLock[txn[a].item] = a \/ rowLock[txn[a].item] = None
  PROVE  txn[b].item \in Items /\ txn[b].item # txn[a].item
<1>1. rowLock[txn[b].item] = b /\ txn[b].item \in Items
  BY DEF IInv, ClaimOK, ClaimOf, SessionOK, SessionOf, RebuildPhases
<1>2. QED
  BY <1>1, ActorsDistinct

LEMMA MarkFailedRows ==
  ASSUME IInv, IInv', Rows, Keeps, NEW a \in Actors, MarkFailed(a)
  PROVE  Rows'
<1>1. PICK i \in Items : i = txn[a].item
  BY RebuildOf DEF MarkFailed, IInv, RebuildPhases
<1>2. PICK row : row = IF proj[i] = None THEN [FreshRow EXCEPT !.status = "failed"]
                       ELSE [proj[i] EXCEPT !.status = "failed"]
  OBVIOUS
<1>3. proj' = [proj EXCEPT ![i] = row] /\ view' = view /\ rowLock[i] = None
  BY <1>1, <1>2 DEF MarkFailed
<1>4. proj'[i] = row /\ \A j \in Items \ {i} : proj'[j] = proj[j]
  BY <1>3 DEF IInv, TypeOK
<1>5. row.projected = IF proj[i] = None THEN 0 ELSE proj[i].projected
  <2>1. CASE proj[i] = None
    BY <1>2, <2>1 DEF FreshRow
  <2>2. CASE proj[i] # None
    <3>1. proj[i] \in ProjRow
      BY <2>2 DEF IInv, TypeOK
    <3>2. QED
      BY <1>2, <2>2, <3>1 DEF ProjRow
  <2>3. QED
    BY <2>1, <2>2
<1>6. \A j \in Items : proj[j] # None => proj'[j] # None
  <2>1. row \in ProjRow
    BY <1>2 DEF FreshRow, ProjRow, Status, IInv, TypeOK
  <2>2. QED
    BY <1>4, <2>1, NoneAssumption
<1>7. RowsKept
  BY <1>4, <1>5, <1>6 DEF RowsKept
<1>8. /\ \A b \in Actors \ {a} : txn'[b] = txn[b] /\ phase'[b] = phase[b]
      /\ phase'[a] \in {"next", "idle"} /\ \A j \in Items : txn'[a].rows[j] = None
  BY RestOfList, Sessions DEF MarkFailed, Goto, AfterRebuild, IInv
<1>9. ASSUME NEW b \in Actors
      PROVE  RowsLoaded(b)
  <2>1. CASE b = a
    BY <1>8, <2>1 DEF RowsLoaded
  <2>2. CASE b # a /\ phase[b] \in {"read", "apply"}
    <3>1. txn[b].item \in Items \ {i}
      BY <1>1, <1>3, <2>2, OthersElsewhere
    <3>2. QED
      BY <1>4, <1>8, <2>2, <3>1, IdleRows
  <2>3. CASE b # a /\ phase[b] \notin {"read", "apply"}
    BY <1>8, <2>3 DEF RowsLoaded
  <2>4. QED
    BY <2>1, <2>2, <2>3
<1>10. QED
  BY <1>3, <1>7, <1>9, QuietRows

\* The rebuild writes the newest event it has replayed, unless that is what the row
\* it had loaded says already; then the row, read under its lock, says so too.
LEMMA CommitRebuildRows ==
  ASSUME IInv, IInv', Rows, Keeps, NEW a \in Actors, CommitRebuild(a)
  PROVE  Rows'
<1>1. PICK i \in Items : i = txn[a].item
  BY RebuildOf DEF CommitRebuild, IInv, RebuildPhases
<1>2. PICK seen \in SUBSET Stored : seen = txn[a].seen.events
  BY <1>1 DEF CommitRebuild, IInv, ClaimOK, ClaimOf, StoredOf
<1>3. phase[a] = "apply" /\ rowLock[i] = a /\ view[i].events \subseteq seen
  BY <1>1, <1>2 DEF CommitRebuild, IInv, ClaimOK, ClaimOf
<1>4. PICK new : new = [FreshRow EXCEPT !.status = "rebuilding"]
  OBVIOUS
<1>5. PICK loaded : loaded = IF txn[a].rows[i] = None THEN new
                             ELSE [txn[a].rows[i] EXCEPT !.status = "rebuilding"]
  OBVIOUS
<1>6. PICK row : row = IF proj[i] = None THEN new ELSE proj[i]
  OBVIOUS
<1>7. PICK built : built = Rebuilt(a, loaded)
  OBVIOUS
<1>8. /\ proj' = [proj EXCEPT ![i] = Emit(row, loaded, built)]
      /\ view' = IF seen = {} THEN view ELSE [view EXCEPT ![i] = txn[a].seen]
      /\ phase' = [phase EXCEPT ![a] = AfterRebuild(a)]
      /\ txn' = [txn EXCEPT ![a] = [NoSession EXCEPT !.todo = txn[a].todo]]
  BY <1>1, <1>2, <1>4, <1>5, <1>6, <1>7 DEF CommitRebuild, Goto
<1>9. /\ \A b \in Actors \ {a} : txn'[b] = txn[b] /\ phase'[b] = phase[b]
      /\ phase'[a] \in {"next", "idle"} /\ \A j \in Items : txn'[a].rows[j] = None
  BY <1>8, RestOfList, Sessions DEF AfterRebuild, IInv
<1>10. /\ proj'[i] = Emit(row, loaded, built) /\ \A j \in Items \ {i} : proj'[j] = proj[j]
       /\ \A j \in Items \ {i} : view'[j] = view[j]
       /\ view'[i].events = IF seen = {} THEN view[i].events ELSE seen
  BY <1>2, <1>8 DEF IInv, TypeOK
<1>11. proj'[i] # None
  <2>1. Emit(row, loaded, built) \in ProjRow
    BY <1>1, <1>3, <1>4, <1>5, <1>6, <1>7, RebuiltRowSafe
  <2>2. QED
    BY <1>10, <2>1, NoneAssumption
<1>12. /\ row.projected = Newest(i) /\ row.projected \in Nat
       /\ loaded.projected \in Nat /\ loaded.projected <= row.projected
       /\ txn[a].rows[i] = None => loaded.projected = row.projected
       /\ DOMAIN row = {"latest", "projected", "status"}
       /\ DOMAIN loaded = {"latest", "projected", "status"}
  <2>1. /\ new.projected = 0 /\ DOMAIN new = {"latest", "projected", "status"}
    BY <1>4 DEF FreshRow
  <2>2. proj[i] = None => Newest(i) = 0
    BY DEF Rows, NoRowNoView, Newest
  <2>3. proj[i] # None => proj[i] \in ProjRow /\ proj[i].projected = Newest(i)
    BY DEF IInv, TypeOK, Rows, ProjectedIsTruthful, Newest
  <2>4. row.projected = Newest(i) /\ DOMAIN row = {"latest", "projected", "status"}
    BY <1>6, <2>1, <2>2, <2>3 DEF ProjRow
  <2>5. CASE txn[a].rows[i] = None
    <3>1. proj[i] = None
      BY <1>1, <1>3, <2>5 DEF Rows, FirstRowOK
    <3>2. row = new /\ loaded = new
      BY <1>5, <1>6, <2>5, <3>1
    <3>3. QED
      BY <2>1, <2>4, <2>5, <3>2
  <2>6. CASE txn[a].rows[i] # None
    <3>1. txn[a].rows[i] \in ProjRow
      BY <2>6, Sessions DEF SessionRow
    <3>2. /\ loaded.projected = txn[a].rows[i].projected /\ loaded.projected \in Nat
          /\ DOMAIN loaded = {"latest", "projected", "status"}
      BY <1>5, <2>6, <3>1 DEF ProjRow
    <3>3. proj[i] # None /\ txn[a].rows[i].projected <= proj[i].projected
      BY <2>6, LoadedHasRow DEF Rows, SnapshotsOK
    <3>4. QED
      BY <1>6, <2>3, <2>4, <2>6, <3>2, <3>3, NewestIsNat
  <2>7. QED
    BY <2>5, <2>6
<1>13. proj'[i].projected = IF built.projected # loaded.projected THEN built.projected
                            ELSE row.projected
  BY <1>10, <1>12 DEF Emit
<1>14. Newest(i) <= Newest(i)' /\ proj'[i].projected = Newest(i)'
  <2>1. CASE seen = {}
    <3>1. built.projected = loaded.projected
      BY <1>2, <1>7, <1>12, <2>1 DEF Rebuilt
    <3>2. view'[i] = view[i]
      BY <1>8, <2>1
    <3>3. Newest(i)' = Newest(i)
      BY <3>2, SameNewest DEF IInv
    <3>4. QED
      BY <1>12, <1>13, <3>1, <3>3
  <2>2. CASE seen # {}
    <3>1. PICK n \in Nat : n = LatestOf(seen)
      BY <1>2, <2>2, LatestIsNat DEF IInv
    <3>2. built.projected = n
      BY <1>2, <1>7, <2>2, <3>1 DEF Rebuilt
    <3>3. Newest(i)' = n
      <4>1. LatestOf(seen)' = LatestOf(seen)
        BY <2>2, SameLatest DEF IInv
      <4>2. view'[i].events = seen
        BY <1>10, <2>2
      <4>3. Newest(i)' = LatestOf(seen)'
        BY <2>2, <4>2 DEF Newest, LatestOf
      <4>4. QED
        BY <3>1, <4>1, <4>3
    <3>4. Newest(i) <= n
      <4>1. CASE view[i].events = {}
        BY <4>1 DEF Newest
      <4>2. CASE view[i].events # {}
        BY <1>3, <3>1, <4>2, LatestGrows DEF Newest, IInv
      <4>3. QED
        BY <4>1, <4>2
    <3>5. QED
      BY <1>12, <1>13, <3>2, <3>3, <3>4, NewestIsNat
  <2>3. QED
    BY <2>1, <2>2
<1>15. \A j \in Items \ {i} : Newest(j)' = Newest(j)
  BY <1>10, SameNewest DEF IInv
<1>16. SnapshotsOK'
  <2>1. ASSUME NEW b \in Actors, NEW j \in Items, txn'[b].rows[j] # None
        PROVE  txn'[b].rows[j].projected <= proj'[j].projected
    <3>1. b # a /\ txn[b].rows[j] # None /\ txn'[b] = txn[b]
      BY <1>9, <2>1
    <3>2. /\ proj[j] # None /\ txn[b].rows[j].projected <= proj[j].projected
          /\ txn[b].rows[j].projected \in Nat /\ proj[j].projected \in Nat
      BY <3>1, LoadedHasRow, RowNumbers DEF Rows, SnapshotsOK
    <3>3. CASE j = i
      <4>1. proj[i].projected = Newest(i)
        BY <3>2, <3>3 DEF Rows, ProjectedIsTruthful, Newest
      <4>2. proj'[i].projected \in Nat
        BY <1>11, RowNumbers DEF IInv, TypeOK, ProjRow
      <4>3. QED
        BY <1>14, <3>1, <3>2, <3>3, <4>1, <4>2
    <3>4. CASE j # i
      BY <1>10, <3>1, <3>2, <3>4
    <3>5. QED
      BY <3>3, <3>4
  <2>2. QED
    BY <2>1 DEF SnapshotsOK
<1>17. FirstRowOK'
  <2>1. ASSUME NEW b \in Actors, phase'[b] \in {"read", "apply"},
               txn'[b].rows[txn'[b].item] = None
        PROVE  proj'[txn'[b].item] = None
    <3>1. b # a /\ phase[b] \in {"read", "apply"} /\ txn'[b] = txn[b]
      BY <1>9, <2>1
    <3>2. txn[b].item \in Items \ {i}
      BY <1>1, <1>3, <3>1, OthersElsewhere
    <3>3. proj[txn[b].item] = None
      BY <2>1, <3>1 DEF Rows, FirstRowOK
    <3>4. QED
      BY <1>10, <3>1, <3>2, <3>3
  <2>2. QED
    BY <2>1 DEF FirstRowOK
<1>18. NoRowNoView'
  BY <1>10, <1>11 DEF Rows, NoRowNoView
<1>19. ProjectedIsTruthful'
  <2>1. ASSUME NEW j \in Items, proj'[j] # None
        PROVE  proj'[j].projected = Newest(j)'
    <3>1. CASE j = i
      BY <1>14, <3>1
    <3>2. CASE j # i
      BY <1>10, <1>15, <2>1, <3>2 DEF Rows, ProjectedIsTruthful, Newest
    <3>3. QED
      BY <3>1, <3>2
  <2>2. QED
    BY <2>1 DEF ProjectedIsTruthful, Newest
<1>20. QED
  BY <1>16, <1>17, <1>18, <1>19 DEF Rows


LEMMA CrashRows ==
  ASSUME IInv, IInv', Rows, Keeps, NEW p \in Procs, Crash(p)
  PROVE  Rows'
<1> DEFINE dead == {p} \cup {t \in Threads : HomeOf[t] = p}
<1>1. /\ proj' = proj /\ view' = view
      /\ phase' = [a \in Actors |-> IF a = p THEN "down"
                                    ELSE IF a \in dead THEN "idle" ELSE phase[a]]
      /\ txn' = [a \in Actors |-> IF a \in dead THEN NoSession ELSE txn[a]]
  BY DEF Crash, database
<1> HIDE DEF dead
<1>2. ASSUME NEW b \in Actors
      PROVE  RowsLoaded(b) \/ (txn'[b] = txn[b] /\ phase'[b] = phase[b])
  <2>1. CASE b \in dead
    <3>1. phase'[b] \in {"down", "idle"} /\ txn'[b] = NoSession
      BY <1>1, <2>1
    <3>2. \A i \in Items : txn'[b].rows[i] = None
      BY <3>1 DEF NoSession
    <3>3. QED
      BY <3>1, <3>2 DEF RowsLoaded
  <2>2. CASE b \notin dead
    BY <1>1, <2>2 DEF dead
  <2>3. QED
    BY <2>1, <2>2
<1>3. QED
  BY <1>1, <1>2, SameRows

\* Every step keeps the rows.
LEMMA NextRows == IInv /\ Log /\ Rows /\ [Next]_vars => Rows'
<1> SUFFICES ASSUME IInv, Log, Rows, [Next]_vars
             PROVE  Rows'
  OBVIOUS
<1>0. IInv' /\ Keeps
  BY NextSafe, LogKeeps
<1>1. ASSUME NEW p \in Procs, NEW r \in Requests,
             Refuse(p, r) \/ AdmitLegacy(p, r) \/ AdmitHmac(p, r)
      PROVE  Rows'
  <2>1. CASE Refuse(p, r)
    <3>1. UNCHANGED <<proj, view, txn, phase>>
      BY <2>1 DEF Refuse
    <3>2. QED
      BY <1>0, <3>1, SameRows
  <2>2. CASE AdmitLegacy(p, r) \/ AdmitHmac(p, r)
    BY <1>0, <2>2, AdmitOutside, OutsideRows, Sessions
  <2>3. QED
    BY <1>1, <2>1, <2>2
<1>2. ASSUME NEW p \in Procs, Ingest(p)
      PROVE  Rows'
  BY <1>0, <1>2, IngestOutside, OutsideRows, CommitEventRows, Sessions DEF Ingest
<1>3. ASSUME NEW p \in Procs, NextItem(p) \/ Boot(p) \/ Crash(p) \/ Restart(p)
      PROVE  Rows'
  BY <1>0, <1>3, LoopOutside, OutsideRows, CrashRows, Sessions
<1>4. ASSUME NEW a \in Actors, Rebuild(a)
      PROVE  Rows'
  BY <1>0, <1>4, RebuildRows, CommitRebuildRows, MarkFailedRows DEF Rebuild
<1>5. ASSUME NEW t \in Threads, NEW i \in Items, AdminRebuild(t, i)
      PROVE  Rows'
  BY <1>0, <1>5, AdminOutside, OutsideRows, Sessions
<1>6. ASSUME NEW s \in Sources, NEW policy \in Policy, PatchSource(s, policy)
      PROVE  Rows'
  <2>1. UNCHANGED <<proj, view, txn, phase>>
    BY <1>6 DEF PatchSource
  <2>2. QED
    BY <1>0, <2>1, SameRows
<1>7. CASE UNCHANGED vars
  <2>1. UNCHANGED <<proj, view, txn, phase>>
    BY <1>7 DEF vars, database
  <2>2. QED
    BY <1>0, <2>1, SameRows
<1>8. QED
  BY <1>1, <1>2, <1>3, <1>4, <1>5, <1>6, <1>7, Zenon DEF Next

LEMMA InitRows == Init => Rows
<1> SUFFICES ASSUME Init
             PROVE  Rows
  OBVIOUS
<1>1. \A i \in Items : view[i].events = {}
  BY DEF Init, EmptyView
<1>2. \A i \in Items : proj[i] # None => proj[i].projected = 0
  BY DEF Init, FreshRow
<1>3. \A a \in Actors : /\ phase[a] \in {"boot", "idle"}
                        /\ \A i \in Items : txn[a].rows[i] = None
  BY DEF Init, NoSession
<1>4. QED
  BY <1>1, <1>2, <1>3 DEF Rows, SnapshotsOK, FirstRowOK, NoRowNoView, ProjectedIsTruthful

LEMMA RowsAlways == Spec => [](IInv /\ Log /\ Rows)
BY InitSafe, NextSafe, InitLog, NextLog, InitRows, NextRows, PTL DEF Spec

\* last_projected_ingest_seq is the newest event that the projected tables show,
\* although deliveries and rebuilds write the row from snapshots that they took
\* before they held its lock, and write only the columns they changed.
THEOREM RowTellsTheTruth == Spec => []ProjectedIsTruthful
<1>1. Rows => ProjectedIsTruthful
  BY DEF Rows
<1>2. QED
  BY <1>1, RowsAlways, PTL

-----------------------------------------------------------------------------
(* Where the events of an item are committed in their order. *)

\* Two deliveries of one item are never both inserted and not committed: there is
\* one process, or their keys collide on the item's only stream.
LEMMA OneInserted ==
  ASSUME OneLine, Log, NEW p \in Procs, NEW q \in Procs, Inserted(p), Inserted(q),
         ItemOf[txn[p].req.id] # None, ItemOf[txn[p].req.id] = ItemOf[txn[q].req.id],
         txn[p].req.id \in Events, txn[q].req.id \in Events
  PROVE  p = q
<1>1. CASE SourceOf[txn[p].req.id] = SourceOf[txn[q].req.id]
  <2>1. txn[p].tail.seq = txn[q].tail.seq
    BY <1>1 DEF Log, KeyOK, StreamOf
  <2>2. SameKey(p, q)
    BY <1>1, <2>1 DEF SameKey
  <2>3. QED
    BY <2>2 DEF Log, KeysApart
<1>2. CASE SourceOf[txn[p].req.id] # SourceOf[txn[q].req.id]
  BY <1>2 DEF OneLine
<1>3. QED
  BY <1>1, <1>2

LEMMA InsertedRequest ==
  ASSUME IInv, NEW p \in Procs, Inserted(p)
  PROVE  /\ txn[p].req.id \in Events /\ txn[p].seq \in 1..nextSeq /\ nextSeq \in Nat
         /\ p \in Actors
<1>1. phase[p] \in IngestPhases /\ p \in Actors
  BY Sessions DEF Inserted, IngestPhases
<1>2. txn[p].seq \in 1..nextSeq /\ nextSeq \in Nat
  BY <1>1 DEF Inserted, IInv, SessionOK, SessionOf, TypeOK
<1>3. QED
  BY <1>1, <1>2, RequestOf DEF IInv

\* A session that is in order stays so, if the tables of its item do.
LEMMA StaysInOrder ==
  ASSUME IInv, Ordered, NEW b \in Actors, txn'[b] = txn[b], phase'[b] = phase[b],
         nextSeq' \in Nat, nextSeq <= nextSeq',
         \A i \in Items :
           /\ phase[b] = "apply" /\ txn[b].item = i => StoredOf(i)' = StoredOf(i)
           /\ Inserted(b) /\ ItemOf[txn[b].req.id] = i =>
                /\ \A f \in StoredOf(i)' : raw'[f].seq < txn[b].seq
                /\ proj'[i] # None => proj'[i].latest < txn[b].seq
  PROVE  InOrder(b)'
<1>1. ASSUME NEW i \in Items
      PROVE  /\ txn'[b].rows[i] # None => txn'[b].rows[i].latest <= nextSeq'
             /\ phase'[b] = "apply" /\ txn'[b].item = i => txn'[b].seen.events = StoredOf(i)'
             /\ Inserted(b)' /\ ItemOf[txn'[b].req.id] = i =>
                  /\ DrawnFor(b, i)'
                  /\ phase'[b] \in {"select", "commit"} => txn'[b].rows[i] # None
  <2>1. txn[b].rows[i] # None => txn[b].rows[i].latest <= nextSeq'
    <3>1. ASSUME txn[b].rows[i] # None
          PROVE  txn[b].rows[i].latest <= nextSeq'
      <4>1. txn[b].rows[i].latest <= nextSeq
        BY <3>1 DEF Ordered, InOrder
      <4>2. txn[b].rows[i].latest \in Nat /\ nextSeq \in Nat
        BY <3>1, RowNumbers DEF IInv, TypeOK
      <4>3. QED
        BY <4>1, <4>2
    <3>2. QED
      BY <3>1
  <2>2. phase[b] = "apply" /\ txn[b].item = i => txn[b].seen.events = StoredOf(i)'
    BY DEF Ordered, InOrder
  <2>3. ASSUME Inserted(b)', ItemOf[txn'[b].req.id] = i
        PROVE  /\ DrawnFor(b, i)'
               /\ phase'[b] \in {"select", "commit"} => txn'[b].rows[i] # None
    <3>1. Inserted(b) /\ ItemOf[txn[b].req.id] = i
      BY <2>3 DEF Inserted
    <3>2. /\ DrawnFor(b, i)
          /\ phase[b] \in {"select", "commit"} => txn[b].rows[i] # None
      BY <3>1 DEF Ordered, InOrder
    <3>3. /\ \A f \in StoredOf(i)' : raw'[f].seq < txn'[b].seq
          /\ proj'[i] # None => proj'[i].latest < txn'[b].seq
      BY <3>1
    <3>4. txn'[b].rows[i] # None => txn'[b].rows[i].latest < txn'[b].seq
      BY <3>2 DEF DrawnFor
    <3>5. DrawnFor(b, i)'
      BY <3>3, <3>4, Zenon DEF DrawnFor
    <3>6. QED
      BY <3>2, <3>5
  <2>4. QED
    BY <2>1, <2>2, <2>3
<1>2. QED
  BY <1>1, Zenon DEF InOrder

\* A step that leaves the tables as they are.
LEMMA QuietOrder ==
  ASSUME IInv, IInv', Ordered, raw' = raw, proj' = proj, view' = view, nextSeq <= nextSeq',
         \A b \in Actors : InOrder(b)' \/ (txn'[b] = txn[b] /\ phase'[b] = phase[b])
  PROVE  Ordered'
<1>0. nextSeq \in Nat /\ nextSeq' \in Nat
  BY DEF IInv, TypeOK
<1>1. \A i \in Items : StoredOf(i)' = StoredOf(i)
  BY DEF StoredOf, Stored
<1>2. ASSUME NEW b \in Actors
      PROVE  InOrder(b)'
  <2>1. CASE txn'[b] = txn[b] /\ phase'[b] = phase[b]
    <3>1. ASSUME NEW i \in Items, Inserted(b), ItemOf[txn[b].req.id] = i
          PROVE  /\ \A f \in StoredOf(i)' : raw'[f].seq < txn[b].seq
                 /\ proj'[i] # None => proj'[i].latest < txn[b].seq
      <4>1. DrawnFor(b, i)
        BY <3>1 DEF Ordered, InOrder
      <4>2. QED
        BY <1>1, <4>1 DEF DrawnFor
    <3>2. QED
      BY <1>0, <1>1, <2>1, <3>1, StaysInOrder
  <2>2. QED
    BY <2>1
<1>3. LatestBound'
  <2>1. ASSUME NEW i \in Items, proj[i] # None
        PROVE  proj[i].latest <= nextSeq'
    <3>1. proj[i].latest <= nextSeq /\ proj[i].latest \in Nat
      BY <2>1, RowNumbers DEF Ordered, LatestBound
    <3>2. QED
      BY <1>0, <3>1
  <2>2. QED
    BY <2>1 DEF LatestBound
<1>4. UnprojectedIsFlagged'
  BY DEF Ordered, UnprojectedIsFlagged, Flagged, Stored
<1>5. QED
  BY <1>2, <1>3, <1>4 DEF Ordered

\* What an actor that has not inserted and is not applying has loaded is bounded.
LEMMA OutsideOrder ==
  ASSUME IInv, IInv', Ordered, NEW p \in Actors, Outside(p), raw' = raw,
         nextSeq' = nextSeq, ~Inserted(p)'
  PROVE  Ordered'
<1>1. InOrder(p)'
  <2>1. ASSUME NEW i \in Items
        PROVE  /\ txn'[p].rows[i] # None => txn'[p].rows[i].latest <= nextSeq'
               /\ phase'[p] # "apply" /\ ~Inserted(p)'
    BY DEF Outside, Ordered, InOrder, LatestBound
  <2>2. QED
    BY <2>1, Zenon DEF InOrder
<1>2. \A b \in Actors : InOrder(b)' \/ (txn'[b] = txn[b] /\ phase'[b] = phase[b])
  BY <1>1 DEF Outside
<1>3. nextSeq <= nextSeq'
  BY DEF IInv, TypeOK
<1>4. QED
  BY <1>2, <1>3, QuietOrder DEF Outside

\* The INSERT draws the number that is newer than everything.
LEMMA InsertOrder ==
  ASSUME IInv, IInv', Ordered, NEW p \in Procs, Insert(p)
  PROVE  Ordered'
<1>0. /\ Outside(p) /\ raw' = raw /\ p \in Actors /\ nextSeq \in Nat
      /\ nextSeq' = nextSeq + 1 /\ phase[p] = "insert"
      /\ nextSeq <= nextSeq' /\ proj' = proj /\ view' = view
  <2>1. Outside(p)
    BY IngestOutside
  <2>2. raw' = raw /\ nextSeq' = nextSeq + 1 /\ phase[p] = "insert"
    BY DEF Insert
  <2>3. nextSeq \in Nat
    BY DEF IInv, TypeOK
  <2>4. proj' = proj /\ view' = view
    BY <2>1 DEF Outside
  <2>5. QED
    BY <2>1, <2>2, <2>3, <2>4, Sessions
<1>1. ASSUME NEW i \in Items, txn'[p].rows[i] # None
      PROVE  txn'[p].rows[i].latest <= nextSeq /\ txn'[p].rows[i].latest \in Nat
  BY <1>0, <1>1, RowNumbers DEF Outside, Ordered, InOrder, LatestBound
<1>2. phase'[p] # "apply"
  BY <1>0 DEF Outside
<1>3. ASSUME NEW i \in Items, Inserted(p)', ItemOf[txn'[p].req.id] = i
      PROVE  DrawnFor(p, i)' /\ phase'[p] \notin {"select", "commit"}
  <2>1. ~Abort(p)
    BY <1>3, Sessions DEF Abort, Finish, Goto, Inserted
  <2>2. /\ txn' = [txn EXCEPT ![p].seq = nextSeq + 1]
        /\ phase' = [phase EXCEPT ![p] = IF ItemOf[txn[p].req.id] = None THEN "select" ELSE "load"]
    BY <2>1 DEF Insert, Goto
  <2>3. txn'[p].seq = nextSeq + 1 /\ txn'[p].req = txn[p].req
    BY <1>0, <2>2, Sessions
  <2>4. phase'[p] = "load"
    BY <1>0, <1>3, <2>2, <2>3, Sessions, NoneAssumption
  <2>5. \A f \in StoredOf(i)' : raw'[f].seq < txn'[p].seq
    <3>1. \A f \in Stored : raw[f].seq \in 1..nextSeq
      BY DEF IInv, TypeOK
    <3>2. StoredOf(i)' = StoredOf(i) /\ StoredOf(i) \subseteq Stored
      BY <1>0 DEF StoredOf, Stored
    <3>3. QED
      BY <1>0, <2>3, <3>1, <3>2
  <2>6. proj'[i] # None => proj'[i].latest < txn'[p].seq
    <3>1. ASSUME proj[i] # None
          PROVE  proj[i].latest < txn'[p].seq
      <4>1. proj[i].latest <= nextSeq /\ proj[i].latest \in Nat
        BY <3>1, RowNumbers DEF Ordered, LatestBound
      <4>2. QED
        BY <1>0, <2>3, <4>1
    <3>2. QED
      BY <1>0, <3>1
  <2>7. txn'[p].rows[i] # None => txn'[p].rows[i].latest < txn'[p].seq
    BY <1>0, <1>1, <2>3
  <2>8. QED
    BY <2>4, <2>5, <2>6, <2>7, Zenon DEF DrawnFor
<1>4. InOrder(p)'
  <2>1. ASSUME NEW i \in Items
        PROVE  txn'[p].rows[i] # None => txn'[p].rows[i].latest <= nextSeq'
    BY <1>0, <1>1
  <2>2. QED
    BY <1>2, <1>3, <2>1, Zenon DEF InOrder
<1>5. \A b \in Actors : InOrder(b)' \/ (txn'[b] = txn[b] /\ phase'[b] = phase[b])
  BY <1>0, <1>4 DEF Outside
<1>6. QED
  BY <1>0, <1>5, QuietOrder

\* What a delivery loads is older than what it has drawn.
LEMMA LoadOrder ==
  ASSUME IInv, IInv', Ordered, NEW p \in Procs, LoadRow(p) \/ SelectAffected(p)
  PROVE  Ordered'
<1>0. /\ Outside(p) /\ raw' = raw /\ p \in Actors
      /\ nextSeq' = nextSeq /\ proj' = proj /\ view' = view
  <2>1. Outside(p)
    BY IngestOutside
  <2>2. raw' = raw /\ nextSeq' = nextSeq
    BY DEF LoadRow, SelectAffected, database
  <2>3. proj' = proj /\ view' = view
    BY <2>1 DEF Outside
  <2>4. QED
    BY <2>1, <2>2, <2>3, Sessions
<1>1. CASE ~Inserted(p)'
  BY <1>0, <1>1, OutsideOrder
<1>2. CASE Inserted(p)'
  <2>1. ~Abort(p)
    BY <1>0, <1>2, Sessions DEF Abort, Finish, Goto, Inserted
  <2>2. /\ phase[p] \in {"load", "select"} /\ Inserted(p)
        /\ txn'[p].req = txn[p].req /\ txn'[p].seq = txn[p].seq
        /\ \A i \in Items :
             /\ ItemOf[txn[p].req.id] = i /\ phase[p] = "load" => txn'[p].rows[i] # None
             /\ txn[p].rows[i] # None /\ phase[p] = "select" => txn'[p].rows[i] # None
    <3>1. CASE LoadRow(p)
      <4>1. PICK i : i = ItemOf[txn[p].req.id]
        OBVIOUS
      <4>2. /\ phase[p] = "load" /\ proj[i] # None
            /\ txn' = [txn EXCEPT ![p].rows[i] = proj[i]]
        BY <2>1, <3>1, <4>1 DEF LoadRow
      <4>3. txn[p].rows \in [Items -> ProjRow \cup {None}]
        BY <1>0, Sessions DEF SessionRow
      <4>4. /\ txn'[p].req = txn[p].req /\ txn'[p].seq = txn[p].seq
            /\ txn'[p].rows = [txn[p].rows EXCEPT ![i] = proj[i]]
        BY <1>0, <4>2, Sessions
      <4>5. \A j \in Items : ItemOf[txn[p].req.id] = j => txn'[p].rows[j] # None
        BY <4>1, <4>2, <4>3, <4>4
      <4>6. Inserted(p)
        BY <4>2 DEF Inserted
      <4>7. QED
        BY <4>2, <4>4, <4>5, <4>6
    <3>2. CASE SelectAffected(p)
      <4> DEFINE hit == {i \in Items : view[i].events \cap Covers[txn[p].req.id] # {}}
                 rows == [i \in Items |-> IF i \in hit /\ txn[p].rows[i] = None
                                          THEN proj[i] ELSE txn[p].rows[i]]
      <4>1. /\ phase[p] = "select"
            /\ txn' = [txn EXCEPT ![p] = [txn[p] EXCEPT !.hit = hit, !.rows = rows]]
        BY <1>0, <3>2, Sessions DEF SelectAffected
      <4>2. \A i \in Items : txn[p].rows[i] # None => rows[i] # None
        OBVIOUS
      <4> HIDE DEF hit, rows
      <4>3. /\ txn'[p].req = txn[p].req /\ txn'[p].seq = txn[p].seq /\ txn'[p].rows = rows
        BY <1>0, <4>1, Sessions
      <4>4. Inserted(p)
        BY <4>1 DEF Inserted
      <4>5. QED
        BY <4>1, <4>2, <4>3, <4>4
    <3>3. QED
      BY <3>1, <3>2
  <2>3. ASSUME NEW i \in Items
        PROVE  /\ txn'[p].rows[i] # None => txn'[p].rows[i].latest <= nextSeq'
               /\ phase'[p] # "apply"
    BY <1>0 DEF Outside, Ordered, InOrder, LatestBound
  <2>4. ASSUME NEW i \in Items, ItemOf[txn'[p].req.id] = i
        PROVE  DrawnFor(p, i)' /\ txn'[p].rows[i] # None
    <3>1. ItemOf[txn[p].req.id] = i
      BY <2>2, <2>4
    <3>a. Inserted(p) /\ phase[p] \in {"load", "select"}
      BY <2>2
    <3>b. InOrder(p)
      BY <1>0 DEF Ordered
    <3>2. DrawnFor(p, i) /\ (phase[p] = "select" => txn[p].rows[i] # None)
      BY <3>1, <3>a, <3>b DEF InOrder
    <3>3. StoredOf(i)' = StoredOf(i)
      BY <1>0 DEF StoredOf, Stored
    <3>4. \A f \in StoredOf(i)' : raw'[f].seq < txn'[p].seq
      BY <1>0, <2>2, <3>2, <3>3 DEF DrawnFor
    <3>5. proj'[i] # None => proj'[i].latest < txn'[p].seq
      BY <1>0, <2>2, <3>2 DEF DrawnFor
    <3>6. txn'[p].rows[i] # None => txn'[p].rows[i].latest < txn'[p].seq
      BY <1>0, <2>2, <3>2 DEF DrawnFor, Outside
    <3>7. DrawnFor(p, i)'
      BY <3>4, <3>5, <3>6, Zenon DEF DrawnFor
    <3>8. txn'[p].rows[i] # None
      BY <2>2, <3>1, <3>2, <3>a
    <3>9. QED
      BY <3>7, <3>8
  <2>5. InOrder(p)'
    BY <2>3, <2>4, Zenon DEF InOrder
  <2>6. \A b \in Actors : InOrder(b)' \/ (txn'[b] = txn[b] /\ phase'[b] = phase[b])
    BY <1>0, <2>5 DEF Outside
  <2>7. QED
    BY <1>0, <2>6, QuietOrder DEF IInv, TypeOK
<1>3. QED
  BY <1>1, <1>2

\* A rebuild reads the whole history of its item.
LEMMA ReadOrder ==
  ASSUME IInv, IInv', Ordered, NEW a \in Actors,
         ClaimRow(a) \/ FailRebuild(a) \/ ReadEvents(a)
  PROVE  Ordered'
<1>0. /\ raw' = raw /\ proj' = proj /\ view' = view /\ nextSeq' = nextSeq
      /\ nextSeq <= nextSeq'
  BY DEF ClaimRow, FailRebuild, ReadEvents, database, IInv, TypeOK
<1>1. CASE ClaimRow(a) \/ FailRebuild(a)
  <2>1. /\ txn' = txn /\ phase'[a] \in {"failing", "read"}
        /\ \A b \in Actors \ {a} : phase'[b] = phase[b]
    BY <1>1, Sessions DEF ClaimRow, FailRebuild, Goto
  <2>2. ASSUME NEW i \in Items
        PROVE  /\ txn'[a].rows[i] # None => txn'[a].rows[i].latest <= nextSeq'
               /\ phase'[a] # "apply" /\ ~Inserted(a)'
    BY <1>0, <2>1 DEF Ordered, InOrder, Inserted
  <2>3. InOrder(a)'
    BY <2>2, Zenon DEF InOrder
  <2>4. \A b \in Actors : InOrder(b)' \/ (txn'[b] = txn[b] /\ phase'[b] = phase[b])
    BY <2>1, <2>3
  <2>5. QED
    BY <1>0, <2>4, QuietOrder
<1>2. CASE ReadEvents(a)
  <2>1. PICK now : now = StoredOf(txn[a].item)
    OBVIOUS
  <2>2. PICK seen : seen = [events |-> now,
                            voided |-> {o \in now : \E v \in Stored : o \in Covers[v]}]
    OBVIOUS
  <2>3. txn' = [txn EXCEPT ![a].seen = seen] /\ phase' = [phase EXCEPT ![a] = "apply"]
    BY <1>2, <2>1, <2>2 DEF ReadEvents, Goto
  <2>4. /\ \A b \in Actors \ {a} : txn'[b] = txn[b] /\ phase'[b] = phase[b]
        /\ txn'[a].rows = txn[a].rows /\ txn'[a].item = txn[a].item
        /\ txn'[a].seen.events = now /\ phase'[a] = "apply"
    BY <2>2, <2>3, Sessions
  <2>5. ASSUME NEW i \in Items
        PROVE  /\ txn'[a].rows[i] # None => txn'[a].rows[i].latest <= nextSeq'
               /\ txn'[a].item = i => txn'[a].seen.events = StoredOf(i)'
               /\ ~Inserted(a)'
    <3>1. StoredOf(i)' = StoredOf(i)
      BY <1>0 DEF StoredOf, Stored
    <3>2. QED
      BY <1>0, <2>1, <2>4, <3>1 DEF Ordered, InOrder, Inserted
  <2>6. InOrder(a)'
    BY <2>5, Zenon DEF InOrder
  <2>7. \A b \in Actors : InOrder(b)' \/ (txn'[b] = txn[b] /\ phase'[b] = phase[b])
    BY <2>4, <2>6
  <2>8. QED
    BY <1>0, <2>7, QuietOrder
<1>3. QED
  BY <1>1, <1>2

\* The columns that a commit leaves, one by one.
LEMMA EmitColumns ==
  ASSUME NEW row \in ProjRow, NEW old, NEW new
  PROVE  /\ Emit(row, old, new).latest = IF new.latest # old.latest THEN new.latest ELSE row.latest
         /\ Emit(row, old, new).projected =
              IF new.projected # old.projected THEN new.projected ELSE row.projected
         /\ Emit(row, old, new).status = IF new.status # old.status THEN new.status ELSE row.status
<1>1. DOMAIN row = {"latest", "projected", "status"}
  BY DEF ProjRow
<1>2. QED
  BY <1>1 DEF Emit

\* What the commit of a delivery writes over a row that it has loaded.
LEMMA StaleColumns ==
  ASSUME IInv, NEW p \in Procs, CommitEvent(p), NEW i \in Items, i \in Touched(p)
  PROVE  /\ proj[i] # None /\ proj'[i] # None /\ proj'[i].projected = proj[i].projected
         /\ proj'[i].status \in {"stale", proj[i].status}
         /\ i # ItemOf[txn[p].req.id] => proj'[i].latest = proj[i].latest
         /\ i = ItemOf[txn[p].req.id] /\ txn[p].rows[i].latest < txn[p].seq =>
              proj'[i].latest = txn[p].seq /\ rowLock[i] = None
<1>1. p \in Actors /\ txn[p].rows[i] # None
  BY Sessions DEF Touched
<1>2. PICK old \in ProjRow : old = txn[p].rows[i]
  BY <1>1, Sessions DEF SessionRow
<1>3. PICK row \in ProjRow : row = proj[i] /\ row # None
  BY <1>1, LoadedHasRow DEF IInv, TypeOK
<1>4. PICK seq \in Nat : seq = txn[p].seq
  BY <1>1, Sessions DEF SessionRow
<1>5. PICK new : new = MarkedStale(p, i)
  OBVIOUS
<1>6. /\ new.status = "stale" /\ new.projected = old.projected
      /\ i # ItemOf[txn[p].req.id] => new.latest = old.latest
      /\ i = ItemOf[txn[p].req.id] => new.latest = Greater(old.latest, seq)
  BY <1>2, <1>4, <1>5 DEF MarkedStale, ProjRow
<1>7. proj'[i] = Emit(row, old, new) /\ proj'[i] # None
  <2>1. proj'[i] = Emit(proj[i], txn[p].rows[i], MarkedStale(p, i))
    BY DEF CommitEvent
  <2>2. Emit(proj[i], txn[p].rows[i], MarkedStale(p, i)) \in ProjRow
    BY StaleRowsSafe DEF CommitEvent, IInv
  <2>3. proj'[i] # None
    BY <2>1, <2>2, NoneAssumption
  <2>4. QED
    BY <1>2, <1>3, <1>5, <2>1, <2>3
<1>8. /\ proj'[i].latest = IF new.latest # old.latest THEN new.latest ELSE row.latest
      /\ proj'[i].projected = IF new.projected # old.projected THEN new.projected ELSE row.projected
      /\ proj'[i].status = IF new.status # old.status THEN new.status ELSE row.status
  BY <1>7, EmitColumns
<1>9. ASSUME i = ItemOf[txn[p].req.id], old.latest < seq
      PROVE  proj'[i].latest = seq /\ rowLock[i] = None
  <2>1. old.latest \in Nat
    BY DEF ProjRow
  <2>2. new.latest = seq /\ new.latest # old.latest
    BY <1>6, <1>9, <2>1 DEF Greater
  <2>3. MarkedStale(p, i) # txn[p].rows[i]
    BY <1>2, <1>5, <2>2
  <2>4. rowLock[i] = None
    BY <2>3 DEF CommitEvent
  <2>5. QED
    BY <1>8, <2>2, <2>4
<1>10. proj'[i].status \in {"stale", proj[i].status}
  BY <1>3, <1>6, <1>8
<1>11. QED
  BY <1>2, <1>3, <1>4, <1>6, <1>7, <1>8, <1>9, <1>10

\* A row that recovery finds, it still finds after the commit of a delivery.
LEMMA StaysFlagged ==
  ASSUME IInv, NEW p \in Procs, CommitEvent(p), NEW i \in Items, Flagged(i),
         i # ItemOf[txn[p].req.id]
  PROVE  Flagged(i)'
<1>1. CASE i \in Touched(p)
  <2>1. /\ proj[i] # None /\ proj'[i] # None /\ proj'[i].projected = proj[i].projected
        /\ proj'[i].status \in {"stale", proj[i].status} /\ proj'[i].latest = proj[i].latest
    BY <1>1, StaleColumns
  <2>2. QED
    BY <2>1 DEF Flagged
<1>2. CASE i \notin Touched(p)
  <2>1. proj'[i] = proj[i]
    BY <1>2 DEF CommitEvent
  <2>2. QED
    BY <2>1 DEF Flagged
<1>3. QED
  BY <1>1, <1>2

\* The newest event of an item that is projected is older than the one that is
\* being committed.
LEMMA NewestIsOlder ==
  ASSUME IInv, NEW p \in Procs, Inserted(p), NEW i \in Items, DrawnFor(p, i)
  PROVE  Newest(i) < txn[p].seq
<1>1. txn[p].seq \in Nat /\ 0 < txn[p].seq
  BY InsertedRequest
<1>2. CASE view[i].events = {}
  BY <1>1, <1>2 DEF Newest
<1>3. CASE view[i].events # {}
  <2>1. view[i].events \in SUBSET Stored /\ view[i].events \subseteq StoredOf(i)
    BY NewestIsNat DEF IInv, HistoryOK
  <2>2. PICK f \in view[i].events : raw[f].seq = LatestOf(view[i].events)
    BY <1>3, <2>1, LatestIsGreatest DEF IInv
  <2>3. raw[f].seq < txn[p].seq
    BY <2>1 DEF DrawnFor
  <2>4. QED
    BY <1>3, <2>2, <2>3 DEF Newest
<1>4. QED
  BY <1>2, <1>3

\* The commit of a delivery appends the newest event of its item, on a row that no
\* rebuild holds, and the row shows that it is newer than the projection.
LEMMA CommitEventOrder ==
  ASSUME OneLine, IInv, IInv', Log, Rows, Ordered, NEW p \in Procs, CommitEvent(p)
  PROVE  Ordered'
<1>0. /\ phase[p] = "commit" /\ Inserted(p) /\ p \in Actors
      /\ view' = view /\ rowLock' = rowLock /\ nextSeq' = nextSeq
  BY Sessions DEF CommitEvent, Inserted
<1>1. PICK e \in Events : e = txn[p].req.id
  BY <1>0, InsertedRequest
<1>2. PICK seq \in 1..nextSeq : seq = txn[p].seq
  BY <1>0, InsertedRequest
<1>3. /\ raw[e] = None /\ raw'[e] # None /\ raw'[e].seq = seq
      /\ \A f \in Events : f # e => raw'[f] = raw[f]
  <2>1. Appends(e, txn[p].req.body, seq)
    BY <1>1, <1>2, CommitAppends
  <2>2. None \notin {[body |-> txn[p].req.body, seq |-> seq,
                      place |-> stream[SourceOf[e]].seq + 1, prev |-> stream[SourceOf[e]].mac]}
    BY <1>1, <1>2, StoresARow
  <2>3. QED
    BY <2>1, <2>2, AppendedTables DEF IInv
<1>4. /\ \A b \in Actors \ {p} : txn'[b] = txn[b] /\ phase'[b] = phase[b]
      /\ phase'[p] \in {"next", "open"} /\ \A i \in Items : txn'[p].rows[i] = None
  BY Sessions DEF CommitEvent, Goto, NoSession
<1>5. \A i \in Items : i # ItemOf[e] => StoredOf(i)' = StoredOf(i)
  BY <1>3 DEF StoredOf, Stored
<1>6. ASSUME NEW i \in Items, i = ItemOf[e]
      PROVE  /\ DrawnFor(p, i) /\ i \in Touched(p) /\ rowLock[i] = None
             /\ proj'[i] # None /\ proj'[i].latest = seq
             /\ proj'[i].projected = proj[i].projected /\ proj[i] # None
  <2>1. InOrder(p)
    BY <1>0 DEF Ordered
  <2>2. DrawnFor(p, i) /\ txn[p].rows[i] # None
    BY <1>0, <1>1, <1>6, <2>1 DEF InOrder
  <2>3. i \in Touched(p) /\ txn[p].rows[i].latest < seq
    BY <1>2, <2>2 DEF Touched, DrawnFor
  <2>4. QED
    BY <1>1, <1>2, <1>6, <2>2, <2>3, StaleColumns
<1>7. ASSUME NEW i \in Items, i # ItemOf[e]
      PROVE  /\ proj'[i] # None => proj[i] # None /\ proj'[i].latest = proj[i].latest
             /\ Flagged(i) => Flagged(i)'
  <2>1. CASE i \in Touched(p)
    BY <1>1, <1>7, <2>1, StaleColumns, StaysFlagged
  <2>2. CASE i \notin Touched(p)
    <3>1. proj'[i] = proj[i]
      BY <2>2 DEF CommitEvent
    <3>2. QED
      BY <1>1, <1>7, <3>1, StaysFlagged
  <2>3. QED
    BY <2>1, <2>2
<1>8. ASSUME NEW b \in Actors, b # p
      PROVE  InOrder(b)'
  <2>1. ASSUME NEW i \in Items, phase[b] = "apply", txn[b].item = i
        PROVE  StoredOf(i)' = StoredOf(i)
    <3>1. rowLock[i] = b /\ b # None
      BY <2>1, ActorsDistinct DEF IInv, ClaimOK, ClaimOf
    <3>2. i # ItemOf[e]
      BY <1>6, <3>1
    <3>3. QED
      BY <1>5, <3>2
  <2>2. ASSUME NEW i \in Items, Inserted(b), ItemOf[txn[b].req.id] = i
        PROVE  /\ \A f \in StoredOf(i)' : raw'[f].seq < txn[b].seq
               /\ proj'[i] # None => proj'[i].latest < txn[b].seq
    <3>1. b \in Procs /\ txn[b].req.id \in Events
      BY <2>2, InsertedRequest DEF Inserted
    <3>2. i # ItemOf[e]
      BY <1>0, <1>1, <1>8, <2>2, <3>1, OneInserted, NoneAssumption
    <3>3. DrawnFor(b, i)
      BY <2>2 DEF Ordered, InOrder
    <3>4. \A f \in StoredOf(i)' : f \in StoredOf(i) /\ raw'[f] = raw[f]
      BY <1>3, <1>5, <3>2 DEF StoredOf, Stored
    <3>5. QED
      BY <1>7, <3>2, <3>3, <3>4 DEF DrawnFor
  <2>3. txn'[b] = txn[b] /\ phase'[b] = phase[b] /\ nextSeq' \in Nat /\ nextSeq <= nextSeq'
    BY <1>0, <1>4, <1>8 DEF IInv, TypeOK
  <2>4. QED
    BY <2>1, <2>2, <2>3, StaysInOrder
<1>9. InOrder(p)'
  <2>1. phase'[p] # "apply" /\ ~Inserted(p)'
    BY <1>4 DEF Inserted
  <2>2. QED
    BY <1>4, <2>1, Zenon DEF InOrder
<1>10. LatestBound'
  <2>1. ASSUME NEW i \in Items, proj'[i] # None
        PROVE  proj'[i].latest <= nextSeq'
    <3>1. CASE i = ItemOf[e]
      BY <1>0, <1>2, <1>6, <3>1 DEF IInv, TypeOK
    <3>2. CASE i # ItemOf[e]
      BY <1>0, <1>7, <2>1, <3>2 DEF Ordered, LatestBound
    <3>3. QED
      BY <3>1, <3>2
  <2>2. QED
    BY <2>1 DEF LatestBound
<1>11. UnprojectedIsFlagged'
  <2>1. ASSUME NEW f \in Events, raw'[f] # None, NEW i \in Items, i = ItemOf[f]
        PROVE  f \in view'[i].events \/ Flagged(i)'
    <3>1. CASE i = ItemOf[e]
      <4>1. Newest(i) < seq /\ Newest(i) \in Nat
        BY <1>0, <1>2, <1>6, <3>1, NewestIsOlder, NewestIsNat
      <4>2. proj'[i].projected = Newest(i)
        BY <1>6, <3>1 DEF Rows, ProjectedIsTruthful, Newest
      <4>3. proj'[i] # None /\ proj'[i].latest > proj'[i].projected
        BY <1>2, <1>6, <3>1, <4>1, <4>2
      <4>4. QED
        BY <4>3 DEF Flagged
    <3>2. CASE i # ItemOf[e]
      <4>1. raw[f] # None
        BY <1>3, <2>1, <3>2
      <4>2. f \in view[i].events \/ Flagged(i)
        BY <2>1, <4>1, NoneAssumption DEF Ordered, UnprojectedIsFlagged, Stored
      <4>3. QED
        BY <1>0, <1>7, <3>2, <4>2
    <3>3. QED
      BY <3>1, <3>2
  <2>2. \A f \in Stored' : ItemOf[f] # None => ItemOf[f] \in Items /\ f \in Events /\ raw'[f] # None
    BY DomainAssumption DEF Stored
  <2>3. QED
    BY <2>1, <2>2, Zenon DEF UnprojectedIsFlagged
<1>12. QED
  BY <1>8, <1>9, <1>10, <1>11 DEF Ordered

\* A step of one actor that writes the projection of one item, from what is stored.
LEMMA RebuildOrder ==
  ASSUME IInv, IInv', Ordered, NEW a \in Actors, NEW i \in Items,
         raw' = raw, nextSeq' = nextSeq,
         \A b \in Actors \ {a} : txn'[b] = txn[b] /\ phase'[b] = phase[b],
         phase'[a] \in {"next", "idle"}, \A j \in Items : txn'[a].rows[j] = None,
         \A j \in Items \ {i} : proj'[j] = proj[j] /\ view'[j] = view[j],
         \/ proj'[i].latest = 0
         \/ proj[i] # None /\ proj'[i].latest = proj[i].latest
         \/ \E f \in StoredOf(i) : proj'[i].latest = raw[f].seq,
         StoredOf(i) \subseteq view'[i].events \/ Flagged(i)'
  PROVE  Ordered'
<1>0. nextSeq \in Nat /\ \A f \in Stored : raw[f].seq \in 1..nextSeq
  BY DEF IInv, TypeOK
<1>1. \A j \in Items : StoredOf(j)' = StoredOf(j) /\ StoredOf(j) \subseteq Stored
  BY DEF StoredOf, Stored
<1>2. ASSUME NEW b \in Actors, b # a
      PROVE  InOrder(b)'
  <2>1. ASSUME NEW j \in Items, Inserted(b), ItemOf[txn[b].req.id] = j
        PROVE  /\ \A f \in StoredOf(j)' : raw'[f].seq < txn[b].seq
               /\ proj'[j] # None => proj'[j].latest < txn[b].seq
    <3>1. DrawnFor(b, j)
      BY <2>1 DEF Ordered, InOrder
    <3>2. txn[b].seq \in Nat /\ 0 < txn[b].seq
      BY <2>1, InsertedRequest DEF Inserted
    <3>3. \A f \in StoredOf(j)' : raw'[f].seq < txn[b].seq
      BY <1>1, <3>1 DEF DrawnFor
    <3>4. CASE j = i
      BY <3>1, <3>2, <3>3, <3>4 DEF DrawnFor
    <3>5. CASE j # i
      BY <3>1, <3>3, <3>5 DEF DrawnFor
    <3>6. QED
      BY <3>4, <3>5
  <2>2. txn'[b] = txn[b] /\ phase'[b] = phase[b] /\ nextSeq' \in Nat /\ nextSeq <= nextSeq'
    BY <1>0, <1>2
  <2>3. QED
    BY <1>1, <2>1, <2>2, StaysInOrder
<1>3. InOrder(a)'
  <2>1. phase'[a] # "apply" /\ ~Inserted(a)'
    BY DEF Inserted
  <2>2. QED
    BY <2>1, Zenon DEF InOrder
<1>4. LatestBound'
  <2>1. ASSUME NEW j \in Items, proj'[j] # None
        PROVE  proj'[j].latest <= nextSeq'
    <3>1. CASE j # i
      BY <2>1, <3>1 DEF Ordered, LatestBound
    <3>2. CASE j = i
      BY <1>0, <1>1, <3>2 DEF Ordered, LatestBound
    <3>3. QED
      BY <3>1, <3>2
  <2>2. QED
    BY <2>1 DEF LatestBound
<1>5. UnprojectedIsFlagged'
  <2>1. ASSUME NEW f \in Events, raw[f] # None, NEW j \in Items, j = ItemOf[f]
        PROVE  f \in view'[j].events \/ Flagged(j)'
    <3>1. CASE j = i
      <4>1. f \in StoredOf(i)
        BY <2>1, <3>1 DEF StoredOf, Stored
      <4>2. QED
        BY <3>1, <4>1
    <3>2. CASE j # i
      <4>1. f \in view[j].events \/ Flagged(j)
        BY <2>1, NoneAssumption DEF Ordered, UnprojectedIsFlagged, Stored
      <4>2. QED
        BY <3>2, <4>1 DEF Flagged
    <3>3. QED
      BY <3>1, <3>2
  <2>2. \A f \in Stored' : ItemOf[f] # None => ItemOf[f] \in Items /\ f \in Events /\ raw[f] # None
    BY DomainAssumption DEF Stored
  <2>3. QED
    BY <2>1, <2>2, Zenon DEF UnprojectedIsFlagged
<1>6. QED
  BY <1>2, <1>3, <1>4, <1>5 DEF Ordered

LEMMA MarkFailedOrder ==
  ASSUME IInv, IInv', Ordered, NEW a \in Actors, MarkFailed(a)
  PROVE  Ordered'
<1>1. PICK i \in Items : i = txn[a].item
  BY RebuildOf DEF MarkFailed, IInv, RebuildPhases
<1>2. PICK row : row = IF proj[i] = None THEN [FreshRow EXCEPT !.status = "failed"]
                       ELSE [proj[i] EXCEPT !.status = "failed"]
  OBVIOUS
<1>3. proj' = [proj EXCEPT ![i] = row] /\ view' = view /\ raw' = raw /\ nextSeq' = nextSeq
  BY <1>1, <1>2 DEF MarkFailed
<1>4. proj'[i] = row /\ \A j \in Items \ {i} : proj'[j] = proj[j]
  BY <1>3 DEF IInv, TypeOK
<1>5. row \in ProjRow /\ row.status = "failed"
      /\ (row.latest = 0 \/ (proj[i] # None /\ row.latest = proj[i].latest))
  <2>1. CASE proj[i] = None
    BY <1>2, <2>1 DEF FreshRow, ProjRow, Status
  <2>2. CASE proj[i] # None
    <3>1. proj[i] \in ProjRow
      BY <2>2 DEF IInv, TypeOK
    <3>2. QED
      BY <1>2, <2>2, <3>1 DEF ProjRow, Status
  <2>3. QED
    BY <2>1, <2>2
<1>6. Flagged(i)'
  BY <1>4, <1>5, NoneAssumption DEF Flagged
<1>7. /\ \A b \in Actors \ {a} : txn'[b] = txn[b] /\ phase'[b] = phase[b]
      /\ phase'[a] \in {"next", "idle"} /\ \A j \in Items : txn'[a].rows[j] = None
  BY RestOfList, Sessions DEF MarkFailed, Goto, AfterRebuild, IInv
<1>8. QED
  BY <1>3, <1>4, <1>5, <1>6, <1>7, RebuildOrder

\* The rebuild shows all that is stored of its item, or there is nothing to show.
LEMMA CommitRebuildOrder ==
  ASSUME IInv, IInv', Ordered, Rows, NEW a \in Actors, CommitRebuild(a)
  PROVE  Ordered'
<1>1. PICK i \in Items : i = txn[a].item
  BY RebuildOf DEF CommitRebuild, IInv, RebuildPhases
<1>2. PICK seen \in SUBSET Stored : seen = txn[a].seen.events /\ seen = StoredOf(i)
  BY <1>1 DEF CommitRebuild, Ordered, InOrder, StoredOf
<1>3. PICK new : new = [FreshRow EXCEPT !.status = "rebuilding"]
  OBVIOUS
<1>4. PICK loaded : loaded = IF txn[a].rows[i] = None THEN new
                             ELSE [txn[a].rows[i] EXCEPT !.status = "rebuilding"]
  OBVIOUS
<1>5. PICK row : row = IF proj[i] = None THEN new ELSE proj[i]
  OBVIOUS
<1>6. PICK built : built = Rebuilt(a, loaded)
  OBVIOUS
<1>7. /\ proj' = [proj EXCEPT ![i] = Emit(row, loaded, built)] /\ raw' = raw
      /\ view' = (IF seen = {} THEN view ELSE [view EXCEPT ![i] = txn[a].seen])
      /\ phase' = [phase EXCEPT ![a] = AfterRebuild(a)] /\ nextSeq' = nextSeq
      /\ txn' = [txn EXCEPT ![a] = [NoSession EXCEPT !.todo = txn[a].todo]]
  BY <1>1, <1>2, <1>3, <1>4, <1>5, <1>6 DEF CommitRebuild, Goto
<1>8. /\ \A b \in Actors \ {a} : txn'[b] = txn[b] /\ phase'[b] = phase[b]
      /\ phase'[a] \in {"next", "idle"} /\ \A j \in Items : txn'[a].rows[j] = None
  BY <1>7, RestOfList, Sessions DEF AfterRebuild, IInv
<1>9. /\ proj'[i] = Emit(row, loaded, built) /\ \A j \in Items \ {i} : proj'[j] = proj[j]
      /\ \A j \in Items \ {i} : view'[j] = view[j]
      /\ seen # {} => view'[i].events = seen
  BY <1>2, <1>7 DEF IInv, TypeOK
<1>10. StoredOf(i) \subseteq view'[i].events
  BY <1>2, <1>9
<1>11. DOMAIN row = {"latest", "projected", "status"}
  <2>1. CASE proj[i] = None
    BY <1>3, <1>5, <2>1 DEF FreshRow
  <2>2. CASE proj[i] # None
    BY <1>5, <2>2 DEF IInv, TypeOK, ProjRow
  <2>3. QED
    BY <2>1, <2>2
<1>12. proj'[i].latest = IF built.latest # loaded.latest THEN built.latest ELSE row.latest
  BY <1>9, <1>11 DEF Emit
<1>13. row.latest = 0 \/ (proj[i] # None /\ row.latest = proj[i].latest)
  BY <1>3, <1>5 DEF FreshRow
<1>14. \/ proj'[i].latest = row.latest
       \/ \E f \in StoredOf(i) : proj'[i].latest = raw[f].seq
  <2>1. CASE seen = {}
    <3>1. built = [loaded EXCEPT !.status = "up_to_date"]
      BY <1>2, <1>6, <2>1 DEF Rebuilt
    <3>2. built.latest = loaded.latest
      <4>1. CASE txn[a].rows[i] = None
        BY <1>3, <1>4, <3>1, <4>1 DEF FreshRow
      <4>2. CASE txn[a].rows[i] # None
        <5>1. txn[a].rows[i] \in ProjRow
          BY <4>2, Sessions DEF SessionRow
        <5>2. QED
          BY <1>4, <3>1, <4>2, <5>1 DEF ProjRow
      <4>3. QED
        BY <4>1, <4>2
    <3>3. QED
      BY <1>12, <3>2
  <2>2. CASE seen # {}
    <3>1. built.latest = LatestOf(seen)
      BY <1>2, <1>6, <2>2 DEF Rebuilt
    <3>2. \E f \in seen : raw[f].seq = LatestOf(seen)
      BY <2>2, LatestIsGreatest DEF IInv
    <3>3. QED
      BY <1>2, <1>12, <3>1, <3>2
  <2>3. QED
    BY <2>1, <2>2
<1>15. QED
  BY <1>7, <1>8, <1>9, <1>10, <1>13, <1>14, RebuildOrder

LEMMA CrashOrder ==
  ASSUME IInv, IInv', Ordered, NEW p \in Procs, Crash(p)
  PROVE  Ordered'
<1> DEFINE dead == {p} \cup {t \in Threads : HomeOf[t] = p}
<1>1. /\ proj' = proj /\ view' = view /\ raw' = raw /\ nextSeq' = nextSeq
      /\ phase' = [a \in Actors |-> IF a = p THEN "down"
                                    ELSE IF a \in dead THEN "idle" ELSE phase[a]]
      /\ txn' = [a \in Actors |-> IF a \in dead THEN NoSession ELSE txn[a]]
  BY DEF Crash, database
<1> HIDE DEF dead
<1>2. ASSUME NEW b \in Actors
      PROVE  InOrder(b)' \/ (txn'[b] = txn[b] /\ phase'[b] = phase[b])
  <2>1. CASE b \in dead
    <3>1. phase'[b] \in {"down", "idle"} /\ txn'[b] = NoSession
      BY <1>1, <2>1
    <3>2. /\ \A i \in Items : txn'[b].rows[i] = None
          /\ phase'[b] # "apply" /\ ~Inserted(b)'
      BY <3>1 DEF NoSession, Inserted
    <3>3. QED
      BY <3>2, Zenon DEF InOrder
  <2>2. CASE b \notin dead
    BY <1>1, <2>2 DEF dead
  <2>3. QED
    BY <2>1, <2>2
<1>3. nextSeq <= nextSeq'
  BY <1>1 DEF IInv, TypeOK
<1>4. QED
  BY <1>1, <1>2, <1>3, QuietOrder

\* Every step keeps the order.
LEMMA NextOrdered ==
  ASSUME OneLine
  PROVE  IInv /\ Log /\ Rows /\ Ordered /\ [Next]_vars => Ordered'
<1> SUFFICES ASSUME IInv, Log, Rows, Ordered, [Next]_vars
             PROVE  Ordered'
  OBVIOUS
<1>0. IInv' /\ nextSeq \in Nat
  BY NextSafe DEF IInv, TypeOK
<1>a. ASSUME UNCHANGED <<raw, proj, view, nextSeq, txn, phase>>
      PROVE  Ordered'
  <2>1. /\ raw' = raw /\ proj' = proj /\ view' = view /\ nextSeq <= nextSeq'
        /\ \A b \in Actors : txn'[b] = txn[b] /\ phase'[b] = phase[b]
    BY <1>0, <1>a
  <2>2. QED
    BY <1>0, <2>1, QuietOrder
<1>b. ASSUME NEW p \in Actors, Outside(p), raw' = raw, nextSeq' = nextSeq,
             phase'[p] \notin {"load", "select", "commit"}
      PROVE  Ordered'
  BY <1>0, <1>b, OutsideOrder DEF Inserted
<1>1. ASSUME NEW p \in Procs, NEW r \in Requests,
             Refuse(p, r) \/ AdmitLegacy(p, r) \/ AdmitHmac(p, r)
      PROVE  Ordered'
  <2>1. CASE Refuse(p, r)
    BY <1>a, <2>1 DEF Refuse
  <2>2. CASE AdmitLegacy(p, r) \/ AdmitHmac(p, r)
    <3>1. raw' = raw /\ nextSeq' = nextSeq /\ phase'[p] = "lookup"
      BY <2>2, Sessions DEF AdmitLegacy, AdmitHmac, Goto, database
    <3>2. QED
      BY <1>b, <2>2, <3>1, AdmitOutside, Sessions
  <2>3. QED
    BY <1>1, <2>1, <2>2
<1>2. ASSUME NEW p \in Procs, Ingest(p)
      PROVE  Ordered'
  <2>1. CASE AnswerStored(p) \/ ReadStream(p)
    <3>1. raw' = raw /\ nextSeq' = nextSeq /\ phase'[p] \in {"idle", "insert"}
      BY <2>1, Sessions DEF AnswerStored, ReadStream, Finish, Goto, database
    <3>2. QED
      BY <1>b, <2>1, <3>1, IngestOutside, Sessions
  <2>2. CASE Insert(p) \/ LoadRow(p) \/ SelectAffected(p) \/ CommitEvent(p)
    BY <1>0, <2>2, InsertOrder, LoadOrder, CommitEventOrder
  <2>3. QED
    BY <1>2, <2>1, <2>2 DEF Ingest
<1>3. ASSUME NEW p \in Procs, NextItem(p) \/ Boot(p) \/ Crash(p) \/ Restart(p)
      PROVE  Ordered'
  <2>1. CASE NextItem(p)
    <3>1. raw' = raw /\ nextSeq' = nextSeq /\ phase'[p] \in {"idle", "open"}
      BY <2>1, LoopStep DEF database
    <3>2. QED
      BY <1>b, <2>1, <3>1, LoopOutside, Sessions
  <2>2. CASE Boot(p) \/ Restart(p)
    <3>1. raw' = raw /\ nextSeq' = nextSeq /\ phase'[p] \in {"next", "boot"}
      BY <2>2, Sessions DEF Boot, Restart, Goto, database
    <3>2. QED
      BY <1>b, <2>2, <3>1, LoopOutside, Sessions
  <2>3. CASE Crash(p)
    BY <1>0, <2>3, CrashOrder
  <2>4. QED
    BY <1>3, <2>1, <2>2, <2>3
<1>4. ASSUME NEW a \in Actors, Rebuild(a)
      PROVE  Ordered'
  <2>1. CASE OpenRow(a)
    <3>1. raw' = raw /\ nextSeq' = nextSeq /\ phase'[a] = "claim"
      BY <2>1, Sessions DEF OpenRow, Goto, database
    <3>2. QED
      BY <1>b, <2>1, <3>1, OpenOutside
  <2>2. QED
    BY <1>0, <1>4, <2>1, ReadOrder, CommitRebuildOrder, MarkFailedOrder DEF Rebuild
<1>5. ASSUME NEW t \in Threads, NEW i \in Items, AdminRebuild(t, i)
      PROVE  Ordered'
  <2>1. raw' = raw /\ nextSeq' = nextSeq /\ phase'[t] = "open"
    BY <1>5, Sessions DEF AdminRebuild, Goto, database
  <2>2. QED
    BY <1>5, <1>b, <2>1, AdminOutside, Sessions
<1>6. ASSUME NEW s \in Sources, NEW policy \in Policy, PatchSource(s, policy)
      PROVE  Ordered'
  BY <1>6, <1>a DEF PatchSource
<1>7. CASE UNCHANGED vars
  BY <1>7, <1>a DEF vars, database
<1>8. QED
  BY <1>1, <1>2, <1>3, <1>4, <1>5, <1>6, <1>7, Zenon DEF Next

LEMMA InitOrdered == Init => Ordered
<1> SUFFICES ASSUME Init
             PROVE  Ordered
  OBVIOUS
<1>1. nextSeq = 0 /\ Stored = {}
  BY DEF Init, Stored
<1>2. \A i \in Items : proj[i] # None => proj[i].latest = 0
  BY DEF Init, FreshRow
<1>3. \A a \in Actors : /\ phase[a] \in {"boot", "idle"}
                        /\ \A i \in Items : txn[a].rows[i] = None
  BY DEF Init, NoSession
<1>4. \A a \in Actors : InOrder(a)
  BY <1>3 DEF InOrder, Inserted
<1>5. QED
  BY <1>1, <1>2, <1>4 DEF Ordered, LatestBound, UnprojectedIsFlagged

\* Where one process serves, or an item's events come from one source, a committed
\* event that its item's projection does not show is on a row that startup recovery
\* selects: a crash between the commit of an event and its rebuild strands nothing.
THEOREM NothingIsStranded ==
  ASSUME OneLine
  PROVE  Spec => []UnprojectedIsFlagged
<1>1. Ordered => UnprojectedIsFlagged
  BY DEF Ordered
<1>2. IInv /\ Log /\ Rows /\ Ordered /\ [Next]_vars => Ordered'
  BY NextOrdered
<1>3. QED
  BY <1>1, <1>2, InitOrdered, RowsAlways, PTL DEF Spec

-----------------------------------------------------------------------------
(* Device invalidations, where nothing runs beside the event loop. *)

\* One process, and no admin rebuild beside it.
Alone == \A a, b \in Actors : a = b

\* What the session has read is what the tables say: its rows are the rows, what it
\* has replayed shows every stored invalidation, and at the commit of one it has
\* loaded the row of every item that it covers.
Reflects(a) ==
  /\ \A i \in Items : txn[a].rows[i] # None => txn[a].rows[i] = proj[i]
  /\ phase[a] = "apply" =>
       \A v \in Stored : txn[a].seen.events \cap Covers[v] \subseteq txn[a].seen.voided
  /\ phase[a] = "commit" =>
       \A i \in Items : view[i].events \cap Covers[txn[a].req.id] # {} => txn[a].rows[i] # None

Reflected == (\A a \in Actors : Reflects(a)) /\ InvalidationReflected

\* What an item shows of the invalidations.
Shown(i) ==
  \A v \in Stored : \A o \in view[i].events \cap Covers[v] : o \in view[i].voided \/ Flagged(i)

LEMMA ShownIsReflected == InvalidationReflected <=> \A i \in Items : Shown(i)
BY DEF InvalidationReflected, Shown

LEMMA AloneReflects ==
  ASSUME Alone, NEW a \in Actors, Reflects(a)', \A i \in Items : Shown(i)'
  PROVE  Reflected'
<1>1. \A b \in Actors : Reflects(b)'
  BY DEF Alone
<1>2. InvalidationReflected'
  BY Zenon DEF InvalidationReflected, Shown
<1>3. QED
  BY <1>1, <1>2, Zenon DEF Reflected

LEMMA SameShown ==
  ASSUME Reflected, NEW i \in Items, raw' = raw, proj'[i] = proj[i], view'[i] = view[i]
  PROVE  Shown(i)'
<1>1. Shown(i)
  BY ShownIsReflected DEF Reflected
<1>2. QED
  BY <1>1 DEF Shown, Flagged, Stored

\* A session that was given up, or has committed, owes nothing.
LEMMA ClearReflects ==
  ASSUME NEW a \in Actors, \A i \in Items : txn'[a].rows[i] = None,
         phase'[a] \notin {"apply", "commit"}
  PROVE  Reflects(a)'
BY DEF Reflects

LEMMA OutsideReflected ==
  ASSUME Alone, Reflected, NEW p \in Actors, Outside(p), raw' = raw, phase'[p] # "commit"
  PROVE  Reflected'
<1>1. ASSUME NEW i \in Items, txn'[p].rows[i] # None
      PROVE  txn'[p].rows[i] = proj'[i]
  BY <1>1 DEF Outside, Reflected, Reflects
<1>2. Reflects(p)'
  BY <1>1 DEF Reflects, Outside
<1>3. \A i \in Items : Shown(i)'
  BY SameShown DEF Outside
<1>4. QED
  BY <1>2, <1>3, AloneReflects

\* SelectAffected loads the row of every item that the invalidation covers.
LEMMA SelectReflected ==
  ASSUME Alone, IInv, Rows, Reflected, NEW p \in Procs, SelectAffected(p)
  PROVE  Reflected'
<1>0. Outside(p) /\ p \in Actors
  BY IngestOutside, Sessions
<1>1. raw' = raw /\ proj' = proj /\ view' = view
  BY <1>0 DEF SelectAffected, database
<1> DEFINE hit == {i \in Items : view[i].events \cap Covers[txn[p].req.id] # {}}
           rows == [i \in Items |-> IF i \in hit /\ txn[p].rows[i] = None
                                    THEN proj[i] ELSE txn[p].rows[i]]
<1>2. txn' = [txn EXCEPT ![p] = [txn[p] EXCEPT !.hit = hit, !.rows = rows]]
      /\ phase' = [phase EXCEPT ![p] = "commit"]
  BY <1>0, Sessions DEF SelectAffected, Goto
<1>3. \A i \in hit : proj[i] # None
  BY DEF Rows, NoRowNoView
<1>4. \A i \in hit : rows[i] # None
  BY <1>3
<1> HIDE DEF rows
<1>5. txn'[p].rows = rows /\ txn'[p].req = txn[p].req /\ phase'[p] = "commit"
  BY <1>0, <1>2, Sessions
<1>6. ASSUME NEW i \in Items, txn'[p].rows[i] # None
      PROVE  txn'[p].rows[i] = proj'[i]
  BY <1>0, <1>6 DEF Outside, Reflected, Reflects
<1>7. \A i \in Items : view'[i].events \cap Covers[txn'[p].req.id] # {} => txn'[p].rows[i] # None
  BY <1>1, <1>4, <1>5
<1>8. Reflects(p)'
  BY <1>5, <1>6, <1>7 DEF Reflects
<1>9. \A i \in Items : Shown(i)'
  BY <1>1, SameShown
<1>10. QED
  BY <1>0, <1>8, <1>9, AloneReflects

LEMMA ReadReflected ==
  ASSUME Alone, IInv, Reflected, NEW a \in Actors,
         ClaimRow(a) \/ FailRebuild(a) \/ ReadEvents(a)
  PROVE  Reflected'
<1>1. raw' = raw /\ proj' = proj /\ view' = view
  BY DEF ClaimRow, FailRebuild, ReadEvents, database
<1>2. \A i \in Items : Shown(i)'
  BY <1>1, SameShown
<1>3. CASE ClaimRow(a) \/ FailRebuild(a)
  <2>1. txn' = txn /\ phase'[a] \in {"failing", "read"}
    BY <1>3, Sessions DEF ClaimRow, FailRebuild, Goto
  <2>2. Reflects(a)'
    BY <1>1, <2>1 DEF Reflected, Reflects
  <2>3. QED
    BY <1>2, <2>2, AloneReflects
<1>4. CASE ReadEvents(a)
  <2>1. PICK now : now = StoredOf(txn[a].item)
    OBVIOUS
  <2>2. PICK seen : seen = [events |-> now,
                            voided |-> {o \in now : \E v \in Stored : o \in Covers[v]}]
    OBVIOUS
  <2>3. txn' = [txn EXCEPT ![a].seen = seen] /\ phase' = [phase EXCEPT ![a] = "apply"]
    BY <1>4, <2>1, <2>2 DEF ReadEvents, Goto
  <2>4. /\ txn'[a].rows = txn[a].rows /\ txn'[a].seen = seen /\ phase'[a] = "apply"
    BY <2>3, Sessions
  <2>5. \A v \in Stored' : seen.events \cap Covers[v] \subseteq seen.voided
    BY <1>1, <2>2 DEF Stored
  <2>6. Reflects(a)'
    BY <1>1, <2>4, <2>5 DEF Reflected, Reflects
  <2>7. QED
    BY <1>2, <2>6, AloneReflects
<1>5. QED
  BY <1>3, <1>4

\* The commit of an event leaves every row that it has loaded stale.
LEMMA CommitEventReflected ==
  ASSUME Alone, IInv, Log, Reflected, NEW p \in Procs, CommitEvent(p)
  PROVE  Reflected'
<1>0. phase[p] = "commit" /\ Inserted(p) /\ p \in Actors /\ view' = view
  BY Sessions DEF CommitEvent, Inserted
<1>1. PICK e \in Events : e = txn[p].req.id
  BY <1>0, InsertedRequest
<1>2. \A f \in Events : raw'[f] # None => f = e \/ raw[f] # None
  <2>1. \E row : raw' = [raw EXCEPT ![e] = row]
    BY <1>1 DEF CommitEvent
  <2>2. QED
    BY <2>1 DEF IInv, TypeOK
<1>3. phase'[p] \in {"next", "open"} /\ \A i \in Items : txn'[p].rows[i] = None
  BY Sessions DEF CommitEvent, Goto, NoSession
<1>4. Reflects(p)'
  BY <1>0, <1>3, ClearReflects
<1>5. ASSUME NEW i \in Items, i \in Touched(p)
      PROVE  Flagged(i)'
  <2>1. txn[p].rows[i] = proj[i] /\ txn[p].rows[i] # None
    BY <1>0, <1>5 DEF Touched, Reflected, Reflects
  <2>2. proj[i] \in ProjRow
    BY <2>1 DEF IInv, TypeOK
  <2>3. PICK new : new = MarkedStale(p, i)
    OBVIOUS
  <2>4. new.status = "stale"
    BY <2>1, <2>2, <2>3 DEF MarkedStale, ProjRow
  <2>5. proj'[i] = Emit(proj[i], proj[i], new) /\ proj'[i] # None
    <3>1. proj'[i] = Emit(proj[i], txn[p].rows[i], MarkedStale(p, i))
      BY <1>5 DEF CommitEvent
    <3>2. proj'[i] # None
      BY <1>5, StaleColumns
    <3>3. QED
      BY <2>1, <2>3, <3>1, <3>2
  <2>6. proj'[i].status = "stale"
    BY <2>2, <2>4, <2>5, EmitColumns
  <2>7. QED
    BY <2>5, <2>6 DEF Flagged
<1>6. ASSUME NEW i \in Items
      PROVE  Shown(i)'
  <2>1. CASE i \in Touched(p)
    BY <1>5, <2>1 DEF Shown
  <2>2. CASE i \notin Touched(p)
    <3>1. proj'[i] = proj[i]
      BY <2>2 DEF CommitEvent
    <3>2. view[i].events \cap Covers[e] = {}
      BY <1>0, <1>1, <2>2 DEF Reflected, Reflects, Touched
    <3>3. Shown(i)
      BY ShownIsReflected DEF Reflected
    <3>4. ASSUME NEW v \in Stored', NEW o \in view'[i].events \cap Covers[v]
          PROVE  o \in view'[i].voided \/ Flagged(i)'
      <4>1. v # e /\ v \in Stored
        BY <1>0, <1>2, <3>2, <3>4 DEF Stored
      <4>2. o \in view[i].voided \/ Flagged(i)
        BY <1>0, <3>3, <3>4, <4>1 DEF Shown
      <4>3. QED
        BY <1>0, <3>1, <4>2 DEF Flagged
    <3>5. QED
      BY <3>4, Zenon DEF Shown
  <2>3. QED
    BY <2>1, <2>2
<1>7. QED
  BY <1>0, <1>4, <1>6, AloneReflects

LEMMA CommitRebuildReflected ==
  ASSUME Alone, IInv, Reflected, NEW a \in Actors, CommitRebuild(a)
  PROVE  Reflected'
<1>1. PICK i \in Items : i = txn[a].item
  BY RebuildOf DEF CommitRebuild, IInv, RebuildPhases
<1>2. PICK seen : seen = txn[a].seen
  OBVIOUS
<1>3. /\ phase[a] = "apply" /\ view[i].events \subseteq seen.events
      /\ \A v \in Stored : seen.events \cap Covers[v] \subseteq seen.voided
  BY <1>1, <1>2 DEF CommitRebuild, IInv, ClaimOK, ClaimOf, Reflected, Reflects
<1>4. /\ \E row : proj' = [proj EXCEPT ![i] = row]
      /\ view' = (IF seen.events = {} THEN view ELSE [view EXCEPT ![i] = seen])
      /\ raw' = raw
  BY <1>1, <1>2 DEF CommitRebuild
<1>5. phase'[a] \in {"next", "idle"} /\ \A j \in Items : txn'[a].rows[j] = None
  BY RestOfList, Sessions DEF CommitRebuild, Goto, AfterRebuild, IInv
<1>6. Reflects(a)'
  BY <1>5, ClearReflects
<1>7. \A j \in Items \ {i} : proj'[j] = proj[j] /\ view'[j] = view[j]
  BY <1>4 DEF IInv, TypeOK
<1>8. Shown(i)'
  <2>1. CASE seen.events = {}
    <3>1. view'[i].events = {}
      BY <1>3, <1>4, <2>1
    <3>2. QED
      BY <3>1 DEF Shown
  <2>2. CASE seen.events # {}
    <3>1. view'[i] = seen
      BY <1>4, <2>2 DEF IInv, TypeOK
    <3>2. Stored' = Stored
      BY <1>4 DEF Stored
    <3>3. QED
      BY <1>3, <3>1, <3>2 DEF Shown
  <2>3. QED
    BY <2>1, <2>2
<1>9. \A j \in Items : Shown(j)'
  BY <1>4, <1>7, <1>8, SameShown
<1>10. QED
  BY <1>6, <1>9, AloneReflects

LEMMA MarkFailedReflected ==
  ASSUME Alone, IInv, Reflected, NEW a \in Actors, MarkFailed(a)
  PROVE  Reflected'
<1>1. PICK i \in Items : i = txn[a].item
  BY RebuildOf DEF MarkFailed, IInv, RebuildPhases
<1>2. PICK row : row = IF proj[i] = None THEN [FreshRow EXCEPT !.status = "failed"]
                       ELSE [proj[i] EXCEPT !.status = "failed"]
  OBVIOUS
<1>3. proj' = [proj EXCEPT ![i] = row] /\ view' = view /\ raw' = raw
  BY <1>1, <1>2 DEF MarkFailed
<1>4. proj'[i] = row /\ \A j \in Items \ {i} : proj'[j] = proj[j]
  BY <1>3 DEF IInv, TypeOK
<1>5. row \in ProjRow /\ row.status = "failed"
  BY <1>2 DEF FreshRow, ProjRow, Status, IInv, TypeOK
<1>6. Flagged(i)'
  BY <1>4, <1>5, NoneAssumption DEF Flagged
<1>7. phase'[a] \in {"next", "idle"} /\ \A j \in Items : txn'[a].rows[j] = None
  BY RestOfList, Sessions DEF MarkFailed, Goto, AfterRebuild, IInv
<1>8. Reflects(a)'
  BY <1>7, ClearReflects
<1>9. \A j \in Items : Shown(j)'
  BY <1>3, <1>4, <1>6, SameShown DEF Shown
<1>10. QED
  BY <1>8, <1>9, AloneReflects

LEMMA CrashReflected ==
  ASSUME Alone, IInv, Reflected, NEW p \in Procs, Crash(p)
  PROVE  Reflected'
<1> DEFINE dead == {p} \cup {t \in Threads : HomeOf[t] = p}
<1>1. /\ proj' = proj /\ view' = view /\ raw' = raw
      /\ phase' = [a \in Actors |-> IF a = p THEN "down"
                                    ELSE IF a \in dead THEN "idle" ELSE phase[a]]
      /\ txn' = [a \in Actors |-> IF a \in dead THEN NoSession ELSE txn[a]]
  BY DEF Crash, database
<1>2. p \in Actors /\ p \in dead
  BY Sessions
<1> HIDE DEF dead
<1>3. phase'[p] = "down" /\ txn'[p] = NoSession
  BY <1>1, <1>2
<1>4. Reflects(p)'
  BY <1>2, <1>3, ClearReflects DEF NoSession
<1>5. \A i \in Items : Shown(i)'
  BY <1>1, SameShown
<1>6. QED
  BY <1>2, <1>4, <1>5, AloneReflects

\* Every step keeps the projection in step with the invalidations.
LEMMA NextReflected ==
  ASSUME Alone
  PROVE  IInv /\ Log /\ Rows /\ Reflected /\ [Next]_vars => Reflected'
<1> SUFFICES ASSUME IInv, Log, Rows, Reflected, [Next]_vars
             PROVE  Reflected'
  OBVIOUS
<1>a. ASSUME UNCHANGED <<raw, proj, view, txn, phase>>
      PROVE  Reflected'
  <2>1. \A a \in Actors : Reflects(a)'
    BY <1>a DEF Reflected, Reflects, Stored
  <2>2. InvalidationReflected'
    BY <1>a DEF Reflected, InvalidationReflected, Stored, Flagged
  <2>3. QED
    BY <2>1, <2>2 DEF Reflected
<1>1. ASSUME NEW p \in Procs, NEW r \in Requests,
             Refuse(p, r) \/ AdmitLegacy(p, r) \/ AdmitHmac(p, r)
      PROVE  Reflected'
  <2>1. CASE Refuse(p, r)
    BY <1>a, <2>1 DEF Refuse
  <2>2. CASE AdmitLegacy(p, r) \/ AdmitHmac(p, r)
    <3>1. raw' = raw /\ phase'[p] = "lookup"
      BY <2>2, Sessions DEF AdmitLegacy, AdmitHmac, Goto, database
    <3>2. QED
      BY <2>2, <3>1, AdmitOutside, OutsideReflected, Sessions
  <2>3. QED
    BY <1>1, <2>1, <2>2
<1>2. ASSUME NEW p \in Procs, Ingest(p)
      PROVE  Reflected'
  <2>1. CASE AnswerStored(p) \/ ReadStream(p) \/ Insert(p) \/ LoadRow(p)
    <3>1. raw' = raw
      BY <2>1 DEF AnswerStored, ReadStream, Insert, LoadRow, database
    <3>2. phase'[p] # "commit"
      BY <2>1, Sessions DEF AnswerStored, ReadStream, Insert, LoadRow, Abort, Finish, Goto
    <3>3. QED
      BY <2>1, <3>1, <3>2, IngestOutside, OutsideReflected, Sessions
  <2>2. CASE SelectAffected(p) \/ CommitEvent(p)
    BY <2>2, SelectReflected, CommitEventReflected
  <2>3. QED
    BY <1>2, <2>1, <2>2 DEF Ingest
<1>3. ASSUME NEW p \in Procs, NextItem(p) \/ Boot(p) \/ Crash(p) \/ Restart(p)
      PROVE  Reflected'
  <2>1. CASE NextItem(p)
    <3>1. raw' = raw /\ phase'[p] \in {"idle", "open"}
      BY <2>1, LoopStep DEF database
    <3>2. QED
      BY <2>1, <3>1, LoopOutside, OutsideReflected, Sessions
  <2>2. CASE Boot(p) \/ Restart(p)
    <3>1. raw' = raw /\ phase'[p] \in {"next", "boot"}
      BY <2>2, Sessions DEF Boot, Restart, Goto, database
    <3>2. QED
      BY <2>2, <3>1, LoopOutside, OutsideReflected, Sessions
  <2>3. CASE Crash(p)
    BY <2>3, CrashReflected
  <2>4. QED
    BY <1>3, <2>1, <2>2, <2>3
<1>4. ASSUME NEW a \in Actors, Rebuild(a)
      PROVE  Reflected'
  <2>1. CASE OpenRow(a)
    <3>1. raw' = raw /\ phase'[a] = "claim"
      BY <2>1, Sessions DEF OpenRow, Goto, database
    <3>2. QED
      BY <2>1, <3>1, OpenOutside, OutsideReflected
  <2>2. QED
    BY <1>4, <2>1, ReadReflected, CommitRebuildReflected, MarkFailedReflected DEF Rebuild
<1>5. ASSUME NEW t \in Threads, NEW i \in Items, AdminRebuild(t, i)
      PROVE  Reflected'
  <2>1. raw' = raw /\ phase'[t] = "open"
    BY <1>5, Sessions DEF AdminRebuild, Goto, database
  <2>2. QED
    BY <1>5, <2>1, AdminOutside, OutsideReflected, Sessions
<1>6. ASSUME NEW s \in Sources, NEW policy \in Policy, PatchSource(s, policy)
      PROVE  Reflected'
  BY <1>6, <1>a DEF PatchSource
<1>7. CASE UNCHANGED vars
  BY <1>7, <1>a DEF vars, database
<1>8. QED
  BY <1>1, <1>2, <1>3, <1>4, <1>5, <1>6, <1>7, Zenon DEF Next

LEMMA InitReflected == Init => Reflected
<1> SUFFICES ASSUME Init
             PROVE  Reflected
  OBVIOUS
<1>1. \A a \in Actors : phase[a] \in {"boot", "idle"} /\ \A i \in Items : txn[a].rows[i] = None
  BY DEF Init, NoSession
<1>2. Stored = {}
  BY DEF Init, Stored
<1>3. QED
  BY <1>1, <1>2 DEF Reflected, Reflects, InvalidationReflected

\* Where one process serves and no admin rebuilds beside it, a projected inspection
\* that a committed device invalidation covers is projected as invalidated, or its
\* item's row is flagged to be rebuilt, in every state that a crash can leave.
THEOREM InvalidationsAreReflected ==
  ASSUME Alone
  PROVE  Spec => []InvalidationReflected
<1>1. Reflected => InvalidationReflected
  BY DEF Reflected
<1>2. IInv /\ Log /\ Rows /\ Reflected /\ [Next]_vars => Reflected'
  BY NextReflected
<1>3. QED
  BY <1>1, <1>2, InitReflected, RowsAlways, PTL DEF Spec
=============================================================================
