----------------------------- MODULE IntegrityLog -----------------------------
(***************************************************************************)
(* The integrity chains of the raw log: their extension by deliveries      *)
(* (ingestion/service.py), their verification and its alerts               *)
(* (security/integrity.py), checkpoints (security/checkpoints.py), and the *)
(* demonstration's tampering and reset (api/admin.py, api/demo.py).        *)
(*                                                                         *)
(* A MAC is a number of its own: it stands for the event, whose MAC comes  *)
(* out differently exactly while a bit of its ciphertext is flipped.       *)
(* Nothing is locked: a delivery and a verification read rows and commit   *)
(* the columns that differ from those.  Tampering needs no open insert,    *)
(* the reset no open transaction.  Several alerts on one event are one     *)
(* here; signatures, keys and the audit rows are left out.                 *)
(***************************************************************************)
EXTENDS Integers, Sequences, FiniteSets

CONSTANTS
  Streams,    \* source streams
  Threads,    \* threads and event loops of the API
  None,
  MaxEvents   \* bound on events ever stored

ASSUME IntegrityAssumption ==
  /\ MaxEvents \in Nat
  /\ None \notin Streams

VARIABLES
  log,          \* raw_events of each stream, in the order of integrity_seq
  heads,        \* the integrity_stream_states row of each stream, or None
  alerts,       \* the events with a RAW_LOG_INTEGRITY_FAILED alert
  checkpoints,  \* integrity_checkpoints
  nextMac,      \* the next MAC
  jobs,         \* what each thread has read, None between requests
  touched       \* history: the events that tampering ever changed

rows == <<log, heads, alerts, checkpoints>>
vars == <<rows, nextMac, jobs, touched>>

-----------------------------------------------------------------------------
(* Rows. *)

Macs == 1..MaxEvents

\* prev = 0: the empty prev_integrity_mac of a first event.
Event == [seq : Macs, prev : {0} \cup Macs, mac : Macs, flipped : BOOLEAN]
StreamRow == [seq : 0..MaxEvents, mac : {0} \cup Macs, status : {"OK", "INTEGRITY_FAILED"}]

\* old: made before the last reset of the demonstration, which keeps it.
Checkpoint == [stream : Streams, seq : 0..MaxEvents, mac : {0} \cup Macs, old : BOOLEAN]

Delivery == [op : {"append"}, stream : Streams, tail : StreamRow \cup {None}]

\* now: the stream whose events have been read and whose row has not; found:
\* what is wrong so far; loaded: the rows.  For the properties, due: the events
\* that have been changed since before the start; alone: no other verification
\* has run beside this one.
Verify == [op : {"verify"}, todo : SUBSET Streams, now : Streams \cup {None},
           found : [Streams -> SUBSET Macs], loaded : [Streams -> StreamRow \cup {None}],
           due : SUBSET Macs, alone : BOOLEAN]

\* None is neither a row nor a request.
ASSUME NoneIsNoRow == None \notin StreamRow /\ None \notin Delivery \cup Verify

\* What a commit writes: the columns whose value differs from the one loaded.
Emit(row, loaded, new) ==
  [f \in DOMAIN row |-> IF new[f] # loaded[f] THEN new[f] ELSE row[f]]

Serves(p, op) == jobs[p] # None /\ jobs[p].op = op
Done(p) == jobs' = [jobs EXCEPT ![p] = None]

Flipped(s) == {log[s][k].mac : k \in {i \in DOMAIN log[s] : log[s][i].flipped}}

-----------------------------------------------------------------------------
(* A delivery appends to its stream. *)

AppendRead(p, s) ==
  /\ jobs[p] = None
  /\ nextMac <= MaxEvents
  /\ jobs' = [jobs EXCEPT ![p] = [op |-> "append", stream |-> s, tail |-> heads[s]]]
  /\ UNCHANGED <<rows, nextMac, touched>>

\* A slip: no unique key on (integrity_stream_id, integrity_seq).
Free_Always(s, tail) == TRUE

\* The stream row is new, or the place after the tail that was read is free.
Free(s, tail) ==
  IF tail = None THEN heads[s] = None
                 ELSE \A k \in DOMAIN log[s] : log[s][k].seq # tail.seq + 1

\* The event takes the place after the tail that was read; if another one has
\* it, the delivery fails.
AppendCommit(p) ==
  /\ Serves(p, "append")
  /\ LET s == jobs[p].stream
         new == [seq |-> 0, mac |-> 0, status |-> "OK"]
         tail == IF jobs[p].tail = None THEN new ELSE jobs[p].tail
         head == IF heads[s] = None THEN new ELSE heads[s]
     IN  IF Free(s, jobs[p].tail) /\ nextMac <= MaxEvents
           THEN /\ log' = [log EXCEPT ![s] = Append(@,
                     [seq |-> tail.seq + 1, prev |-> tail.mac, mac |-> nextMac,
                      flipped |-> FALSE])]
                /\ heads' = [heads EXCEPT ![s] = Emit(head, tail,
                     [tail EXCEPT !.seq = @ + 1, !.mac = nextMac])]
                /\ nextMac' = nextMac + 1
           ELSE UNCHANGED <<log, heads, nextMac>>
  /\ Done(p)
  /\ UNCHANGED <<alerts, checkpoints, touched>>

-----------------------------------------------------------------------------
(* verify_integrity. *)

\* A slip: the loop ends at the first failure of a stream.
Wrong_First(events) ==
  {events[k].mac : k \in {i \in DOMAIN events :
     events[i].flipped /\ \A j \in 1..(i - 1) : ~events[j].flipped}}

\* SEQUENCE_GAP, PREVIOUS_MAC_MISMATCH, MAC_MISMATCH.
Wrong(events) ==
  {events[k].mac : k \in {i \in DOMAIN events :
     \/ events[i].seq # i
     \/ events[i].prev # (IF i = 1 THEN 0 ELSE events[i - 1].mac)
     \/ events[i].flipped}}

\* The streams are listed.
VerifyStart(p) ==
  /\ jobs[p] = None
  /\ LET others == {q \in Threads : Serves(q, "verify")} IN
     jobs' = [q \in Threads |->
       IF q = p
         THEN [op |-> "verify", todo |-> {s \in Streams : heads[s] # None},
               now |-> None, found |-> [s \in Streams |-> {}],
               loaded |-> [s \in Streams |-> None],
               due |-> UNION {Flipped(s) : s \in Streams}, alone |-> others = {}]
         ELSE IF q \in others THEN [jobs[q] EXCEPT !.alone = FALSE] ELSE jobs[q]]
  /\ UNCHANGED <<rows, nextMac, touched>>

\* The events of a stream are read and their MACs calculated.
VerifyEvents(p, s) ==
  /\ Serves(p, "verify")
  /\ jobs[p].now = None
  /\ s \in jobs[p].todo
  /\ jobs' = [jobs EXCEPT ![p].now = s, ![p].todo = @ \ {s},
                          ![p].found[s] = Wrong(log[s])]
  /\ UNCHANGED <<rows, nextMac, touched>>

\* Its row is read, which by now may be marked by somebody else.
VerifyHead(p) ==
  /\ Serves(p, "verify")
  /\ jobs[p].now # None
  /\ jobs' = [jobs EXCEPT ![p].loaded[jobs[p].now] = heads[jobs[p].now], ![p].now = None]
  /\ UNCHANGED <<rows, nextMac, touched>>

\* A slip: a stream that is found whole keeps its mark.
Judged_NeverOK(row, found) ==
  IF found = {} THEN row ELSE [row EXCEPT !.status = "INTEGRITY_FAILED"]

\* The row of a stream in which this was found.
Judged(row, found) ==
  [row EXCEPT !.status = IF found = {} THEN "OK" ELSE "INTEGRITY_FAILED"]

\* The rows and the new alerts are committed.
VerifyCommit(p) ==
  /\ Serves(p, "verify")
  /\ jobs[p].todo = {} /\ jobs[p].now = None
  /\ LET j == jobs[p] IN
     /\ heads' = [s \in Streams |-> IF j.loaded[s] = None THEN heads[s]
          ELSE Emit(heads[s], j.loaded[s], Judged(j.loaded[s], j.found[s]))]
     /\ alerts' = alerts \cup UNION {j.found[s] : s \in Streams}
  /\ Done(p)
  /\ UNCHANGED <<log, checkpoints, nextMac, touched>>

-----------------------------------------------------------------------------
(* Checkpoints, and the demonstration. *)

\* A slip: the place that the next event will get is signed.
Signed_Next(s, h) == [stream |-> s, seq |-> h.seq + 1, mac |-> h.mac, old |-> FALSE]

\* What create_classic_checkpoint signs of the stream row h.
Signed(s, h) == [stream |-> s, seq |-> h.seq, mac |-> h.mac, old |-> FALSE]

MakeCheckpoint(s) ==
  /\ heads[s] # None
  /\ checkpoints' = checkpoints \cup {Signed(s, heads[s])}
  /\ UNCHANGED <<log, heads, alerts, nextMac, jobs, touched>>

\* demo_tamper and _tamper flip the lowest bit of the first byte: the second
\* time restores it.
Tamper(s, k) ==
  LET e == log[s][k].mac IN
  /\ log' = [log EXCEPT ![s][k].flipped = ~@]
  /\ touched' = touched \cup {e}
  /\ jobs' = [p \in Threads |->
       IF Serves(p, "verify") THEN [jobs[p] EXCEPT !.due = @ \ {e}] ELSE jobs[p]]
  /\ UNCHANGED <<heads, alerts, checkpoints, nextMac>>

\* reset_demo truncates the log, the stream rows and the alerts, and keeps the
\* checkpoints; it waits for every transaction that has read one of them.
Reset ==
  /\ \A p \in Threads : jobs[p] = None
  /\ log' = [s \in Streams |-> <<>>]
  /\ heads' = [s \in Streams |-> None]
  /\ alerts' = {}
  /\ checkpoints' = {[c EXCEPT !.old = TRUE] : c \in checkpoints}
  /\ UNCHANGED <<nextMac, jobs, touched>>

\* The process dies, or the database fails.
Abort(p) ==
  /\ jobs[p] # None
  /\ Done(p)
  /\ UNCHANGED <<rows, nextMac, touched>>

-----------------------------------------------------------------------------
Init ==
  /\ log = [s \in Streams |-> <<>>]
  /\ heads = [s \in Streams |-> None]
  /\ alerts = {}
  /\ checkpoints = {}
  /\ nextMac = 1
  /\ jobs = [p \in Threads |-> None]
  /\ touched = {}

Next ==
  \/ \E p \in Threads, s \in Streams : AppendRead(p, s) \/ VerifyEvents(p, s)
  \/ \E p \in Threads :
       \/ AppendCommit(p)
       \/ VerifyStart(p) \/ VerifyHead(p) \/ VerifyCommit(p)
       \/ Abort(p)
  \/ \E s \in Streams : MakeCheckpoint(s) \/ \E k \in DOMAIN log[s] : Tamper(s, k)
  \/ Reset

Spec == Init /\ [][Next]_vars

-----------------------------------------------------------------------------
(* Properties. *)

\* Every variable keeps its type (models IntegrityStreamState, RawEvent,
\* SecurityAlert, IntegrityCheckpoint).
TypeOK ==
  /\ log \in [Streams -> Seq(Event)]
  /\ heads \in [Streams -> StreamRow \cup {None}]
  /\ alerts \subseteq Macs
  /\ checkpoints \subseteq Checkpoint
  /\ nextMac \in 1..(MaxEvents + 1)
  /\ jobs \in [Threads -> Delivery \cup Verify \cup {None}]
  /\ touched \subseteq Macs

\* Deliveries that race for a place leave a chain in which verify_integrity
\* finds nothing but what was tampered with: no false alarm, no false mark.
NoFalseAlarm ==
  /\ alerts \subseteq touched
  /\ \A s \in Streams : Wrong(log[s]) \subseteq touched

\* A verification raises an alert on every event that was changed before it
\* started and has not been restored since (verify_integrity).
AlarmIsRaised ==
  [][\A p \in Threads :
       Serves(p, "verify") /\ VerifyCommit(p) => jobs[p].due \subseteq alerts']_vars

\* A verification that no other one overlapped leaves each stream marked exactly
\* if it has found something in it, whatever the mark was before.
VerdictIsStored ==
  [][\A p \in Threads :
       Serves(p, "verify") /\ jobs[p].alone /\ VerifyCommit(p) =>
         \A s \in Streams : jobs[p].loaded[s] # None =>
           (heads'[s].status = "OK" <=> jobs[p].found[s] = {})]_vars

\* A checkpoint names a place and the MAC that is there, as long as the log is
\* not reset: it read both from one row (create_classic_checkpoint).
CheckpointOnChain ==
  \A c \in checkpoints : ~c.old =>
    \/ c.seq = 0 /\ c.mac = 0
    \/ c.seq \in DOMAIN log[c.stream] /\ log[c.stream][c.seq].mac = c.mac
=============================================================================
