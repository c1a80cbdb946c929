-------------------------- MODULE IntegrityLogProofs --------------------------
(***************************************************************************)
(* Proofs about IntegrityLog, for any streams, threads and bound: type     *)
(* correctness, that verify_integrity finds nothing but what was tampered  *)
(* with, that it raises an alert on what was, that its verdict is stored,  *)
(* and that a checkpoint is on the chain.                                  *)
(***************************************************************************)
EXTENDS IntegrityLog, SequenceTheorems, TLAPS

-----------------------------------------------------------------------------
(* The inductive invariant. *)

\* The MAC at a place of a stream; that of place 0 is empty.
MacAt(s, k) == IF k = 0 THEN 0 ELSE log[s][k].mac

\* The events are numbered and chained, and only tampering flips one.
ChainOK ==
  \A s \in Streams :
    /\ Len(log[s]) < nextMac
    /\ \A k \in 1..Len(log[s]) :
         /\ log[s][k].seq = k
         /\ log[s][k].prev = MacAt(s, k - 1)
         /\ log[s][k].mac < nextMac
         /\ log[s][k].flipped => log[s][k].mac \in touched

\* The row of a stream names the end of its chain.
HeadsOK ==
  \A s \in Streams :
    /\ heads[s] = None => Len(log[s]) = 0
    /\ heads[s] # None => heads[s].seq = Len(log[s]) /\ heads[s].mac = MacAt(s, Len(log[s]))

\* A delivery has read a place of the chain and the MAC that is there.
DeliveryOK(j) ==
  j.tail # None =>
    /\ j.tail.seq \in 0..Len(log[j.stream])
    /\ j.tail.mac = MacAt(j.stream, j.tail.seq)

\* A verification has found what is due in the streams it has read, and will
\* find the rest; the rows it has read exist, with the mark that it has read if
\* it is alone.
VerifyOK(j) ==
  /\ \A s \in Streams : j.found[s] \subseteq touched
  /\ \A s \in Streams : j.loaded[s] # None =>
       heads[s] # None /\ (j.alone => heads[s].status = j.loaded[s].status)
  /\ \A e \in j.due : \E s \in Streams :
       \/ s \in j.todo /\ e \in Flipped(s)
       \/ s \notin j.todo /\ e \in j.found[s]

JobsOK ==
  \A p \in Threads : jobs[p] # None =>
    /\ jobs[p].op = "append" => DeliveryOK(jobs[p])
    /\ jobs[p].op = "verify" => VerifyOK(jobs[p])

\* A verification that is alone is the only one.
AloneOK ==
  \A p, q \in Threads :
    Serves(p, "verify") /\ jobs[p].alone /\ Serves(q, "verify") => q = p

AlertsOK == alerts \subseteq touched

IInv ==
  /\ TypeOK /\ ChainOK /\ HeadsOK /\ JobsOK /\ AloneOK /\ AlertsOK /\ CheckpointOnChain

-----------------------------------------------------------------------------
(* Chains, rows and requests. *)

\* A stream is a sequence of events.
LEMMA Chain ==
  ASSUME TypeOK, NEW s \in Streams
  PROVE  /\ log[s] \in Seq(Event) /\ Len(log[s]) \in Nat
         /\ DOMAIN log[s] = 1..Len(log[s])
         /\ \A k \in 1..Len(log[s]) : log[s][k] \in Event
BY DEF TypeOK

LEMMA FlippedIs ==
  ASSUME TypeOK, NEW s \in Streams, NEW e
  PROVE  e \in Flipped(s) <=> \E k \in 1..Len(log[s]) : log[s][k].flipped /\ log[s][k].mac = e
BY Chain DEF Flipped

\* On a chain the loop of verify_integrity finds the flipped events, no others.
LEMMA WrongIsFlipped ==
  ASSUME TypeOK, ChainOK, NEW s \in Streams
  PROVE  Wrong(log[s]) = Flipped(s)
<1>1. DOMAIN log[s] = 1..Len(log[s]) /\ Len(log[s]) \in Nat
  BY Chain
<1>2. \A i \in 1..Len(log[s]) :
        /\ log[s][i].seq = i
        /\ log[s][i].prev = IF i = 1 THEN 0 ELSE log[s][i - 1].mac
  <2>1. \A i \in 1..Len(log[s]) : i - 1 = 0 <=> i = 1
    BY <1>1
  <2> QED
    BY <1>1, <2>1 DEF ChainOK, MacAt
<1>3. ASSUME NEW e
      PROVE  e \in Wrong(log[s]) <=>
               \E k \in 1..Len(log[s]) : log[s][k].flipped /\ log[s][k].mac = e
  BY <1>1, <1>2 DEF Wrong
<1> QED
  BY <1>3, FlippedIs

\* Only tampering flips an event.
LEMMA FlippedIsTouched ==
  ASSUME TypeOK, ChainOK, NEW s \in Streams
  PROVE  Flipped(s) \subseteq touched /\ Flipped(s) \subseteq Macs
<1>1. ASSUME NEW e \in Flipped(s)
      PROVE  e \in touched
  <2>1. PICK k \in 1..Len(log[s]) : log[s][k].flipped /\ log[s][k].mac = e
    BY FlippedIs
  <2> QED
    BY <2>1 DEF ChainOK
<1> QED
  BY <1>1 DEF TypeOK

\* What a commit writes to the row of a stream.
LEMMA EmitStream ==
  ASSUME NEW row \in StreamRow, NEW loaded \in StreamRow, NEW new \in StreamRow
  PROVE  LET e == Emit(row, loaded, new) IN
         /\ e \in StreamRow
         /\ e.seq = IF new.seq # loaded.seq THEN new.seq ELSE row.seq
         /\ e.mac = IF new.mac # loaded.mac THEN new.mac ELSE row.mac
         /\ e.status = IF new.status # loaded.status THEN new.status ELSE row.status
<1>1. DOMAIN row = {"seq", "mac", "status"}
  BY DEF StreamRow
<1> QED
  BY <1>1 DEF StreamRow, Emit

\* The op tells the kinds of request apart.
LEMMA Kinds ==
  ASSUME TypeOK, NEW p \in Threads, jobs[p] # None
  PROVE  /\ jobs[p].op \in {"append", "verify"}
         /\ jobs[p].op = "append" => jobs[p] \in Delivery
         /\ jobs[p].op = "verify" => jobs[p] \in Verify
<1>1. jobs[p] \in Delivery \cup Verify
  BY DEF TypeOK
<1>2. \A j \in Delivery : j.op = "append"
  BY DEF Delivery
<1>3. \A j \in Verify : j.op = "verify"
  BY DEF Verify
<1> QED
  BY <1>1, <1>2, <1>3

\* A request that one thread begins or ends leaves the other threads alone.
LEMMA OneJob ==
  ASSUME TypeOK, NEW p \in Threads, NEW job \in Delivery \cup Verify \cup {None},
         jobs' = [jobs EXCEPT ![p] = job]
  PROVE  /\ jobs' \in [Threads -> Delivery \cup Verify \cup {None}]
         /\ jobs'[p] = job
         /\ \A q \in Threads : q # p => jobs'[q] = jobs[q]
BY DEF TypeOK

LEMMA JobsNow ==
  ASSUME \A q \in Threads : \A j : j = jobs'[q] /\ j # None =>
           /\ j.op = "append" => DeliveryOK(j)'
           /\ j.op = "verify" => VerifyOK(j)'
  PROVE  JobsOK'
BY Zenon DEF JobsOK

\* What a delivery has read stays true while its stream grows.
LEMMA DeliveryKept ==
  ASSUME TypeOK, NEW j \in Delivery, DeliveryOK(j),
         \A s \in Streams : /\ Len(log[s]) <= Len(log'[s]) /\ Len(log'[s]) \in Nat
                            /\ \A k \in 1..Len(log[s]) : log'[s][k].mac = log[s][k].mac
  PROVE  DeliveryOK(j)'
<1>1. CASE j.tail = None
  BY <1>1 DEF DeliveryOK
<1>2. CASE j.tail # None
  <2>1. PICK s \in Streams : s = j.stream
    BY DEF Delivery
  <2>2. PICK n : n = j.tail.seq
    OBVIOUS
  <2>3. n \in 0..Len(log[s]) /\ j.tail.mac = MacAt(s, n)
    BY <1>2, <2>1, <2>2 DEF DeliveryOK
  <2>4. Len(log[s]) \in Nat
    BY Chain
  <2>5. MacAt(s, n)' = MacAt(s, n)
    BY <2>3, <2>4 DEF MacAt
  <2>6. n \in 0..Len(log'[s])
    BY <2>3, <2>4
  <2> QED
    BY <2>1, <2>2, <2>3, <2>5, <2>6 DEF DeliveryOK
<1> QED
  BY <1>1, <1>2

\* What a verification has found stays true while nothing due is restored, and
\* while nobody else judges a row.
LEMMA VerifyKept ==
  ASSUME NEW j \in Verify, VerifyOK(j), touched \subseteq touched',
         \A s \in Streams : heads[s] # None => heads'[s] # None,
         j.alone => \A s \in Streams : heads[s] # None => heads'[s].status = heads[s].status,
         \A s \in Streams : \A e \in j.due : e \in Flipped(s) => e \in Flipped(s)'
  PROVE  VerifyOK(j)'
<1>1. \A s \in Streams : j.found[s] \subseteq touched'
  BY DEF VerifyOK
<1>2. \A s \in Streams : j.loaded[s] # None =>
        heads'[s] # None /\ (j.alone => heads'[s].status = j.loaded[s].status)
  BY DEF VerifyOK
<1>3. \A e \in j.due : \E s \in Streams :
        \/ s \in j.todo /\ e \in Flipped(s)'
        \/ s \notin j.todo /\ e \in j.found[s]
  BY DEF VerifyOK
<1> QED
  BY <1>1, <1>2, <1>3 DEF VerifyOK

-----------------------------------------------------------------------------
(* The steps that read, and that give up. *)

\* Where no row changes, what concerns the rows stays.
LEMMA SameRows ==
  ASSUME IInv, UNCHANGED <<rows, nextMac, touched>>,
         jobs' \in [Threads -> Delivery \cup Verify \cup {None}],
         \A q \in Threads : \A j : j = jobs'[q] /\ j # None =>
           /\ j.op = "append" => DeliveryOK(j)
           /\ j.op = "verify" => VerifyOK(j),
         AloneOK'
  PROVE  IInv'
<1>1. UNCHANGED <<log, heads, alerts, checkpoints, nextMac, touched>>
  BY DEF rows
<1>2. /\ \A s, k : MacAt(s, k)' = MacAt(s, k)
      /\ \A s : Flipped(s)' = Flipped(s)
  BY <1>1 DEF MacAt, Flipped
<1>3. TypeOK' /\ AlertsOK' /\ CheckpointOnChain'
  BY <1>1 DEF IInv, TypeOK, AlertsOK, CheckpointOnChain
<1>4. ChainOK' /\ HeadsOK'
  BY <1>1, <1>2 DEF IInv, ChainOK, HeadsOK
<1>5. JobsOK'
  <2>1. \A j : DeliveryOK(j) => DeliveryOK(j)'
    BY <1>1, <1>2 DEF DeliveryOK
  <2>2. \A j : VerifyOK(j) => VerifyOK(j)'
    BY <1>1, <1>2 DEF VerifyOK
  <2> QED
    BY <2>1, <2>2, JobsNow
<1> QED
  BY <1>3, <1>4, <1>5 DEF IInv

\* One thread reads, or ends its request; a verification goes on as it began.
LEMMA OneReads ==
  ASSUME IInv, UNCHANGED <<rows, nextMac, touched>>,
         NEW p \in Threads, NEW job \in Delivery \cup Verify \cup {None},
         jobs' = [jobs EXCEPT ![p] = job],
         job # None /\ job.op = "append" => DeliveryOK(job),
         job # None /\ job.op = "verify" =>
           VerifyOK(job) /\ Serves(p, "verify") /\ job.alone = jobs[p].alone
  PROVE  IInv'
<1>1. /\ jobs' \in [Threads -> Delivery \cup Verify \cup {None}]
      /\ jobs'[p] = job
      /\ \A q \in Threads : q # p => jobs'[q] = jobs[q]
  BY OneJob DEF IInv
<1>2. ASSUME NEW q \in Threads, NEW j, j = jobs'[q], j # None
      PROVE  /\ j.op = "append" => DeliveryOK(j)
             /\ j.op = "verify" => VerifyOK(j)
  <2>1. CASE q = p
    BY <1>1, <1>2, <2>1
  <2>2. CASE q # p
    BY <1>1, <1>2, <2>2 DEF IInv, JobsOK
  <2> QED
    BY <2>1, <2>2
<1>3. AloneOK'
  <2>1. ASSUME NEW q \in Threads, Serves(q, "verify")'
        PROVE  Serves(q, "verify") /\ jobs'[q].alone = jobs[q].alone
    BY <1>1, <2>1 DEF Serves
  <2> QED
    BY <2>1 DEF IInv, AloneOK
<1> QED
  BY <1>1, <1>2, <1>3, SameRows

LEMMA EndSafe ==
  ASSUME IInv, NEW p \in Threads, UNCHANGED <<rows, nextMac, touched>>, Done(p)
  PROVE  IInv'
BY OneReads DEF Done

LEMMA AppendReadSafe ==
  ASSUME IInv, NEW p \in Threads, NEW s \in Streams, AppendRead(p, s)
  PROVE  IInv'
<1> DEFINE job == [op |-> "append", stream |-> s, tail |-> heads[s]]
<1>1. UNCHANGED <<rows, nextMac, touched>> /\ jobs' = [jobs EXCEPT ![p] = job]
  BY DEF AppendRead
<1>2. TypeOK /\ HeadsOK
  BY DEF IInv
<1>3. job \in Delivery /\ job.op = "append"
  BY <1>2 DEF TypeOK, Delivery
<1>4. DeliveryOK(job)
  <2>1. Len(log[s]) \in Nat
    BY <1>2, Chain
  <2> QED
    BY <1>2, <2>1 DEF HeadsOK, DeliveryOK
<1> HIDE DEF job
<1> QED
  BY <1>1, <1>3, <1>4, OneReads

\* The streams that a verification lists are those that have events.
LEMMA VerifyStartSafe ==
  ASSUME IInv, NEW p \in Threads, VerifyStart(p)
  PROVE  IInv'
<1> DEFINE others == {q \in Threads : Serves(q, "verify")}
           job == [op |-> "verify", todo |-> {s \in Streams : heads[s] # None},
                   now |-> None, found |-> [s \in Streams |-> {}],
                   loaded |-> [s \in Streams |-> None],
                   due |-> UNION {Flipped(s) : s \in Streams}, alone |-> others = {}]
<1>1. /\ UNCHANGED <<rows, nextMac, touched>> /\ jobs[p] = None
      /\ jobs' = [q \in Threads |->
           IF q = p THEN job
           ELSE IF q \in others THEN [jobs[q] EXCEPT !.alone = FALSE] ELSE jobs[q]]
  BY DEF VerifyStart
<1>2. TypeOK /\ ChainOK /\ HeadsOK /\ JobsOK
  BY DEF IInv
<1>3. job.due \subseteq Macs
  BY <1>2, FlippedIsTouched
<1>4. job \in Verify /\ job.op = "verify" /\ (job.alone <=> others = {})
  BY <1>3 DEF Verify
<1>5. VerifyOK(job)
  <2>1. ASSUME NEW e \in job.due
        PROVE  \E s \in Streams : s \in job.todo /\ e \in Flipped(s)
    <3>1. PICK s \in Streams : e \in Flipped(s)
      BY <2>1
    <3>2. Len(log[s]) # 0
      <4>1. PICK k \in 1..Len(log[s]) : log[s][k].mac = e
        BY <1>2, <3>1, FlippedIs
      <4> QED
        BY <1>2, <4>1, Chain
    <3>3. s \in job.todo
      BY <1>2, <3>2 DEF HeadsOK
    <3> QED
      BY <3>1, <3>3
  <2>2. /\ \A s \in Streams : job.found[s] \subseteq touched
        /\ \A s \in Streams : job.loaded[s] = None
    OBVIOUS
  <2> HIDE DEF job
  <2> QED
    BY <2>1, <2>2 DEF VerifyOK
<1> HIDE DEF job, others
<1>6. ASSUME NEW q \in Threads, q \in others
      PROVE  /\ jobs[q] \in Verify /\ VerifyOK(jobs[q]) /\ jobs[q] # None
             /\ [jobs[q] EXCEPT !.alone = FALSE] \in Verify
             /\ VerifyOK([jobs[q] EXCEPT !.alone = FALSE])
             /\ [jobs[q] EXCEPT !.alone = FALSE].op = "verify"
             /\ ~[jobs[q] EXCEPT !.alone = FALSE].alone
  <2>1. jobs[q] \in Verify /\ VerifyOK(jobs[q]) /\ jobs[q] # None
    BY <1>2, <1>6, Kinds DEF others, Serves, JobsOK
  <2>2. PICK j : j = [jobs[q] EXCEPT !.alone = FALSE]
    OBVIOUS
  <2>3. /\ j \in Verify /\ j.op = "verify" /\ j.found = jobs[q].found
        /\ j.loaded = jobs[q].loaded /\ j.todo = jobs[q].todo /\ j.due = jobs[q].due
        /\ ~j.alone
    BY <2>1, <2>2 DEF Verify
  <2>4. VerifyOK(j)
    BY <2>1, <2>3 DEF VerifyOK
  <2> QED
    BY <2>1, <2>2, <2>3, <2>4
<1>7. ASSUME NEW q \in Threads
      PROVE  /\ q = p => jobs'[q] = job
             /\ q # p /\ q \in others => jobs'[q] = [jobs[q] EXCEPT !.alone = FALSE]
             /\ q # p /\ q \notin others => jobs'[q] = jobs[q]
  BY <1>1
<1>8. jobs' \in [Threads -> Delivery \cup Verify \cup {None}]
  <2>1. \A q \in Threads : jobs'[q] \in Delivery \cup Verify \cup {None}
    BY <1>2, <1>4, <1>6, <1>7 DEF TypeOK
  <2>2. jobs' = [q \in Threads |-> jobs'[q]]
    BY <1>1
  <2> QED
    BY <2>1, <2>2
<1>9. ASSUME NEW q \in Threads, NEW j, j = jobs'[q], j # None
      PROVE  /\ j.op = "append" => DeliveryOK(j)
             /\ j.op = "verify" => VerifyOK(j)
  <2>1. CASE q = p
    BY <1>4, <1>5, <1>7, <1>9, <2>1
  <2>2. CASE q # p /\ q \in others
    BY <1>6, <1>7, <1>9, <2>2
  <2>3. CASE q # p /\ q \notin others
    BY <1>2, <1>7, <1>9, <2>3 DEF JobsOK
  <2> QED
    BY <2>1, <2>2, <2>3
<1>10. AloneOK'
  <2>1. ASSUME NEW q \in Threads, Serves(q, "verify")'
        PROVE  q = p \/ (q \in others /\ ~jobs'[q].alone)
    BY <1>6, <1>7, <2>1 DEF others, Serves
  <2>2. ASSUME NEW q \in Threads, Serves(q, "verify")', q # p
        PROVE  ~jobs'[p].alone
    BY <1>4, <1>7, <2>1, <2>2
  <2> QED
    BY <2>1, <2>2 DEF AloneOK
<1> QED
  BY <1>1, <1>8, <1>9, <1>10, SameRows

\* The events of a stream are read: what is due in it has been found.
LEMMA VerifyEventsSafe ==
  ASSUME IInv, NEW p \in Threads, NEW s \in Streams, VerifyEvents(p, s)
  PROVE  IInv'
<1>1. PICK j : j = jobs[p]
  OBVIOUS
<1>2. PICK job : job = [j EXCEPT !.now = s, !.todo = @ \ {s}, !.found[s] = Wrong(log[s])]
  OBVIOUS
<1>3. /\ UNCHANGED <<rows, nextMac, touched>> /\ jobs' = [jobs EXCEPT ![p] = job]
      /\ j # None /\ j.op = "verify" /\ s \in j.todo
  BY <1>1, <1>2 DEF VerifyEvents, Serves
<1>4. TypeOK /\ ChainOK /\ j \in Verify /\ VerifyOK(j)
  BY <1>1, <1>3, Kinds DEF IInv, JobsOK
<1>5. /\ Wrong(log[s]) = Flipped(s) /\ Flipped(s) \subseteq touched
      /\ Flipped(s) \subseteq Macs
  BY <1>4, WrongIsFlipped, FlippedIsTouched
<1>6. /\ job \in Verify /\ job.op = "verify" /\ job.alone = j.alone /\ job.due = j.due
      /\ job.loaded = j.loaded /\ job.todo = j.todo \ {s} /\ job.found[s] = Flipped(s)
      /\ \A t \in Streams : t # s => job.found[t] = j.found[t]
  BY <1>2, <1>4, <1>5 DEF Verify
<1>7. VerifyOK(job)
  <2>1. \A t \in Streams : job.found[t] \subseteq touched
    BY <1>4, <1>5, <1>6 DEF VerifyOK
  <2>2. ASSUME NEW e \in job.due
        PROVE  \E t \in Streams : \/ t \in job.todo /\ e \in Flipped(t)
                                  \/ t \notin job.todo /\ e \in job.found[t]
    <3>1. PICK t \in Streams : \/ t \in j.todo /\ e \in Flipped(t)
                               \/ t \notin j.todo /\ e \in j.found[t]
      BY <1>4, <1>6 DEF VerifyOK
    <3>2. CASE t = s
      BY <1>3, <1>6, <3>1, <3>2
    <3>3. CASE t # s
      BY <1>6, <3>1, <3>3
    <3> QED
      BY <3>2, <3>3
  <2>3. \A t \in Streams : job.loaded[t] # None =>
          heads[t] # None /\ (job.alone => heads[t].status = job.loaded[t].status)
    BY <1>4, <1>6 DEF VerifyOK
  <2> QED
    BY <2>1, <2>2, <2>3 DEF VerifyOK
<1> QED
  BY <1>1, <1>3, <1>6, <1>7, OneReads DEF Serves

\* Its row is read.
LEMMA VerifyHeadSafe ==
  ASSUME IInv, NEW p \in Threads, VerifyHead(p)
  PROVE  IInv'
<1>1. PICK j : j = jobs[p]
  OBVIOUS
<1>2. PICK s : s = j.now
  OBVIOUS
<1>3. PICK job : job = [j EXCEPT !.loaded[s] = heads[s], !.now = None]
  OBVIOUS
<1>4. /\ UNCHANGED <<rows, nextMac, touched>> /\ jobs' = [jobs EXCEPT ![p] = job]
      /\ j # None /\ j.op = "verify" /\ s # None
  BY <1>1, <1>2, <1>3 DEF VerifyHead, Serves
<1>5. TypeOK /\ j \in Verify /\ VerifyOK(j)
  BY <1>1, <1>4, Kinds DEF IInv, JobsOK
<1>6. s \in Streams /\ heads[s] \in StreamRow \cup {None}
  BY <1>2, <1>4, <1>5 DEF Verify, TypeOK
<1>7. /\ job \in Verify /\ job.op = "verify" /\ job.alone = j.alone /\ job.due = j.due
      /\ job.found = j.found /\ job.todo = j.todo /\ job.loaded[s] = heads[s]
      /\ \A t \in Streams : t # s => job.loaded[t] = j.loaded[t]
  BY <1>3, <1>5, <1>6 DEF Verify
<1>8. VerifyOK(job)
  BY <1>5, <1>6, <1>7 DEF VerifyOK
<1> QED
  BY <1>1, <1>4, <1>7, <1>8, OneReads DEF Serves

LEMMA AbortSafe ==
  ASSUME IInv, NEW p \in Threads, Abort(p)
  PROVE  IInv'
BY EndSafe DEF Abort

-----------------------------------------------------------------------------
(* A delivery. *)

\* The stream s of n events gets the event e, and its row becomes h.
AppendEffect(p, s, n, e, h) ==
  /\ n = Len(log[s]) /\ n + 1 <= MaxEvents /\ nextMac <= MaxEvents
  /\ e.seq = n + 1 /\ e.prev = MacAt(s, n) /\ e.mac = nextMac /\ ~e.flipped
  /\ log' = [log EXCEPT ![s] = Append(log[s], e)]
  /\ h.seq = n + 1 /\ h.mac = nextMac
  /\ heads[s] # None => h.status = heads[s].status
  /\ heads' = [heads EXCEPT ![s] = h]
  /\ nextMac' = nextMac + 1 /\ jobs' = [jobs EXCEPT ![p] = None]
  /\ UNCHANGED <<alerts, checkpoints, touched>>

\* If the place that a delivery has read is free, it is the end of the chain.
LEMMA AppendRows ==
  ASSUME IInv, NEW p \in Threads, AppendCommit(p), ~UNCHANGED <<log, heads, nextMac>>
  PROVE  \E s \in Streams, n \in Nat, e \in Event, h \in StreamRow :
           AppendEffect(p, s, n, e, h)
<1>1. PICK j : j = jobs[p]
  OBVIOUS
<1>2. PICK s : s = j.stream
  OBVIOUS
<1>3. PICK n : n = Len(log[s])
  OBVIOUS
<1> DEFINE new == [seq |-> 0, mac |-> 0, status |-> "OK"]
<1>4. PICK tail : tail = IF j.tail = None THEN new ELSE j.tail
  OBVIOUS
<1>5. PICK head : head = IF heads[s] = None THEN new ELSE heads[s]
  OBVIOUS
<1>6. PICK e : e = [seq |-> tail.seq + 1, prev |-> tail.mac, mac |-> nextMac, flipped |-> FALSE]
  OBVIOUS
<1>7. PICK next : next = [tail EXCEPT !.seq = @ + 1, !.mac = nextMac]
  OBVIOUS
<1>8. PICK h : h = Emit(head, tail, next)
  OBVIOUS
<1>9. /\ j # None /\ j.op = "append" /\ Free(s, j.tail) /\ nextMac <= MaxEvents
      /\ log' = [log EXCEPT ![s] = Append(log[s], e)]
      /\ heads' = [heads EXCEPT ![s] = h]
      /\ nextMac' = nextMac + 1 /\ jobs' = [jobs EXCEPT ![p] = None]
      /\ UNCHANGED <<alerts, checkpoints, touched>>
  BY <1>1, <1>2, <1>4, <1>5, <1>6, <1>7, <1>8 DEF AppendCommit, Serves, Done
<1>10. /\ TypeOK /\ ChainOK /\ HeadsOK /\ j \in Delivery /\ DeliveryOK(j)
  BY <1>1, <1>9, Kinds DEF IInv, JobsOK
<1>11. /\ s \in Streams /\ heads[s] \in StreamRow \cup {None}
       /\ nextMac \in Nat /\ nextMac \in Macs /\ n \in Nat /\ n < nextMac
       /\ DOMAIN log[s] = 1..n
  <2>1. s \in Streams
    BY <1>2, <1>10 DEF Delivery
  <2>2. n \in Nat /\ DOMAIN log[s] = 1..n
    BY <1>3, <1>10, <2>1, Chain
  <2> QED
    BY <1>3, <1>9, <1>10, <2>1, <2>2, IntegrityAssumption DEF TypeOK, ChainOK, Macs
<1>12. new \in StreamRow
  BY IntegrityAssumption DEF StreamRow
<1>13. tail \in StreamRow /\ head \in StreamRow
  <2>1. j.tail \in StreamRow \cup {None}
    BY <1>10 DEF Delivery
  <2> QED
    BY <1>4, <1>5, <1>11, <1>12, <2>1
<1>14. tail.seq = n /\ tail.mac = MacAt(s, n)
  <2>1. CASE j.tail = None
    <3>1. heads[s] = None
      BY <1>9, <2>1 DEF Free
    <3>2. n = 0
      BY <1>3, <1>10, <1>11, <3>1 DEF HeadsOK
    <3> QED
      BY <1>4, <2>1, <3>2 DEF MacAt
  <2>2. CASE j.tail # None
    <3>1. tail.seq \in 0..n /\ tail.mac = MacAt(s, tail.seq) /\ tail = j.tail
      BY <1>2, <1>3, <1>4, <1>10, <2>2 DEF DeliveryOK
    <3>2. \A k \in 1..n : k # tail.seq + 1
      BY <1>3, <1>9, <1>10, <1>11, <2>2, <3>1 DEF Free, ChainOK
    <3>3. tail.seq = n
      BY <1>11, <3>1, <3>2
    <3> QED
      BY <3>1, <3>3
  <2> QED
    BY <2>1, <2>2
<1>15. /\ n + 1 <= MaxEvents /\ n + 1 \in Macs /\ n + 1 \in 0..MaxEvents
  BY <1>9, <1>11, IntegrityAssumption DEF Macs
<1>16. tail.mac \in {0} \cup Macs /\ tail.mac < nextMac
  <2>1. CASE n = 0
    BY <1>11, <1>14, <2>1 DEF MacAt
  <2>2. CASE n # 0
    <3>1. n \in 1..n
      BY <1>11, <2>2
    <3>2. log[s][n].mac < nextMac /\ log[s][n] \in Event
      BY <1>3, <1>10, <1>11, <3>1, Chain DEF ChainOK
    <3> QED
      BY <1>14, <2>2, <3>2 DEF MacAt, Event
  <2> QED
    BY <2>1, <2>2
<1>17. /\ e \in Event /\ e.seq = n + 1 /\ e.prev = MacAt(s, n) /\ e.mac = nextMac /\ ~e.flipped
  BY <1>6, <1>11, <1>14, <1>15, <1>16 DEF Event
<1>18. /\ next \in StreamRow /\ next.seq = n + 1 /\ next.mac = nextMac
       /\ next.status = tail.status
  BY <1>7, <1>11, <1>13, <1>14, <1>15 DEF StreamRow
<1>19. /\ h \in StreamRow /\ h.seq = n + 1 /\ h.mac = nextMac /\ h.status = head.status
  <2>1. LET x == Emit(head, tail, next) IN
        /\ x \in StreamRow
        /\ x.seq = IF next.seq # tail.seq THEN next.seq ELSE head.seq
        /\ x.mac = IF next.mac # tail.mac THEN next.mac ELSE head.mac
        /\ x.status = IF next.status # tail.status THEN next.status ELSE head.status
    BY <1>13, <1>18, EmitStream
  <2>2. next.seq # tail.seq /\ next.mac # tail.mac
    <3>1. tail.mac \in Int
      BY <1>16 DEF Macs
    <3> QED
      BY <1>11, <1>14, <1>16, <1>18, <3>1
  <2> QED
    BY <1>8, <1>18, <2>1, <2>2
<1>20. heads[s] # None => h.status = heads[s].status
  BY <1>5, <1>19
<1>21. AppendEffect(p, s, n, e, h)
  BY <1>3, <1>9, <1>15, <1>17, <1>19, <1>20 DEF AppendEffect
<1> QED
  BY <1>11, <1>17, <1>19, <1>21

\* The conjuncts that a delivery disturbs.
LEMMA AppendCommitSafe ==
  ASSUME IInv, NEW p \in Threads, AppendCommit(p)
  PROVE  IInv'
<1>1. CASE UNCHANGED <<log, heads, nextMac>>
  BY <1>1, EndSafe DEF AppendCommit, rows
<1>2. CASE ~UNCHANGED <<log, heads, nextMac>>
  <2>1. PICK s \in Streams, n \in Nat, e \in Event, h \in StreamRow :
          AppendEffect(p, s, n, e, h)
    BY <1>2, AppendRows
  <2>2. /\ TypeOK /\ ChainOK /\ HeadsOK /\ JobsOK /\ AloneOK /\ AlertsOK
        /\ CheckpointOnChain
    BY DEF IInv
  <2>3. /\ n = Len(log[s]) /\ log[s] \in Seq(Event) /\ log \in [Streams -> Seq(Event)]
        /\ DOMAIN log[s] = 1..n
        /\ log' = [log EXCEPT ![s] = Append(log[s], e)]
    BY <2>1, <2>2, Chain DEF AppendEffect, TypeOK
  <2>4. /\ log'[s] \in Seq(Event) /\ Len(log'[s]) = n + 1 /\ DOMAIN log'[s] = 1..(n + 1)
        /\ \A k \in 1..n : log'[s][k] = log[s][k]
        /\ log'[s][n + 1] = e
        /\ \A d \in Streams : d # s => log'[d] = log[d]
        /\ log' \in [Streams -> Seq(Event)]
    <3>1. log'[s] = Append(log[s], e) /\ \A d \in Streams : d # s => log'[d] = log[d]
      BY <2>3
    <3>2. log'[s] \in Seq(Event)
      BY <2>3, <3>1
    <3>3. log' \in [Streams -> Seq(Event)]
      BY <2>3, <3>2
    <3>4. \A k \in 1..n : k \in 1..(n + 1) /\ k # n + 1
      OBVIOUS
    <3> QED
      BY <2>3, <3>1, <3>2, <3>3, <3>4
  <2>5. /\ n + 1 <= MaxEvents /\ nextMac <= MaxEvents /\ nextMac \in Nat
        /\ e.seq = n + 1 /\ e.prev = MacAt(s, n) /\ e.mac = nextMac /\ ~e.flipped
        /\ h.seq = n + 1 /\ h.mac = nextMac
        /\ heads[s] # None => h.status = heads[s].status
        /\ heads' = [heads EXCEPT ![s] = h]
        /\ nextMac' = nextMac + 1 /\ jobs' = [jobs EXCEPT ![p] = None]
        /\ UNCHANGED <<alerts, checkpoints, touched>>
    BY <2>1, <2>2 DEF AppendEffect, TypeOK
  <2>6. \A d \in Streams : Len(log[d]) \in Nat
    BY <2>2, Chain
  <2>7. /\ \A d \in Streams : Len(log'[d]) = IF d = s THEN n + 1 ELSE Len(log[d])
        /\ \A d \in Streams : \A k \in 1..Len(log[d]) : log'[d][k] = log[d][k]
    BY <2>3, <2>4
  <2>8. /\ \A d \in Streams : \A k \in 0..Len(log[d]) : MacAt(d, k)' = MacAt(d, k)
        /\ MacAt(s, n + 1)' = nextMac
    <3>1. ASSUME NEW d \in Streams, NEW k \in 0..Len(log[d])
          PROVE  MacAt(d, k)' = MacAt(d, k)
      <4>1. k = 0 \/ k \in 1..Len(log[d])
        BY <2>6
      <4> QED
        BY <2>7, <4>1 DEF MacAt
    <3> QED
      BY <2>4, <2>5, <3>1 DEF MacAt
  <2>9. /\ heads' \in [Streams -> StreamRow \cup {None}] /\ heads'[s] = h /\ h # None
        /\ \A d \in Streams : d # s => heads'[d] = heads[d]
    BY <2>2, <2>5, NoneIsNoRow DEF TypeOK
  <2>10. /\ jobs' \in [Threads -> Delivery \cup Verify \cup {None}]
         /\ jobs'[p] = None
         /\ \A q \in Threads : q # p => jobs'[q] = jobs[q]
    BY <2>2, <2>5, OneJob
  <2>11. TypeOK'
    <3>1. nextMac' \in 1..(MaxEvents + 1)
      BY <2>2, <2>5, IntegrityAssumption DEF TypeOK
    <3> QED
      BY <2>2, <2>4, <2>5, <2>9, <2>10, <3>1 DEF TypeOK
  <2>12. ChainOK'
    <3>1. ASSUME NEW d \in Streams
          PROVE  Len(log'[d]) < nextMac'
      <4>1. Len(log[d]) < nextMac /\ n < nextMac /\ Len(log[d]) \in Nat
        BY <2>2, <2>3, <2>6 DEF ChainOK
      <4>2. Len(log'[d]) = n + 1 \/ Len(log'[d]) = Len(log[d])
        BY <2>7
      <4> QED
        BY <2>5, <4>1, <4>2
    <3>2. ASSUME NEW d \in Streams, NEW k \in 1..Len(log'[d])
          PROVE  /\ log'[d][k].seq = k
                 /\ log'[d][k].prev = MacAt(d, k - 1)'
                 /\ log'[d][k].mac < nextMac'
                 /\ log'[d][k].flipped => log'[d][k].mac \in touched'
      <4>1. CASE k \in 1..Len(log[d])
        <5>1. /\ log[d][k].seq = k
              /\ log[d][k].prev = MacAt(d, k - 1)
              /\ log[d][k].mac < nextMac
              /\ log[d][k].flipped => log[d][k].mac \in touched
          BY <2>2, <4>1 DEF ChainOK
        <5>2. MacAt(d, k - 1)' = MacAt(d, k - 1)
          BY <2>6, <2>8, <4>1
        <5>3. log[d][k].mac \in Int
          <6>1. log[d][k] \in Event
            BY <2>2, <4>1, Chain
          <6>2. log[d][k].mac \in Macs
            BY <6>1 DEF Event
          <6> QED
            BY <6>2 DEF Macs
        <5> QED
          BY <2>5, <2>7, <4>1, <5>1, <5>2, <5>3
      <4>2. CASE k \notin 1..Len(log[d])
        <5>1. d = s /\ k = n + 1 /\ k - 1 = n
          BY <2>3, <2>6, <2>7, <4>2
        <5>2. MacAt(d, k - 1)' = MacAt(s, n)
          BY <2>3, <2>6, <2>8, <5>1
        <5> QED
          BY <2>4, <2>5, <5>1, <5>2
      <4> QED
        BY <4>1, <4>2
    <3> QED
      BY <3>1, <3>2 DEF ChainOK
  <2>13. HeadsOK'
    <3>1. ASSUME NEW d \in Streams, NEW m, m = Len(log'[d])
          PROVE  /\ heads'[d] = None => m = 0
                 /\ heads'[d] # None => heads'[d].seq = m /\ heads'[d].mac = MacAt(d, m)'
      <4>1. CASE d = s
        <5>1. m = n + 1
          BY <2>7, <3>1, <4>1
        <5> QED
          BY <2>5, <2>8, <2>9, <4>1, <5>1
      <4>2. CASE d # s
        <5>1. m = Len(log[d]) /\ m \in 0..Len(log[d])
          BY <2>6, <2>7, <3>1, <4>2
        <5>2. MacAt(d, m)' = MacAt(d, m)
          BY <2>8, <5>1
        <5> QED
          BY <2>2, <2>9, <4>2, <5>1, <5>2 DEF HeadsOK
      <4> QED
        BY <4>1, <4>2
    <3> QED
      BY <3>1, Zenon DEF HeadsOK
  <2>14. JobsOK'
    <3>1. ASSUME NEW j \in Delivery, DeliveryOK(j)
          PROVE  DeliveryOK(j)'
      <4>1. \A d \in Streams :
              /\ Len(log[d]) <= Len(log'[d]) /\ Len(log'[d]) \in Nat
              /\ \A k \in 1..Len(log[d]) : log'[d][k].mac = log[d][k].mac
        BY <2>3, <2>6, <2>7
      <4> QED
        BY <2>2, <3>1, <4>1, DeliveryKept
    <3>2. ASSUME NEW j \in Verify, VerifyOK(j)
          PROVE  VerifyOK(j)'
      <4>1. \A d \in Streams : heads[d] # None =>
              heads'[d] # None /\ heads'[d].status = heads[d].status
        BY <2>5, <2>9
      <4>2. ASSUME NEW d \in Streams, NEW f, f \in Flipped(d)
            PROVE  f \in Flipped(d)'
        <5>1. PICK k \in 1..Len(log[d]) : log[d][k].flipped /\ log[d][k].mac = f
          BY <2>2, <4>2, FlippedIs
        <5>2. k \in DOMAIN log'[d] /\ log'[d][k].flipped /\ log'[d][k].mac = f
          BY <2>2, <2>3, <2>4, <2>6, <2>7, <5>1, Chain
        <5> QED
          BY <5>2 DEF Flipped
      <4> QED
        BY <2>5, <3>2, <4>1, <4>2, VerifyKept
    <3>3. ASSUME NEW q \in Threads, NEW j, j = jobs'[q], j # None
          PROVE  /\ j.op = "append" => DeliveryOK(j)'
                 /\ j.op = "verify" => VerifyOK(j)'
      <4>1. j = jobs[q]
        BY <2>10, <3>3
      <4>2. /\ j.op = "append" => j \in Delivery /\ DeliveryOK(j)
            /\ j.op = "verify" => j \in Verify /\ VerifyOK(j)
        BY <2>2, <3>3, <4>1, Kinds DEF JobsOK
      <4> QED
        BY <3>1, <3>2, <4>2
    <3> QED
      BY <3>3, JobsNow
  <2>15. AloneOK'
    <3>1. ASSUME NEW q \in Threads, Serves(q, "verify")'
          PROVE  Serves(q, "verify") /\ jobs'[q] = jobs[q]
      BY <2>10, <3>1 DEF Serves
    <3> QED
      BY <2>2, <3>1 DEF AloneOK
  <2>16. AlertsOK'
    BY <2>2, <2>5 DEF AlertsOK
  <2>17. CheckpointOnChain'
    <3>1. ASSUME NEW c \in checkpoints', ~c.old
          PROVE  \/ c.seq = 0 /\ c.mac = 0
                 \/ c.seq \in DOMAIN log'[c.stream] /\ log'[c.stream][c.seq].mac = c.mac
      <4>1. c \in checkpoints /\ c.stream \in Streams
        BY <2>2, <2>5 DEF TypeOK, Checkpoint
      <4>2. \/ c.seq = 0 /\ c.mac = 0
            \/ c.seq \in DOMAIN log[c.stream] /\ log[c.stream][c.seq].mac = c.mac
        BY <2>2, <3>1, <4>1 DEF CheckpointOnChain
      <4>3. c.seq \in DOMAIN log[c.stream] =>
              /\ c.seq \in DOMAIN log'[c.stream]
              /\ log'[c.stream][c.seq] = log[c.stream][c.seq]
        BY <2>2, <2>3, <2>4, <4>1
      <4> QED
        BY <4>2, <4>3
    <3> QED
      BY <3>1 DEF CheckpointOnChain
  <2> QED
    BY <2>11, <2>12, <2>13, <2>14, <2>15, <2>16, <2>17 DEF IInv
<1> QED
  BY <1>1, <1>2

-----------------------------------------------------------------------------
(* The verdict of a verification. *)

\* A verification writes the rows that it has read, and raises its alerts.
LEMMA Verdict ==
  ASSUME IInv, NEW p \in Threads, VerifyCommit(p)
  PROVE  /\ jobs[p] \in Verify /\ VerifyOK(jobs[p]) /\ jobs[p].todo = {}
         /\ heads' \in [Streams -> StreamRow \cup {None}]
         /\ \A s \in Streams :
              /\ heads[s] = None => heads'[s] = None
              /\ heads[s] # None =>
                   /\ heads'[s] # None
                   /\ heads'[s].seq = heads[s].seq /\ heads'[s].mac = heads[s].mac
              /\ jobs[p].alone /\ jobs[p].loaded[s] # None =>
                   (heads'[s].status = "OK" <=> jobs[p].found[s] = {})
         /\ alerts' = alerts \cup UNION {jobs[p].found[s] : s \in Streams}
<1>1. PICK j : j = jobs[p]
  OBVIOUS
<1>2. /\ j # None /\ j.op = "verify" /\ j.todo = {}
      /\ heads' = [s \in Streams |-> IF j.loaded[s] = None THEN heads[s]
           ELSE Emit(heads[s], j.loaded[s], Judged(j.loaded[s], j.found[s]))]
      /\ alerts' = alerts \cup UNION {j.found[s] : s \in Streams}
  BY <1>1 DEF VerifyCommit, Serves
<1>3. TypeOK /\ j \in Verify /\ VerifyOK(j)
  BY <1>1, <1>2, Kinds DEF IInv, JobsOK
<1>4. ASSUME NEW s \in Streams
      PROVE  /\ heads'[s] \in StreamRow \cup {None}
             /\ heads[s] = None => heads'[s] = None
             /\ heads[s] # None =>
                  /\ heads'[s] # None
                  /\ heads'[s].seq = heads[s].seq /\ heads'[s].mac = heads[s].mac
             /\ j.alone /\ j.loaded[s] # None =>
                  (heads'[s].status = "OK" <=> j.found[s] = {})
  <2>1. heads[s] \in StreamRow \cup {None} /\ j.loaded[s] \in StreamRow \cup {None}
    BY <1>3 DEF TypeOK, Verify
  <2>2. CASE j.loaded[s] = None
    BY <1>2, <2>1, <2>2
  <2>3. CASE j.loaded[s] # None
    <3>1. PICK new : new = Judged(j.loaded[s], j.found[s])
      OBVIOUS
    <3>2. PICK h : h = Emit(heads[s], j.loaded[s], new)
      OBVIOUS
    <3>3. /\ heads[s] \in StreamRow /\ j.loaded[s] \in StreamRow
          /\ j.alone => heads[s].status = j.loaded[s].status
      BY <1>3, <2>1, <2>3 DEF VerifyOK
    <3>4. /\ new \in StreamRow /\ new.seq = j.loaded[s].seq /\ new.mac = j.loaded[s].mac
          /\ new.status = IF j.found[s] = {} THEN "OK" ELSE "INTEGRITY_FAILED"
      BY <3>1, <3>3 DEF Judged, StreamRow
    <3>5. LET e == Emit(heads[s], j.loaded[s], new) IN
          /\ e \in StreamRow
          /\ e.seq = IF new.seq # j.loaded[s].seq THEN new.seq ELSE heads[s].seq
          /\ e.mac = IF new.mac # j.loaded[s].mac THEN new.mac ELSE heads[s].mac
          /\ e.status = IF new.status # j.loaded[s].status THEN new.status ELSE heads[s].status
      BY <3>3, <3>4, EmitStream
    <3>6. /\ h \in StreamRow /\ h.seq = heads[s].seq /\ h.mac = heads[s].mac
          /\ j.alone => h.status = new.status
      BY <3>2, <3>3, <3>4, <3>5
    <3>7. heads'[s] = h
      BY <1>2, <2>3, <3>1, <3>2
    <3> QED
      BY <3>3, <3>4, <3>6, <3>7, NoneIsNoRow
  <2> QED
    BY <2>2, <2>3
<1>5. heads' \in [Streams -> StreamRow \cup {None}]
  <2>1. heads' = [s \in Streams |-> heads'[s]]
    BY <1>2
  <2> QED
    BY <1>4, <2>1
<1> QED
  BY <1>1, <1>2, <1>3, <1>4, <1>5

LEMMA VerifyCommitSafe ==
  ASSUME IInv, NEW p \in Threads, VerifyCommit(p)
  PROVE  IInv'
<1>1. /\ TypeOK /\ ChainOK /\ HeadsOK /\ JobsOK /\ AloneOK /\ AlertsOK
      /\ CheckpointOnChain
  BY DEF IInv
<1>2. /\ UNCHANGED <<log, checkpoints, nextMac, touched>>
      /\ jobs' = [jobs EXCEPT ![p] = None] /\ Serves(p, "verify")
  BY DEF VerifyCommit, Done
<1>3. /\ jobs[p] \in Verify /\ VerifyOK(jobs[p])
      /\ heads' \in [Streams -> StreamRow \cup {None}]
      /\ \A s \in Streams :
           /\ heads[s] = None => heads'[s] = None
           /\ heads[s] # None =>
                /\ heads'[s] # None
                /\ heads'[s].seq = heads[s].seq /\ heads'[s].mac = heads[s].mac
      /\ alerts' = alerts \cup UNION {jobs[p].found[s] : s \in Streams}
  BY Verdict
<1>4. /\ \A s, k : MacAt(s, k)' = MacAt(s, k)
      /\ \A s : Flipped(s)' = Flipped(s)
  BY <1>2 DEF MacAt, Flipped
<1>5. /\ jobs' \in [Threads -> Delivery \cup Verify \cup {None}]
      /\ jobs'[p] = None
      /\ \A q \in Threads : q # p => jobs'[q] = jobs[q]
  BY <1>1, <1>2, OneJob
<1>6. alerts' \subseteq touched /\ AlertsOK'
  BY <1>1, <1>2, <1>3 DEF VerifyOK, AlertsOK
<1>7. TypeOK'
  BY <1>1, <1>2, <1>3, <1>5, <1>6 DEF TypeOK
<1>8. ChainOK' /\ HeadsOK' /\ CheckpointOnChain'
  <2>1. ChainOK'
    BY <1>1, <1>2, <1>4 DEF ChainOK
  <2>2. HeadsOK'
    BY <1>1, <1>2, <1>3, <1>4 DEF HeadsOK
  <2>3. CheckpointOnChain'
    BY <1>1, <1>2 DEF CheckpointOnChain
  <2> QED
    BY <2>1, <2>2, <2>3
<1>9. JobsOK'
  <2>1. ASSUME NEW q \in Threads, NEW j, j = jobs'[q], j # None
        PROVE  /\ j.op = "append" => DeliveryOK(j)'
               /\ j.op = "verify" => VerifyOK(j)'
    <3>1. q # p /\ j = jobs[q]
      BY <1>5, <2>1
    <3>2. /\ j.op = "append" => DeliveryOK(j)
          /\ j.op = "verify" => j \in Verify /\ VerifyOK(j)
      BY <1>1, <2>1, <3>1, Kinds DEF JobsOK
    <3>3. j.op = "append" => DeliveryOK(j)'
      BY <1>2, <1>4, <3>2 DEF DeliveryOK
    <3>4. j.op = "verify" => ~j.alone
      BY <1>1, <1>2, <2>1, <3>1 DEF AloneOK, Serves
    <3>5. j.op = "verify" => VerifyOK(j)'
      BY <1>2, <1>3, <1>4, <3>2, <3>4, VerifyKept
    <3> QED
      BY <3>3, <3>5
  <2> QED
    BY <2>1, JobsNow
<1>10. AloneOK'
  <2>1. ASSUME NEW q \in Threads, Serves(q, "verify")'
        PROVE  Serves(q, "verify") /\ jobs'[q] = jobs[q]
    BY <1>5, <2>1 DEF Serves
  <2> QED
    BY <1>1, <2>1 DEF AloneOK
<1> QED
  BY <1>6, <1>7, <1>8, <1>9, <1>10 DEF IInv

-----------------------------------------------------------------------------
(* Checkpoints, and the demonstration. *)

\* The row of a stream, and so its checkpoint, names the end of the chain.
LEMMA CheckpointSafe ==
  ASSUME IInv, NEW s \in Streams, MakeCheckpoint(s)
  PROVE  IInv'
<1>1. /\ TypeOK /\ ChainOK /\ HeadsOK /\ JobsOK /\ AloneOK /\ AlertsOK
      /\ CheckpointOnChain
  BY DEF IInv
<1>2. PICK c : c = Signed(s, heads[s])
  OBVIOUS
<1>3. /\ heads[s] # None /\ checkpoints' = checkpoints \cup {c}
      /\ UNCHANGED <<log, heads, alerts, nextMac, jobs, touched>>
  BY <1>2 DEF MakeCheckpoint
<1>4. heads[s] \in StreamRow
  BY <1>1, <1>3 DEF TypeOK
<1>5. /\ c \in Checkpoint /\ c.stream = s /\ c.seq = heads[s].seq /\ c.mac = heads[s].mac
  BY <1>2, <1>4 DEF Signed, Checkpoint, StreamRow
<1>6. /\ \A d, k : MacAt(d, k)' = MacAt(d, k)
      /\ \A d : Flipped(d)' = Flipped(d)
  BY <1>3 DEF MacAt, Flipped
<1>7. TypeOK' /\ AlertsOK'
  BY <1>1, <1>3, <1>5 DEF TypeOK, AlertsOK
<1>8. ChainOK' /\ HeadsOK'
  BY <1>1, <1>3, <1>6 DEF ChainOK, HeadsOK
<1>9. JobsOK' /\ AloneOK'
  <2>1. \A j : (DeliveryOK(j) => DeliveryOK(j)') /\ (VerifyOK(j) => VerifyOK(j)')
    BY <1>3, <1>6 DEF DeliveryOK, VerifyOK
  <2>2. ASSUME NEW q \in Threads, NEW j, j = jobs'[q], j # None
        PROVE  /\ j.op = "append" => DeliveryOK(j)'
               /\ j.op = "verify" => VerifyOK(j)'
    BY <1>1, <1>3, <2>1, <2>2 DEF JobsOK
  <2>3. AloneOK'
    BY <1>1, <1>3 DEF AloneOK, Serves
  <2> QED
    BY <2>2, <2>3, JobsNow
<1>10. CheckpointOnChain'
  <2>1. \/ c.seq = 0 /\ c.mac = 0
        \/ c.seq \in DOMAIN log[s] /\ log[s][c.seq].mac = c.mac
    <3>1. c.seq = Len(log[s]) /\ c.mac = MacAt(s, Len(log[s]))
      BY <1>1, <1>3, <1>5 DEF HeadsOK
    <3>2. Len(log[s]) \in Nat /\ DOMAIN log[s] = 1..Len(log[s])
      BY <1>1, Chain
    <3> QED
      BY <3>1, <3>2 DEF MacAt
  <2> QED
    BY <1>1, <1>3, <1>5, <2>1 DEF CheckpointOnChain
<1> QED
  BY <1>7, <1>8, <1>9, <1>10 DEF IInv

\* Tampering flips one event; nothing else on the chain changes.
LEMMA TamperRows ==
  ASSUME TypeOK, NEW s \in Streams, NEW k \in DOMAIN log[s], Tamper(s, k)
  PROVE  /\ k \in 1..Len(log[s])
         /\ log' \in [Streams -> Seq(Event)]
         /\ \A d \in Streams : Len(log'[d]) = Len(log[d]) /\ DOMAIN log'[d] = DOMAIN log[d]
         /\ \A d \in Streams : \A i \in 1..Len(log[d]) :
              /\ log'[d][i].seq = log[d][i].seq /\ log'[d][i].prev = log[d][i].prev
              /\ log'[d][i].mac = log[d][i].mac
              /\ log'[d][i].flipped =>
                   log[d][i].flipped \/ log[d][i].mac = log[s][k].mac
              /\ log[d][i].flipped =>
                   log'[d][i].flipped \/ log[d][i].mac = log[s][k].mac
<1>1. /\ log[s] \in Seq(Event) /\ Len(log[s]) \in Nat /\ DOMAIN log[s] = 1..Len(log[s])
      /\ log \in [Streams -> Seq(Event)] /\ \A i \in 1..Len(log[s]) : log[s][i] \in Event
  BY Chain DEF TypeOK
<1>2. PICK e : e = [log[s][k] EXCEPT !.flipped = ~@]
  OBVIOUS
<1>3. /\ e \in Event /\ e.seq = log[s][k].seq /\ e.prev = log[s][k].prev
      /\ e.mac = log[s][k].mac
  BY <1>1, <1>2 DEF Event
<1>4. PICK l : l = [log[s] EXCEPT ![k] = e]
  OBVIOUS
<1>5. log' = [log EXCEPT ![s] = l]
  BY <1>1, <1>2, <1>4 DEF Tamper
<1>6. /\ l \in Seq(Event) /\ Len(l) = Len(log[s]) /\ DOMAIN l = DOMAIN log[s]
      /\ l[k] = e /\ \A i \in 1..Len(log[s]) : i # k => l[i] = log[s][i]
  BY <1>1, <1>3, <1>4
<1>7. log' \in [Streams -> Seq(Event)] /\ log'[s] = l
      /\ \A d \in Streams : d # s => log'[d] = log[d]
  BY <1>1, <1>5, <1>6
<1>8. ASSUME NEW d \in Streams, NEW i \in 1..Len(log[d])
      PROVE  /\ log'[d][i].seq = log[d][i].seq /\ log'[d][i].prev = log[d][i].prev
             /\ log'[d][i].mac = log[d][i].mac
             /\ log'[d][i].flipped => log[d][i].flipped \/ log[d][i].mac = log[s][k].mac
             /\ log[d][i].flipped => log'[d][i].flipped \/ log[d][i].mac = log[s][k].mac
  <2>1. CASE d = s /\ i = k
    <3>1. log'[d][i] = e /\ log[d][i] = log[s][k]
      BY <1>6, <1>7, <2>1
    <3> QED
      BY <1>3, <3>1
  <2>2. CASE ~(d = s /\ i = k)
    <3>1. log'[d][i] = log[d][i]
      BY <1>6, <1>7, <2>2
    <3> QED
      BY <3>1
  <2> QED
    BY <2>1, <2>2
<1>9. \A d \in Streams : Len(log'[d]) = Len(log[d]) /\ DOMAIN log'[d] = DOMAIN log[d]
  BY <1>6, <1>7
<1> QED
  BY <1>1, <1>7, <1>8, <1>9

LEMMA TamperSafe ==
  ASSUME IInv, NEW s \in Streams, NEW k \in DOMAIN log[s], Tamper(s, k)
  PROVE  IInv'
<1>1. /\ TypeOK /\ ChainOK /\ HeadsOK /\ JobsOK /\ AloneOK /\ AlertsOK
      /\ CheckpointOnChain
  BY DEF IInv
<1>2. PICK e : e = log[s][k].mac
  OBVIOUS
<1>3. /\ touched' = touched \cup {e}
      /\ jobs' = [p \in Threads |->
           IF Serves(p, "verify") THEN [jobs[p] EXCEPT !.due = @ \ {e}] ELSE jobs[p]]
      /\ UNCHANGED <<heads, alerts, checkpoints, nextMac>>
  BY <1>2 DEF Tamper
<1>a. /\ k \in 1..Len(log[s]) /\ log' \in [Streams -> Seq(Event)]
      /\ \A d \in Streams : Len(log'[d]) = Len(log[d]) /\ DOMAIN log'[d] = DOMAIN log[d]
      /\ \A d \in Streams : \A i \in 1..Len(log[d]) :
           /\ log'[d][i].seq = log[d][i].seq /\ log'[d][i].prev = log[d][i].prev
           /\ log'[d][i].mac = log[d][i].mac
           /\ log'[d][i].flipped => log[d][i].flipped \/ log[d][i].mac = log[s][k].mac
           /\ log[d][i].flipped => log'[d][i].flipped \/ log[d][i].mac = log[s][k].mac
  BY <1>1, TamperRows
<1>4. /\ k \in 1..Len(log[s]) /\ log' \in [Streams -> Seq(Event)]
      /\ \A d \in Streams : Len(log'[d]) = Len(log[d]) /\ DOMAIN log'[d] = DOMAIN log[d]
      /\ \A d \in Streams : \A i \in 1..Len(log[d]) :
           /\ log'[d][i].seq = log[d][i].seq /\ log'[d][i].prev = log[d][i].prev
           /\ log'[d][i].mac = log[d][i].mac
           /\ log'[d][i].flipped => log[d][i].flipped \/ log[d][i].mac = e
           /\ log[d][i].flipped => log'[d][i].flipped \/ log[d][i].mac = e
  BY <1>2, <1>a
<1>5. /\ \A d \in Streams : Len(log[d]) \in Nat /\ DOMAIN log[d] = 1..Len(log[d])
      /\ e \in Macs
  <2>1. log[s][k] \in Event
    BY <1>1, <1>4, Chain
  <2> QED
    BY <1>1, <1>2, <2>1, Chain DEF Event
<1>6. \A d \in Streams : \A i \in 0..Len(log[d]) : MacAt(d, i)' = MacAt(d, i)
  <2>1. ASSUME NEW d \in Streams, NEW i \in 0..Len(log[d])
        PROVE  MacAt(d, i)' = MacAt(d, i)
    <3>1. i = 0 \/ i \in 1..Len(log[d])
      BY <1>5
    <3> QED
      BY <1>4, <3>1 DEF MacAt
  <2> QED
    BY <2>1
<1>7. ASSUME NEW q \in Threads, Serves(q, "verify")
      PROVE  /\ jobs'[q] \in Verify /\ jobs'[q].op = "verify" /\ jobs'[q] # None
             /\ jobs'[q].due = jobs[q].due \ {e} /\ jobs'[q].alone = jobs[q].alone
             /\ jobs'[q].found = jobs[q].found /\ jobs'[q].loaded = jobs[q].loaded
             /\ jobs'[q].todo = jobs[q].todo
             /\ VerifyOK(jobs[q]) /\ jobs[q] \in Verify
  <2>1. jobs[q] \in Verify /\ VerifyOK(jobs[q])
    BY <1>1, <1>7, Kinds DEF Serves, JobsOK
  <2>2. PICK j : j = [jobs[q] EXCEPT !.due = @ \ {e}]
    OBVIOUS
  <2>3. /\ j \in Verify /\ j.op = "verify" /\ j.due = jobs[q].due \ {e}
        /\ j.alone = jobs[q].alone /\ j.found = jobs[q].found
        /\ j.loaded = jobs[q].loaded /\ j.todo = jobs[q].todo
    BY <2>1, <2>2 DEF Verify
  <2>4. jobs'[q] = j
    BY <1>3, <1>7, <2>2
  <2> QED
    BY <2>1, <2>3, <2>4, NoneIsNoRow
<1>8. \A q \in Threads : ~Serves(q, "verify") => jobs'[q] = jobs[q]
  BY <1>3
<1>9. jobs' \in [Threads -> Delivery \cup Verify \cup {None}]
  <2>1. \A q \in Threads : jobs'[q] \in Delivery \cup Verify \cup {None}
    BY <1>1, <1>7, <1>8 DEF TypeOK
  <2>2. jobs' = [q \in Threads |-> jobs'[q]]
    BY <1>3
  <2> QED
    BY <2>1, <2>2
<1>10. TypeOK' /\ AlertsOK'
  BY <1>1, <1>3, <1>4, <1>5, <1>9 DEF TypeOK, AlertsOK
<1>11. ChainOK'
  <2>1. ASSUME NEW d \in Streams, NEW i \in 1..Len(log[d])
        PROVE  /\ log'[d][i].seq = i
               /\ log'[d][i].prev = MacAt(d, i - 1)'
               /\ log'[d][i].mac < nextMac'
               /\ log'[d][i].flipped => log'[d][i].mac \in touched'
    <3>1. /\ log[d][i].seq = i /\ log[d][i].prev = MacAt(d, i - 1)
          /\ log[d][i].mac < nextMac
          /\ log[d][i].flipped => log[d][i].mac \in touched
      BY <1>1 DEF ChainOK
    <3>2. MacAt(d, i - 1)' = MacAt(d, i - 1)
      BY <1>5, <1>6
    <3> QED
      BY <1>3, <1>4, <3>1, <3>2
  <2>2. \A d \in Streams : Len(log'[d]) < nextMac'
    BY <1>1, <1>3, <1>4 DEF ChainOK
  <2> QED
    BY <1>4, <2>1, <2>2 DEF ChainOK
<1>12. HeadsOK'
  <2>1. ASSUME NEW d \in Streams, NEW m, m = Len(log'[d])
        PROVE  /\ heads'[d] = None => m = 0
               /\ heads'[d] # None => heads'[d].seq = m /\ heads'[d].mac = MacAt(d, m)'
    <3>1. m = Len(log[d]) /\ m \in 0..Len(log[d]) /\ heads'[d] = heads[d]
      BY <1>3, <1>4, <1>5, <2>1
    <3>2. MacAt(d, m)' = MacAt(d, m)
      BY <1>6, <3>1
    <3> QED
      BY <1>1, <3>1, <3>2 DEF HeadsOK
  <2> QED
    BY <2>1, Zenon DEF HeadsOK
<1>13. JobsOK'
  <2>1. ASSUME NEW j \in Delivery, DeliveryOK(j)
        PROVE  DeliveryOK(j)'
    <3>1. \A d \in Streams :
            /\ Len(log[d]) <= Len(log'[d]) /\ Len(log'[d]) \in Nat
            /\ \A i \in 1..Len(log[d]) : log'[d][i].mac = log[d][i].mac
      BY <1>4, <1>5
    <3> QED
      BY <1>1, <2>1, <3>1, DeliveryKept
  <2>2. ASSUME NEW d \in Streams, NEW f \in Flipped(d), f # e
        PROVE  f \in Flipped(d)'
    <3>1. PICK i \in 1..Len(log[d]) : log[d][i].flipped /\ log[d][i].mac = f
      BY <1>1, <2>2, FlippedIs
    <3>2. i \in DOMAIN log'[d] /\ log'[d][i].flipped /\ log'[d][i].mac = f
      BY <1>4, <1>5, <2>2, <3>1
    <3> QED
      BY <3>2 DEF Flipped
  <2>3. ASSUME NEW q \in Threads, Serves(q, "verify"), NEW j, j = jobs'[q]
        PROVE  VerifyOK(j)'
    <3>1. PICK old : old = jobs[q]
      OBVIOUS
    <3>2. /\ j.due = old.due \ {e} /\ j.alone = old.alone /\ j.found = old.found
          /\ j.loaded = old.loaded /\ j.todo = old.todo /\ VerifyOK(old)
      BY <1>7, <2>3, <3>1
    <3>3. \A d \in Streams : j.found[d] \subseteq touched'
      BY <1>3, <3>2 DEF VerifyOK
    <3>4. \A d \in Streams : j.loaded[d] # None =>
            heads'[d] # None /\ (j.alone => heads'[d].status = j.loaded[d].status)
      BY <1>3, <3>2 DEF VerifyOK
    <3>5. ASSUME NEW f \in j.due
          PROVE  \E d \in Streams : \/ d \in j.todo /\ f \in Flipped(d)'
                                    \/ d \notin j.todo /\ f \in j.found[d]
      <4>1. f \in old.due /\ f # e
        BY <3>2, <3>5
      <4>2. PICK d \in Streams : \/ d \in old.todo /\ f \in Flipped(d)
                                 \/ d \notin old.todo /\ f \in old.found[d]
        BY <3>2, <4>1 DEF VerifyOK
      <4> QED
        BY <2>2, <3>2, <4>1, <4>2
    <3> QED
      BY <3>3, <3>4, <3>5 DEF VerifyOK
  <2>4. ASSUME NEW q \in Threads, NEW j, j = jobs'[q], j # None
        PROVE  /\ j.op = "append" => DeliveryOK(j)'
               /\ j.op = "verify" => VerifyOK(j)'
    <3>1. CASE Serves(q, "verify")
      <4>1. j.op = "verify"
        BY <1>7, <2>4, <3>1
      <4> QED
        BY <2>3, <2>4, <3>1, <4>1
    <3>2. CASE ~Serves(q, "verify")
      <4>1. j = jobs[q]
        BY <1>8, <2>4, <3>2
      <4>2. j.op # "verify"
        BY <2>4, <3>2, <4>1 DEF Serves
      <4>3. j.op = "append" => j \in Delivery /\ DeliveryOK(j)
        BY <1>1, <2>4, <4>1, Kinds DEF JobsOK
      <4> QED
        BY <2>1, <4>2, <4>3
    <3> QED
      BY <3>1, <3>2
  <2> QED
    BY <2>4, JobsNow
<1>14. AloneOK'
  <2>1. ASSUME NEW q \in Threads, Serves(q, "verify")'
        PROVE  Serves(q, "verify") /\ jobs'[q].alone = jobs[q].alone
    <3>1. Serves(q, "verify")
      BY <1>8, <2>1 DEF Serves
    <3> QED
      BY <1>7, <3>1
  <2> QED
    BY <1>1, <2>1 DEF AloneOK
<1>15. CheckpointOnChain'
  <2>1. ASSUME NEW c \in checkpoints, ~c.old
        PROVE  \/ c.seq = 0 /\ c.mac = 0
               \/ c.seq \in DOMAIN log'[c.stream] /\ log'[c.stream][c.seq].mac = c.mac
    <3>1. c.stream \in Streams
      BY <1>1 DEF TypeOK, Checkpoint
    <3>2. \/ c.seq = 0 /\ c.mac = 0
          \/ c.seq \in DOMAIN log[c.stream] /\ log[c.stream][c.seq].mac = c.mac
      BY <1>1, <2>1 DEF CheckpointOnChain
    <3> QED
      BY <1>4, <1>5, <3>1, <3>2
  <2> QED
    BY <1>3, <2>1 DEF CheckpointOnChain
<1> QED
  BY <1>10, <1>11, <1>12, <1>13, <1>14, <1>15 DEF IInv

\* The reset finds no open transaction, and keeps the checkpoints as old ones.
LEMMA ResetSafe ==
  ASSUME IInv, Reset
  PROVE  IInv'
<1>1. TypeOK
  BY DEF IInv
<1>2. /\ \A p \in Threads : jobs'[p] = None
      /\ log' = [s \in Streams |-> <<>>] /\ heads' = [s \in Streams |-> None]
      /\ alerts' = {} /\ checkpoints' = {[c EXCEPT !.old = TRUE] : c \in checkpoints}
      /\ UNCHANGED <<nextMac, jobs, touched>>
  BY DEF Reset
<1>3. \A c \in checkpoints' : c \in Checkpoint /\ c.old
  <2>1. ASSUME NEW c \in checkpoints
        PROVE  [c EXCEPT !.old = TRUE] \in Checkpoint /\ [c EXCEPT !.old = TRUE].old
    BY <1>1 DEF TypeOK, Checkpoint
  <2> QED
    BY <1>2, <2>1
<1>4. \A s \in Streams : log'[s] = <<>> /\ Len(log'[s]) = 0 /\ heads'[s] = None
  BY <1>2
<1>5. TypeOK'
  BY <1>1, <1>2, <1>3 DEF TypeOK
<1>6. ChainOK' /\ HeadsOK'
  BY <1>1, <1>2, <1>4 DEF TypeOK, ChainOK, HeadsOK
<1>7. JobsOK' /\ AloneOK' /\ AlertsOK' /\ CheckpointOnChain'
  BY <1>2, <1>3 DEF JobsOK, AloneOK, Serves, AlertsOK, CheckpointOnChain
<1> QED
  BY <1>5, <1>6, <1>7 DEF IInv

-----------------------------------------------------------------------------
(* The specification. *)

LEMMA InitSafe ==
  ASSUME Init
  PROVE  IInv
<1>1. \A s \in Streams : log[s] = <<>> /\ Len(log[s]) = 0 /\ heads[s] = None
  BY DEF Init
<1>2. TypeOK
  BY IntegrityAssumption DEF Init, TypeOK
<1>3. ChainOK /\ HeadsOK
  BY <1>1 DEF Init, ChainOK, HeadsOK
<1>4. JobsOK /\ AloneOK /\ AlertsOK /\ CheckpointOnChain
  BY DEF Init, JobsOK, AloneOK, Serves, AlertsOK, CheckpointOnChain
<1> QED
  BY <1>2, <1>3, <1>4 DEF IInv

\* Every step keeps the invariant.
LEMMA NextSafe ==
  ASSUME IInv, [Next]_vars
  PROVE  IInv'
<1>1. CASE UNCHANGED vars
  <2>1. UNCHANGED <<rows, nextMac, touched>> /\ jobs' = jobs
    BY <1>1 DEF vars
  <2>2. jobs' \in [Threads -> Delivery \cup Verify \cup {None}]
    BY <2>1 DEF IInv, TypeOK
  <2>3. ASSUME NEW q \in Threads, NEW j, j = jobs'[q], j # None
        PROVE  /\ j.op = "append" => DeliveryOK(j)
               /\ j.op = "verify" => VerifyOK(j)
    BY <2>1, <2>3 DEF IInv, JobsOK
  <2>4. AloneOK'
    BY <2>1 DEF IInv, AloneOK, Serves
  <2> QED
    BY <2>1, <2>2, <2>3, <2>4, SameRows
<1>2. CASE \E p \in Threads, s \in Streams : AppendRead(p, s)
  BY <1>2, AppendReadSafe
<1>3. CASE \E p \in Threads, s \in Streams : VerifyEvents(p, s)
  BY <1>3, VerifyEventsSafe
<1>4. CASE \E p \in Threads : AppendCommit(p)
  BY <1>4, AppendCommitSafe
<1>5. CASE \E p \in Threads : VerifyStart(p)
  BY <1>5, VerifyStartSafe
<1>6. CASE \E p \in Threads : VerifyHead(p)
  BY <1>6, VerifyHeadSafe
<1>7. CASE \E p \in Threads : VerifyCommit(p)
  BY <1>7, VerifyCommitSafe
<1>8. CASE \E p \in Threads : Abort(p)
  BY <1>8, AbortSafe
<1>9. CASE \E s \in Streams : MakeCheckpoint(s)
  BY <1>9, CheckpointSafe
<1>10. CASE \E s \in Streams : \E k \in DOMAIN log[s] : Tamper(s, k)
  BY <1>10, TamperSafe
<1>11. CASE Reset
  BY <1>11, ResetSafe
<1> QED
  BY <1>1, <1>2, <1>3, <1>4, <1>5, <1>6, <1>7, <1>8, <1>9, <1>10, <1>11 DEF Next

\* IInv holds in every state.
THEOREM Invariance == Spec => []IInv
<1>1. Init => IInv
  BY InitSafe
<1>2. IInv /\ [Next]_vars => IInv'
  BY NextSafe
<1> QED
  BY <1>1, <1>2, PTL DEF Spec

\* Every variable keeps its type (models IntegrityStreamState, RawEvent,
\* SecurityAlert, IntegrityCheckpoint).
THEOREM TypeCorrect == Spec => []TypeOK
<1>1. IInv => TypeOK
  BY DEF IInv
<1> QED
  BY <1>1, Invariance, PTL

\* Deliveries that race for a place leave a chain in which verify_integrity finds
\* nothing but what was tampered with.
THEOREM NothingFalse == Spec => []NoFalseAlarm
<1>1. IInv => NoFalseAlarm
  <2>1. ASSUME IInv, NEW s \in Streams
        PROVE  Wrong(log[s]) \subseteq touched
    BY <2>1, WrongIsFlipped, FlippedIsTouched DEF IInv
  <2> QED
    BY <2>1 DEF IInv, AlertsOK, NoFalseAlarm
<1> QED
  BY <1>1, Invariance, PTL

\* A checkpoint names a place of the chain and the MAC that is there, until the
\* log is reset (create_classic_checkpoint).
THEOREM CheckpointHolds == Spec => []CheckpointOnChain
<1>1. IInv => CheckpointOnChain
  BY DEF IInv
<1> QED
  BY <1>1, Invariance, PTL

\* A verification raises an alert on every event that was changed before it
\* started and has not been restored since (verify_integrity).
THEOREM AlarmSounds == Spec => AlarmIsRaised
<1>1. ASSUME IInv, NEW p \in Threads, VerifyCommit(p)
      PROVE  jobs[p].due \subseteq alerts'
  <2>1. /\ VerifyOK(jobs[p]) /\ jobs[p].todo = {}
        /\ alerts' = alerts \cup UNION {jobs[p].found[s] : s \in Streams}
    BY <1>1, Verdict
  <2>2. ASSUME NEW e \in jobs[p].due
        PROVE  \E s \in Streams : e \in jobs[p].found[s]
    BY <2>1, <2>2 DEF VerifyOK
  <2> QED
    BY <2>1, <2>2
<1>2. IInv /\ [Next]_vars =>
        [\A p \in Threads :
           Serves(p, "verify") /\ VerifyCommit(p) => jobs[p].due \subseteq alerts']_vars
  BY <1>1
<1> QED
  BY <1>2, Invariance, PTL DEF Spec, AlarmIsRaised

\* A verification that no other one overlapped leaves each stream marked exactly
\* if it has found something in it (verify_integrity).
THEOREM VerdictStands == Spec => VerdictIsStored
<1>1. IInv /\ [Next]_vars =>
        [\A p \in Threads :
           Serves(p, "verify") /\ jobs[p].alone /\ VerifyCommit(p) =>
             \A s \in Streams : jobs[p].loaded[s] # None =>
               (heads'[s].status = "OK" <=> jobs[p].found[s] = {})]_vars
  BY Verdict
<1> QED
  BY <1>1, Invariance, PTL DEF Spec, VerdictIsStored
=============================================================================
