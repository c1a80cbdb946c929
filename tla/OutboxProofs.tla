---------------------------- MODULE OutboxProofs ----------------------------
(***************************************************************************)
(* Proofs about Outbox, for any workers, operators, messages and bounds:   *)
(* type correctness, that a message has one sender, that the ERP books a   *)
(* result once between two resets, that attempts are bounded, and that the *)
(* outbox implements DeliveryContract.                                     *)
(***************************************************************************)
EXTENDS Outbox, TLAPS

-----------------------------------------------------------------------------
(* The inductive invariant. *)

Active == {"PENDING", "RETRYING"}
Busy(w) == worker[w].phase \in {"sending", "waiting", "answered"}

\* A worker that has a message holds its row, which nobody has settled meanwhile.
HolderOf(w) ==
  /\ Busy(w) => /\ worker[w].msg \in Created
                /\ lock[worker[w].msg] = w
                /\ box[worker[w].msg].state \in Active
  /\ ~Busy(w) => worker[w].msg = None
  /\ worker[w].phase = "answered" => worker[w].reply \in Replies

HoldersOK == \A w \in Workers : HolderOf(w)

\* Between two resets a result is booked only when the ledger lacks it.
LedgerOK ==
  \A m \in Messages :
    bookings[m] <= faults.resets + (IF m \in ledger THEN 1 ELSE 0)

\* What the ERP books was created, and what is delivered, or about to be, was
\* booked.
EffectsOK ==
  /\ \A m \in Messages : bookings[m] > 0 \/ m \in asleep => m \in Created
  /\ \A m \in ledger : bookings[m] > 0
  /\ \A m \in Created : box[m].state = "DELIVERED" => bookings[m] > 0
  /\ \A w \in Workers :
       worker[w].phase = "answered" /\ worker[w].reply = "ack"
       => bookings[worker[w].msg] > 0

RetriesOK == \A o \in Operators : retry[o] # None => retry[o].msg \in Created

IInv ==
  TypeOK /\ HoldersOK /\ LedgerOK /\ EffectsOK /\ RetriesOK /\ AttemptsBounded

-----------------------------------------------------------------------------
(* Rows. *)

\* Bounds are naturals, and None is none of the values it stands beside.
LEMMA Bounds ==
  /\ MaxAttempts \in Nat /\ MaxAttempts # 0
  /\ MaxCrashes \in Nat /\ MaxModes \in Nat /\ MaxResets \in Nat
  /\ None \notin Workers /\ None \notin Messages /\ None \notin Replies
  /\ None \notin Row /\ None \notin RetryRow
BY OutboxAssumption, NoneAssumption

\* What a reply makes of a row: it stays a row, the attempt is counted unless the
\* transaction rolled back, and a row that stays active is below the limit.
LEMMA WrittenRow ==
  ASSUME NEW row \in Row, NEW reply \in Replies
  PROVE  LET new == Written(row, reply) IN
         /\ new \in Row
         /\ reply = "dropped" => new = row
         /\ reply # "dropped" => /\ new.attempts = row.attempts + 1
                                 /\ new.state \in Active => new.attempts < MaxAttempts
         /\ new.state = "DELIVERED" => reply = "ack" \/ row.state = "DELIVERED"
<1> DEFINE n == row.attempts + 1
           new == Written(row, reply)
           Fine == /\ new \in Row
                   /\ reply = "dropped" => new = row
                   /\ reply # "dropped" =>
                        /\ new.attempts = n
                        /\ new.state \in Active => n < MaxAttempts
                   /\ new.state = "DELIVERED" => reply = "ack" \/ row.state = "DELIVERED"
<1> SUFFICES Fine
  OBVIOUS
<1>1. /\ row.attempts \in Nat /\ n \in Nat /\ row.state \in States /\ row.due \in BOOLEAN
      /\ row = [state |-> row.state, attempts |-> row.attempts, due |-> row.due]
  BY DEF Row
<1>2. Again(n) \in {"RETRYING", "FAILED"} /\ (Again(n) = "RETRYING" => n < MaxAttempts)
  BY DEF Again
<1>3. ASSUME NEW state \in States, NEW due \in BOOLEAN,
             new = [state |-> state, attempts |-> n, due |-> due],
             state \in Active => n < MaxAttempts,
             state = "DELIVERED" => reply = "ack",
             reply # "dropped"
      PROVE  Fine
  <2> HIDE DEF new, n
  <2>1. new \in Row
    BY <1>1, <1>3 DEF Row
  <2> QED
    BY <1>3, <2>1
<1>4. CASE reply = "ack"
  <2>1. new = [state |-> "DELIVERED", attempts |-> n, due |-> row.due]
    BY <1>1, <1>4 DEF Written
  <2> HIDE DEF Fine, new, n
  <2> QED
    BY <1>1, <1>3, <1>4, <2>1 DEF States, Active
<1>5. CASE reply \in {"rejected", "invalid"}
  <2>1. new = [state |-> "FAILED", attempts |-> n, due |-> row.due]
    BY <1>1, <1>5 DEF Written
  <2> HIDE DEF Fine, new, n
  <2> QED
    BY <1>1, <1>3, <1>5, <2>1 DEF States, Active
<1>6. CASE reply = "retryable"
  <2>1. new = [state |-> Again(n), attempts |-> n,
               due |-> row.due /\ Again(n) = "FAILED"]
    BY <1>1, <1>6 DEF Written
  <2> HIDE DEF Fine, new, n
  <2>2. Again(n) \in States /\ (row.due /\ Again(n) = "FAILED") \in BOOLEAN
    BY <1>2 DEF States
  <2> QED
    BY <1>2, <1>3, <1>6, <2>1, <2>2 DEF Active
<1>7. CASE reply = "lost"
  <2>1. new = [state |-> Again(n), attempts |-> n, due |-> FALSE]
    BY <1>1, <1>7 DEF Written
  <2> HIDE DEF Fine, new, n
  <2>2. Again(n) \in States
    BY <1>2 DEF States
  <2> QED
    BY <1>2, <1>3, <1>7, <2>1, <2>2 DEF Active
<1>8. CASE reply = "dropped"
  BY <1>1, <1>8 DEF Written
<1> QED
  BY <1>4, <1>5, <1>6, <1>7, <1>8 DEF Replies

-----------------------------------------------------------------------------
(* Steps of the outbox and of its operator. *)

\* What an active row is in the state of.
LEMMA CreatedRow ==
  ASSUME TypeOK, NEW m \in Created
  PROVE  m \in Messages /\ box[m] \in Row /\ box[m].state \in States
         /\ box[m].attempts \in Nat /\ retries[m] \in Nat
BY DEF TypeOK, Created, Row

\* A new row is nobody's, and not booked yet.
LEMMA CreateSafe ==
  ASSUME IInv, NEW m \in Messages, Create(m)
  PROVE  IInv'
<1> USE DEF IInv, Create, erp
<1> DEFINE row == [state |-> "PENDING", attempts |-> 0, due |-> TRUE]
<1>1. row \in Row /\ row # None
  <2>1. row \in Row
    BY DEF Row, States
  <2> QED
    BY <2>1, Bounds
<1>2. /\ box' = [box EXCEPT ![m] = row] /\ m \notin Created
      /\ Created' = Created \cup {m}
      /\ \A k \in Created : box'[k] = box[k]
  BY <1>1 DEF TypeOK, Created
<1>3. TypeOK'
  BY <1>1, <1>2 DEF TypeOK, Created
<1>4. HoldersOK'
  BY <1>2 DEF HoldersOK, HolderOf, Busy
<1>5. LedgerOK' /\ RetriesOK'
  BY <1>2 DEF LedgerOK, RetriesOK
<1>6. EffectsOK'
  BY <1>2 DEF EffectsOK, TypeOK
<1>7. AttemptsBounded'
  BY <1>2, Bounds DEF AttemptsBounded, TypeOK
<1> QED
  BY <1>3, <1>4, <1>5, <1>6, <1>7

\* The delay of an unlocked row passes.
LEMMA ElapseSafe ==
  ASSUME IInv, NEW m \in Messages, Elapse(m)
  PROVE  IInv'
<1> USE DEF IInv, Elapse, erp
<1> DEFINE row == [box[m] EXCEPT !.due = TRUE]
<1>0. m \in Created /\ box[m] \in Row
  BY DEF Created, TypeOK
<1>1. row \in Row /\ row # None /\ row.state = box[m].state
      /\ row.attempts = box[m].attempts
  <2>1. row \in Row /\ row.state = box[m].state /\ row.attempts = box[m].attempts
    BY <1>0 DEF Row
  <2> QED
    BY <2>1, Bounds
<1>2. /\ box' = [box EXCEPT ![m] = row] /\ Created' = Created
      /\ \A k \in Created : /\ box'[k].state = box[k].state
                            /\ box'[k].attempts = box[k].attempts
  BY <1>0, <1>1 DEF TypeOK, Created
<1>3. TypeOK'
  BY <1>1, <1>2 DEF TypeOK
<1>4. HoldersOK'
  BY <1>2 DEF HoldersOK, HolderOf, Busy
<1>5. LedgerOK' /\ RetriesOK' /\ EffectsOK' /\ AttemptsBounded'
  BY <1>2 DEF LedgerOK, RetriesOK, EffectsOK, AttemptsBounded
<1> QED
  BY <1>3, <1>4, <1>5

\* A retry reads a created message.
LEMMA LoadRetrySafe ==
  ASSUME IInv, NEW o \in Operators, NEW m \in Messages, LoadRetry(o, m)
  PROVE  IInv'
<1> USE DEF IInv, LoadRetry, erp, rows
<1> DEFINE read == [msg |-> m, state |-> box[m].state]
<1>0. m \in Created
  BY DEF Created
<1>1. read \in RetryRow
  BY <1>0, CreatedRow DEF RetryRow
<1>3. TypeOK'
  BY <1>1 DEF TypeOK
<1>4. HoldersOK'
  BY DEF HoldersOK, HolderOf, Busy, Created
<1>5. LedgerOK' /\ EffectsOK' /\ AttemptsBounded'
  BY DEF LedgerOK, EffectsOK, AttemptsBounded, Created
<1>6. RetriesOK'
  BY <1>0 DEF RetriesOK, Created, TypeOK
<1> QED
  BY <1>3, <1>4, <1>5, <1>6

\* A retry commits to an unlocked row: it takes a message out of DELIVERED or
\* FAILED with one more attempt to its account.
LEMMA CommitRetrySafe ==
  ASSUME IInv, NEW o \in Operators, CommitRetry(o)
  PROVE  IInv'
<1> USE DEF IInv, CommitRetry, erp
<1> DEFINE m == retry[o].msg
           state == IF retry[o].state = "PENDING" THEN box[m].state ELSE "PENDING"
           row == [box[m] EXCEPT !.state = state, !.due = TRUE]
<1>0. m \in Created /\ m \in Messages /\ box[m] \in Row /\ retries[m] \in Nat
      /\ box[m].attempts \in Nat
  BY CreatedRow DEF RetriesOK
<1>1. row \in Row /\ row # None /\ row.attempts = box[m].attempts /\ row.state = state
  <2>1. row \in Row /\ row.attempts = box[m].attempts /\ row.state = state
    BY <1>0 DEF Row, States
  <2> QED
    BY <2>1, Bounds
<1> DEFINE kept == state = box[m].state \/ state = "PENDING"
<1>k. kept
  OBVIOUS
<1>a. /\ box' = [box EXCEPT ![m] = row] /\ lock[m] = None
      /\ retries' = [retries EXCEPT ![m] = retries[m] + 1]
  OBVIOUS
<1> HIDE DEF row, state
<1>2. /\ Created' = Created /\ box'[m] = row
      /\ \A k \in Created \ {m} : box'[k] = box[k] /\ retries'[k] = retries[k]
      /\ retries'[m] = retries[m] + 1
  <2>1. /\ box'[m] = row /\ retries'[m] = retries[m] + 1
        /\ \A k \in Messages \ {m} : box'[k] = box[k] /\ retries'[k] = retries[k]
    BY <1>0, <1>a DEF TypeOK
  <2>2. Created' = Created /\ Created \subseteq Messages
    BY <1>0, <1>1, <2>1 DEF Created
  <2> QED
    BY <2>1, <2>2
<1>3. TypeOK'
  BY <1>0, <1>1, <1>a DEF TypeOK
<1>4. HoldersOK'
  <2>1. \A w \in Workers : Busy(w) => worker[w].msg # m /\ worker[w].msg \in Created
    BY <1>a, Bounds DEF HoldersOK, HolderOf
  <2> QED
    BY <1>2, <2>1 DEF HoldersOK, HolderOf, Busy
<1>5. LedgerOK'
  BY DEF LedgerOK
<1>6. EffectsOK'
  <2>1. \A k \in Created : box'[k].state = "DELIVERED" => box[k].state = "DELIVERED"
    BY <1>k, <1>1, <1>2
  <2> QED
    BY <1>2, <2>1 DEF EffectsOK
<1>7. RetriesOK'
  BY <1>2 DEF RetriesOK, TypeOK
<1>8. AttemptsBounded'
  <2>1. /\ box[m].attempts <= MaxAttempts + retries[m]
        /\ \A k \in Created \ {m} : box'[k] = box[k] /\ retries'[k] = retries[k]
    BY <1>0, <1>2 DEF AttemptsBounded
  <2>2. /\ box'[m].attempts <= MaxAttempts + retries'[m]
        /\ box'[m].attempts < MaxAttempts + retries'[m]
    BY <1>0, <1>1, <1>2, <2>1, Bounds
  <2> QED
    BY <1>2, <2>1, <2>2 DEF AttemptsBounded
<1> QED
  BY <1>3, <1>4, <1>5, <1>6, <1>7, <1>8

-----------------------------------------------------------------------------
(* Steps of a worker. *)

\* A step that only moves worker w, from one busy phase to another, with a reply
\* that is an acknowledgement only of a booked result.
LEMMA MoveSafe ==
  ASSUME IInv, NEW w \in Workers, Busy(w), NEW new \in WorkerRow,
         worker' = [worker EXCEPT ![w] = new],
         new.msg = worker[w].msg, new.phase \in {"waiting", "answered"},
         new.phase = "answered" => new.reply \in Replies,
         UNCHANGED <<rows, retry, retries, faults>>,
         mode' = mode, consumed' \in BOOLEAN,
         ledger' \subseteq ledger \cup {new.msg},
         ledger \subseteq ledger',
         asleep' \subseteq asleep \cup {new.msg},
         bookings' = [bookings EXCEPT ![new.msg] =
                        IF new.msg \in ledger' \ ledger THEN @ + 1 ELSE @],
         new.phase = "answered" /\ new.reply = "ack" => bookings'[new.msg] > 0
  PROVE  IInv'
<1> USE DEF IInv, rows
<1> DEFINE m == new.msg
<1>0. m \in Created /\ m \in Messages
  BY DEF HoldersOK, HolderOf, Created
<1>1. /\ worker'[w] = new /\ \A v \in Workers \ {w} : worker'[v] = worker[v]
      /\ Created' = Created
  BY DEF TypeOK, Created
<1>2. /\ \A k \in Messages : bookings[k] \in Nat /\ bookings[k] <= bookings'[k]
      /\ \A k \in Messages \ {m} : bookings'[k] = bookings[k]
      /\ bookings' \in [Messages -> Nat]
      /\ faults.resets \in Nat
  BY <1>0, Bounds DEF TypeOK, FaultRow
<1>3. TypeOK'
  <2>1. ledger' \subseteq Messages /\ asleep' \subseteq Messages
    BY <1>0 DEF TypeOK
  <2> QED
    BY <1>2, <2>1 DEF TypeOK
<1>4. HoldersOK'
  <2>1. HolderOf(w)'
    BY <1>0, <1>1 DEF HoldersOK, HolderOf, Busy
  <2>2. \A v \in Workers \ {w} : HolderOf(v)'
    BY <1>1 DEF HoldersOK, HolderOf, Busy
  <2> QED
    BY <2>1, <2>2 DEF HoldersOK
<1>5. LedgerOK'
  <2> SUFFICES ASSUME NEW k \in Messages
               PROVE  bookings'[k] <= faults.resets + (IF k \in ledger' THEN 1 ELSE 0)
    BY DEF LedgerOK
  <2>1. bookings[k] <= faults.resets + (IF k \in ledger THEN 1 ELSE 0)
    BY DEF LedgerOK
  <2>2. bookings'[k] = IF k = m /\ m \in ledger' \ ledger THEN bookings[k] + 1
                       ELSE bookings[k]
    BY <1>0 DEF TypeOK
  <2> QED
    BY <1>0, <1>2, <2>1, <2>2
<1>6. EffectsOK'
  <2>1. \A k \in Messages : bookings'[k] > 0 \/ k \in asleep' => k \in Created
    BY <1>0, <1>2 DEF EffectsOK
  <2>2. \A k \in ledger' : bookings'[k] > 0
    BY <1>0, <1>2 DEF EffectsOK, TypeOK
  <2>3. \A k \in Created : box[k].state = "DELIVERED" => bookings'[k] > 0
    BY <1>2 DEF EffectsOK, Created
  <2>4. \A v \in Workers \ {w} :
          worker[v].phase = "answered" /\ worker[v].reply = "ack"
          => bookings'[worker[v].msg] > 0
    BY <1>2 DEF EffectsOK, HoldersOK, HolderOf, Busy, Created
  <2> QED
    BY <1>1, <2>1, <2>2, <2>3, <2>4 DEF EffectsOK
<1>7. RetriesOK' /\ AttemptsBounded'
  BY <1>1 DEF RetriesOK, AttemptsBounded
<1> QED
  BY <1>3, <1>4, <1>5, <1>6, <1>7

\* A worker that is busy holds a created message.
LEMMA BusyRow ==
  ASSUME IInv, NEW w \in Workers, Busy(w)
  PROVE  /\ worker[w] \in WorkerRow /\ worker \in [Workers -> WorkerRow]
         /\ worker[w].msg \in Messages /\ worker[w].msg \in Created
BY DEF IInv, TypeOK, HoldersOK, HolderOf, Created

\* The answer is lost, or is not one.
LEMMA UnansweredSafe ==
  ASSUME IInv, NEW w \in Workers, Lose(w) \/ Misanswer(w)
  PROVE  IInv'
<1>0. Busy(w)
  BY DEF Lose, Misanswer, Waiting, Busy
<1>1. PICK reply \in {"lost", "invalid"} : Reply(w, reply)
  BY DEF Lose, Misanswer
<1> DEFINE new == [worker[w] EXCEPT !.phase = "answered", !.reply = reply]
<1>2. /\ worker' = [worker EXCEPT ![w] = new] /\ new \in WorkerRow
      /\ new.msg = worker[w].msg /\ new.phase = "answered" /\ new.reply = reply
  BY <1>0, <1>1, BusyRow DEF Reply, WorkerRow, Replies
<1>3. UNCHANGED <<rows, retry, retries, faults, erp>>
  BY DEF Lose, Misanswer
<1>4. mode' = mode /\ consumed' \in BOOLEAN /\ ledger' = ledger /\ asleep' = asleep
      /\ bookings' = [bookings EXCEPT ![new.msg] = bookings[new.msg]]
  BY <1>0, <1>2, <1>3, BusyRow DEF erp, IInv, TypeOK
<1> HIDE DEF new
<1> QED
  BY <1>0, <1>1, <1>2, <1>3, <1>4, MoveSafe DEF Replies

\* The emulator answers, sleeps, or books and answers.
LEMMA HandleSafe ==
  ASSUME IInv, NEW w \in Workers, Handle(w)
  PROVE  IInv'
<1> DEFINE m == worker[w].msg
<1>0. Busy(w) /\ m \in Messages /\ bookings \in [Messages -> Nat]
      /\ m \in Created /\ worker[w] \in WorkerRow /\ ledger \subseteq Messages
      /\ UNCHANGED <<rows, retry, retries, faults>> /\ consumed \in BOOLEAN
  BY BusyRow DEF Handle, Busy, IInv, TypeOK
<1>1. CASE \E reply \in {"retryable", "rejected"} : Reply(w, reply) /\ UNCHANGED erp
  <2>1. PICK reply \in {"retryable", "rejected"} : Reply(w, reply) /\ UNCHANGED erp
    BY <1>1
  <2> DEFINE new == [worker[w] EXCEPT !.phase = "answered", !.reply = reply]
  <2>2. /\ worker' = [worker EXCEPT ![w] = new] /\ new \in WorkerRow
        /\ new.msg = m /\ new.phase = "answered" /\ new.reply = reply
    BY <1>0, <2>1 DEF Reply, WorkerRow, Replies
  <2>3. mode' = mode /\ consumed' \in BOOLEAN /\ ledger' = ledger /\ asleep' = asleep
        /\ bookings' = [bookings EXCEPT ![new.msg] = bookings[new.msg]]
    BY <1>0, <2>1, <2>2 DEF erp
  <2> HIDE DEF new
  <2> QED
    BY <1>0, <2>1, <2>2, <2>3, MoveSafe DEF Replies
<1>2. CASE /\ consumed' = TRUE
           /\ asleep' = asleep \cup {m}
           /\ worker' = [worker EXCEPT ![w].phase = "waiting"]
           /\ UNCHANGED <<mode, ledger, bookings>>
  <2> DEFINE new == [worker[w] EXCEPT !.phase = "waiting"]
  <2>1. /\ worker' = [worker EXCEPT ![w] = new] /\ new \in WorkerRow
        /\ new.msg = m /\ new.phase = "waiting"
    BY <1>0, <1>2 DEF WorkerRow
  <2>2. bookings' = [bookings EXCEPT ![new.msg] = bookings[new.msg]]
    BY <1>0, <1>2, <2>1
  <2> HIDE DEF new
  <2> QED
    BY <1>0, <1>2, <2>1, <2>2, MoveSafe
<1>3. CASE Book(m) /\ Reply(w, "ack") /\ UNCHANGED <<mode, consumed, asleep>>
  <2> DEFINE new == [worker[w] EXCEPT !.phase = "answered", !.reply = "ack"]
  <2>1. /\ worker' = [worker EXCEPT ![w] = new] /\ new \in WorkerRow
        /\ new.msg = m /\ new.phase = "answered" /\ new.reply = "ack"
    BY <1>0, <1>3 DEF Reply, WorkerRow, Replies
  <2>2. /\ ledger' = ledger \cup {m}
        /\ bookings' = [bookings EXCEPT ![m] = IF m \in ledger' \ ledger
                                               THEN bookings[m] + 1 ELSE bookings[m]]
    BY <1>3 DEF Book
  <2>3. bookings'[m] > 0
    BY <1>0, <2>2 DEF IInv, EffectsOK
  <2> HIDE DEF new
  <2> QED
    BY <1>0, <1>3, <2>1, <2>2, <2>3, MoveSafe DEF Replies
<1> QED
  BY <1>1, <1>2, <1>3 DEF Handle

\* A worker that has nothing, or has just settled, owes nothing.
LEMMA TakeSafe ==
  ASSUME IInv, NEW w \in Workers, Take(w)
  PROVE  IInv'
<1> USE DEF IInv, erp
<1>1. PICK m \in Messages :
        /\ Ready(m)
        /\ worker' = [worker EXCEPT ![w] = [@ EXCEPT !.phase = "sending", !.msg = m]]
        /\ lock' = [lock EXCEPT ![m] = w]
  BY DEF Take
<1> DEFINE new == [worker[w] EXCEPT !.phase = "sending", !.msg = m]
<1>2. /\ worker[w] \in WorkerRow /\ m \in Created /\ lock[m] = None
      /\ box[m].state \in Active
      /\ UNCHANGED <<box, older, retry, retries, erp, faults>>
  BY <1>1 DEF Take, TypeOK, Ready, Created, Active
<1>3. /\ new \in WorkerRow /\ new.phase = "sending" /\ new.msg = m
      /\ worker' = [worker EXCEPT ![w] = new]
  BY <1>1, <1>2 DEF WorkerRow
<1> HIDE DEF new
<1>4. /\ worker'[w] = new /\ \A v \in Workers \ {w} : worker'[v] = worker[v]
      /\ lock'[m] = w /\ \A k \in Messages \ {m} : lock'[k] = lock[k]
      /\ Created' = Created
  BY <1>1, <1>2, <1>3 DEF TypeOK, Created
<1>5. TypeOK'
  BY <1>1, <1>2, <1>3 DEF TypeOK
<1>6. HoldersOK'
  <2>1. HolderOf(w)'
    BY <1>2, <1>3, <1>4 DEF HolderOf, Busy
  <2>2. ASSUME NEW v \in Workers \ {w}
        PROVE  HolderOf(v)'
    <3>1. HolderOf(v) /\ (Busy(v) => worker[v].msg # m /\ worker[v].msg \in Messages)
      BY <1>2, Bounds DEF HoldersOK, HolderOf, Created
    <3> QED
      BY <1>2, <1>4, <3>1 DEF HolderOf, Busy
  <2> QED
    BY <2>1, <2>2 DEF HoldersOK
<1>7. LedgerOK' /\ RetriesOK' /\ AttemptsBounded'
  BY <1>2, <1>4 DEF LedgerOK, RetriesOK, AttemptsBounded
<1>8. EffectsOK'
  BY <1>2, <1>3, <1>4 DEF EffectsOK
<1> QED
  BY <1>5, <1>6, <1>7, <1>8

\* A worker that loses what it holds.
LEMMA IdleSafe ==
  ASSUME IInv, NEW w \in Workers, NEW new \in WorkerRow,
         worker' = [worker EXCEPT ![w] = new],
         new.msg = None, new.phase \in {"idle", "down"},
         lock' \in [Messages -> Workers \cup {None}],
         \A v \in Workers \ {w}, k \in Messages : lock[k] = v => lock'[k] = v
  PROVE  /\ worker' \in [Workers -> WorkerRow]
         /\ (\A v \in Workers \ {w} : Busy(v) =>
               box'[worker[v].msg] = box[worker[v].msg]) /\ Created' = Created
            => HoldersOK'
         /\ \A v \in Workers : worker'[v].phase = "answered" =>
              worker[v].phase = "answered" /\ worker'[v] = worker[v]
<1>1. /\ worker'[w] = new /\ \A v \in Workers \ {w} : worker'[v] = worker[v]
  BY DEF IInv, TypeOK
<1>2. worker' \in [Workers -> WorkerRow]
  BY DEF IInv, TypeOK
<1>3. ASSUME \A v \in Workers \ {w} : Busy(v) =>
               box'[worker[v].msg] = box[worker[v].msg],
             Created' = Created
      PROVE  HoldersOK'
  <2>1. HolderOf(w)'
    BY <1>1 DEF HolderOf, Busy
  <2>2. ASSUME NEW v \in Workers \ {w}
        PROVE  HolderOf(v)'
    <3>1. HolderOf(v) /\ (Busy(v) => worker[v].msg \in Messages)
      BY DEF IInv, HoldersOK, HolderOf, Created
    <3> QED
      BY <1>1, <1>3, <3>1 DEF HolderOf, Busy
  <2> QED
    BY <2>1, <2>2 DEF HoldersOK
<1> QED
  BY <1>1, <1>2, <1>3

\* The idle worker.
LEMMA IdleRow ==
  /\ Idle \in WorkerRow /\ Idle.msg = None /\ Idle.phase = "idle"
  /\ [Idle EXCEPT !.phase = "down"] \in WorkerRow
BY DEF Idle, WorkerRow

\* process_one ends: the row it holds is written and freed.
LEMMA SettleSafe ==
  ASSUME IInv, NEW w \in Workers, Settle(w)
  PROVE  IInv'
<1> DEFINE m == worker[w].msg
           row == Written(box[m], worker[w].reply)
<1>0. /\ m \in Messages /\ m \in Created /\ box[m] \in Row /\ lock[m] = w
      /\ box[m].state \in Active /\ worker[w].reply \in Replies
      /\ worker[w].phase = "answered" /\ Busy(w)
      /\ box[m].attempts \in Nat /\ retries[m] \in Nat
  BY CreatedRow DEF Settle, IInv, HoldersOK, HolderOf, Busy, Created
<1>1. /\ box' = [box EXCEPT ![m] = row] /\ worker' = [worker EXCEPT ![w] = Idle]
      /\ lock' = [lock EXCEPT ![m] = None]
      /\ UNCHANGED <<older, retry, retries, erp, faults>>
  BY <1>0 DEF Settle
<1>2. /\ row \in Row /\ row # None /\ row.attempts \in Nat
      /\ row.attempts <= box[m].attempts + 1
      /\ row.state \in Active =>
           row = box[m] \/ row.attempts < MaxAttempts
      /\ row.state = "DELIVERED" => worker[w].reply = "ack"
  <2>1. row \in Row
    BY <1>0, WrittenRow
  <2>2. row # None /\ row.attempts \in Nat
    BY <2>1, Bounds DEF Row
  <2> QED
    BY <1>0, <2>1, <2>2, WrittenRow DEF Active
<1> HIDE DEF row
<1>3. /\ box'[m] = row /\ \A k \in Messages \ {m} : box'[k] = box[k]
      /\ Created' = Created /\ Created \subseteq Messages
  <2>1. box'[m] = row /\ \A k \in Messages \ {m} : box'[k] = box[k]
    BY <1>0, <1>1 DEF IInv, TypeOK
  <2> QED
    BY <1>0, <1>2, <2>1 DEF Created
<1>4. /\ lock' \in [Messages -> Workers \cup {None}]
      /\ \A v \in Workers \ {w}, k \in Messages : lock[k] = v => lock'[k] = v
  BY <1>0, <1>1 DEF IInv, TypeOK
<1>5. \A v \in Workers \ {w} : Busy(v) => worker[v].msg \in Messages \ {m}
  BY <1>0 DEF IInv, HoldersOK, HolderOf, Created
<1>6. HoldersOK' /\ worker' \in [Workers -> WorkerRow]
      /\ \A v \in Workers : worker'[v].phase = "answered" =>
           worker[v].phase = "answered" /\ worker'[v] = worker[v]
  <2>1. \A v \in Workers \ {w} : Busy(v) =>
          box'[worker[v].msg] = box[worker[v].msg]
    BY <1>3, <1>5
  <2> QED
    BY <1>1, <1>3, <1>4, <2>1, IdleRow, IdleSafe
<1>7. TypeOK'
  BY <1>1, <1>2, <1>4, <1>6 DEF IInv, TypeOK, erp
<1>8. LedgerOK' /\ RetriesOK'
  BY <1>1, <1>3 DEF IInv, LedgerOK, RetriesOK, erp
<1>9. EffectsOK'
  <2>1. \A k \in Created : box'[k].state = "DELIVERED" => bookings[k] > 0
    BY <1>0, <1>2, <1>3 DEF IInv, EffectsOK
  <2> QED
    BY <1>1, <1>3, <1>6, <2>1 DEF IInv, EffectsOK, erp
<1>10. AttemptsBounded'
  <2>1. box[m].attempts < MaxAttempts + retries[m]
    BY <1>0 DEF IInv, AttemptsBounded, Active
  <2>2. /\ row.attempts <= MaxAttempts + retries[m]
        /\ row.state \in Active => row.attempts < MaxAttempts + retries[m]
    BY <1>0, <1>2, <2>1, Bounds
  <2> QED
    BY <1>0, <1>1, <1>3, <2>2 DEF IInv, AttemptsBounded, Active
<1> QED
  BY <1>6, <1>7, <1>8, <1>9, <1>10 DEF IInv

\* A worker dies and frees what it holds, or starts again.
LEMMA CrashSafe ==
  ASSUME IInv, NEW w \in Workers, Crash(w) \/ Restart(w)
  PROVE  IInv'
<1>1. PICK new \in WorkerRow : /\ worker' = [worker EXCEPT ![w] = new]
                               /\ new.msg = None /\ new.phase \in {"idle", "down"}
  BY IdleRow DEF Crash, Restart, Idle
<1>2. /\ UNCHANGED <<box, older, retry, retries, erp>>
      /\ lock' \in [Messages -> Workers \cup {None}]
      /\ \A v \in Workers \ {w}, k \in Messages : lock[k] = v => lock'[k] = v
      /\ faults' \in FaultRow /\ faults'.resets = faults.resets
  <2>1. CASE Crash(w)
    <3>1. faults' \in FaultRow /\ faults'.resets = faults.resets
      BY <2>1, Bounds DEF Crash, IInv, TypeOK, FaultRow
    <3> QED
      BY <2>1, <3>1 DEF Crash, IInv, TypeOK
  <2>2. CASE Restart(w)
    BY <2>2 DEF Restart, IInv, TypeOK, rows
  <2> QED
    BY <2>1, <2>2
<1>3. Created' = Created
  BY <1>2 DEF Created
<1>4. HoldersOK' /\ worker' \in [Workers -> WorkerRow]
      /\ \A v \in Workers : worker'[v].phase = "answered" =>
           worker[v].phase = "answered" /\ worker'[v] = worker[v]
  <2>1. \A v \in Workers \ {w} : Busy(v) =>
          box'[worker[v].msg] = box[worker[v].msg]
    BY <1>2
  <2>2. /\ lock' \in [Messages -> Workers \cup {None}]
        /\ \A v \in Workers \ {w}, k \in Messages : lock[k] = v => lock'[k] = v
    BY <1>2
  <2> QED
    BY <1>1, <1>3, <2>1, <2>2, IdleSafe
<1>5. TypeOK'
  BY <1>2, <1>4 DEF IInv, TypeOK, erp
<1>6. LedgerOK' /\ RetriesOK' /\ AttemptsBounded'
  BY <1>2, <1>3 DEF IInv, LedgerOK, RetriesOK, AttemptsBounded, erp
<1>7. EffectsOK'
  BY <1>2, <1>3, <1>4 DEF IInv, EffectsOK, erp
<1> QED
  BY <1>4, <1>5, <1>6, <1>7 DEF IInv

-----------------------------------------------------------------------------
(* Steps of the emulator. *)

\* A handler that slept books a created message.
LEMMA WakeSafe ==
  ASSUME IInv, NEW m \in Messages, Wake(m)
  PROVE  IInv'
<1> USE DEF IInv, Wake, Book, rows
<1>0. m \in Created /\ bookings \in [Messages -> Nat] /\ ledger \subseteq Messages
  BY DEF EffectsOK, TypeOK
<1>1. /\ \A k \in Messages \ {m} : bookings'[k] = bookings[k]
      /\ bookings'[m] = IF m \in ledger THEN bookings[m] ELSE bookings[m] + 1
      /\ bookings' \in [Messages -> Nat] /\ Created' = Created
  BY <1>0 DEF Created
<1>2. TypeOK'
  BY <1>1 DEF TypeOK
<1>3. HoldersOK'
  BY <1>1 DEF HoldersOK, HolderOf, Busy
<1>4. LedgerOK'
  <2>1. faults.resets \in Nat
    BY Bounds DEF TypeOK, FaultRow
  <2> QED
    BY <1>0, <1>1, <2>1 DEF LedgerOK
<1>5. EffectsOK'
  <2>1. \A k \in Messages : bookings[k] > 0 => bookings'[k] > 0
    BY <1>0, <1>1
  <2>2. bookings'[m] > 0
    BY <1>0, <1>1 DEF EffectsOK
  <2>3. \A w \in Workers : worker[w].phase = "answered" => worker[w].msg \in Messages
    BY DEF HoldersOK, HolderOf, Busy, Created
  <2> QED
    BY <1>0, <1>1, <2>1, <2>2, <2>3 DEF EffectsOK, Created
<1>6. RetriesOK' /\ AttemptsBounded'
  BY <1>1 DEF RetriesOK, AttemptsBounded
<1> QED
  BY <1>2, <1>3, <1>4, <1>5, <1>6

\* The mode says nothing about what is booked.
LEMMA SetModeSafe ==
  ASSUME IInv, NEW next \in Modes, SetMode(next)
  PROVE  IInv'
<1> USE DEF IInv, SetMode, rows
<1>1. faults' \in FaultRow /\ faults'.resets = faults.resets
  BY Bounds DEF TypeOK, FaultRow
<1>2. TypeOK'
  BY <1>1 DEF TypeOK
<1>3. HoldersOK' /\ RetriesOK' /\ AttemptsBounded' /\ EffectsOK'
  BY DEF HoldersOK, HolderOf, Busy, Created, RetriesOK, AttemptsBounded, EffectsOK
<1>4. LedgerOK'
  BY <1>1 DEF LedgerOK
<1> QED
  BY <1>2, <1>3, <1>4

\* A reset empties the ledger and is counted.
LEMMA ForgetSafe ==
  ASSUME IInv, Forget, bookings' = bookings
  PROVE  /\ faults' \in FaultRow /\ mode' \in Modes /\ consumed' \in BOOLEAN
         /\ LedgerOK'
<1> USE DEF IInv, Forget
<1>1. faults' \in FaultRow /\ faults'.resets = faults.resets + 1
      /\ faults.resets \in Nat
  BY Bounds DEF TypeOK, FaultRow
<1>2. LedgerOK'
  BY <1>1 DEF LedgerOK, TypeOK
<1> QED
  BY <1>1, <1>2 DEF Modes

\* The emulator forgets; its handlers that sleep go on.
LEMMA ErpResetSafe ==
  ASSUME IInv, ErpReset
  PROVE  IInv'
<1>1. /\ Forget /\ bookings' = bookings /\ ledger' = {}
      /\ UNCHANGED <<box, older, lock, worker, retry, retries, asleep>>
  BY DEF ErpReset, Forget, rows
<1>2. TypeOK' /\ LedgerOK'
  BY <1>1, ForgetSafe DEF IInv, TypeOK
<1>3. HoldersOK' /\ RetriesOK' /\ AttemptsBounded' /\ EffectsOK'
  BY <1>1 DEF IInv, HoldersOK, HolderOf, Busy, Created, RetriesOK, AttemptsBounded,
              EffectsOK
<1> QED
  BY <1>2, <1>3 DEF IInv

\* The emulator starts again: no handler survives, and a connection it had
\* accepted is dropped, which is no acknowledgement.
LEMMA ErpRestartSafe ==
  ASSUME IInv, ErpRestart
  PROVE  IInv'
<1>1. /\ Forget /\ bookings' = bookings /\ ledger' = {} /\ asleep' = {}
      /\ UNCHANGED <<box, older, lock, retry, retries>>
  BY DEF ErpRestart, Forget, rows
<1>2. PICK dropped \in SUBSET {w \in Workers : worker[w].phase = "sending"} :
        worker' = [w \in Workers |->
                     IF w \in dropped \/ worker[w].phase = "waiting"
                     THEN [worker[w] EXCEPT !.phase = "answered", !.reply = "dropped"]
                     ELSE worker[w]]
  BY DEF ErpRestart
<1>3. ASSUME NEW w \in Workers
      PROVE  \/ worker'[w] = worker[w]
             \/ /\ Busy(w) /\ worker'[w] \in WorkerRow
                /\ worker'[w].msg = worker[w].msg
                /\ worker'[w].phase = "answered" /\ worker'[w].reply = "dropped"
  <2>1. CASE w \in dropped \/ worker[w].phase = "waiting"
    <3>1. Busy(w) /\ worker[w] \in WorkerRow
      BY <1>2, <2>1 DEF Busy, IInv, TypeOK
    <3>2. worker'[w] = [worker[w] EXCEPT !.phase = "answered", !.reply = "dropped"]
      BY <1>2, <2>1
    <3>3. "answered" \in {"idle", "sending", "waiting", "answered", "down"} /\ "dropped" \in Replies
      BY DEF Replies
    <3>4. worker'[w] \in WorkerRow /\ worker'[w].msg = worker[w].msg
          /\ worker'[w].phase = "answered" /\ worker'[w].reply = "dropped"
      BY <3>1, <3>2, <3>3 DEF WorkerRow
    <3> QED
      BY <3>1, <3>4
  <2>2. CASE ~(w \in dropped \/ worker[w].phase = "waiting")
    BY <1>2, <2>2
  <2> QED
    BY <2>1, <2>2
<1>4. worker' \in [Workers -> WorkerRow]
  <2>1. worker' = [w \in Workers |-> worker'[w]]
    BY <1>2
  <2>2. \A w \in Workers : worker'[w] \in WorkerRow
    BY <1>3 DEF IInv, TypeOK
  <2> QED
    BY <2>1, <2>2
<1>5. TypeOK' /\ LedgerOK'
  BY <1>1, <1>4, ForgetSafe DEF IInv, TypeOK
<1>6. HoldersOK'
  BY <1>1, <1>3 DEF IInv, HoldersOK, HolderOf, Busy, Created, Replies
<1>7. RetriesOK' /\ AttemptsBounded'
  BY <1>1 DEF IInv, Created, RetriesOK, AttemptsBounded
<1>8. EffectsOK'
  BY <1>1, <1>3 DEF IInv, EffectsOK, Created
<1> QED
  BY <1>5, <1>6, <1>7, <1>8 DEF IInv

-----------------------------------------------------------------------------
(* The theorems. *)

\* Nothing is created, locked or booked at first.
LEMMA InitSafe == Init => IInv
<1> SUFFICES ASSUME Init
             PROVE  IInv
  OBVIOUS
<1> USE DEF Init
<1>1. TypeOK
  <2>1. worker \in [Workers -> WorkerRow]
    BY IdleRow
  <2>2. faults \in FaultRow
    BY Bounds DEF FaultRow
  <2> QED
    BY <2>1, <2>2 DEF TypeOK, Modes
<1>2. Created = {}
  BY DEF Created
<1>3. HoldersOK /\ RetriesOK
  BY <1>2, IdleRow DEF HoldersOK, HolderOf, Busy, RetriesOK, Idle
<1>4. LedgerOK
  BY DEF LedgerOK
<1>5. EffectsOK /\ AttemptsBounded
  BY <1>2, IdleRow DEF EffectsOK, AttemptsBounded
<1> QED
  BY <1>1, <1>3, <1>4, <1>5 DEF IInv

\* Every step, and every stutter, keeps the inductive invariant.
LEMMA NextSafe == IInv /\ [Next]_vars => IInv'
<1> SUFFICES ASSUME IInv, [Next]_vars
             PROVE  IInv'
  OBVIOUS
<1>1. ASSUME NEW m \in Messages, Create(m) \/ Elapse(m) \/ Wake(m)
      PROVE  IInv'
  BY <1>1, CreateSafe, ElapseSafe, WakeSafe
<1>2. ASSUME NEW o \in Operators,
             CommitRetry(o) \/ \E m \in Messages : LoadRetry(o, m)
      PROVE  IInv'
  BY <1>2, CommitRetrySafe, LoadRetrySafe
<1>3. ASSUME NEW w \in Workers, Work(w) \/ Answered(w) \/ Misanswer(w) \/ Crash(w)
      PROVE  IInv'
  BY <1>3, TakeSafe, SettleSafe, CrashSafe, HandleSafe, UnansweredSafe
     DEF Work, Answered
<1>4. ASSUME NEW next \in Modes, SetMode(next)
      PROVE  IInv'
  BY <1>4, SetModeSafe
<1>5. CASE ErpReset \/ ErpRestart
  BY <1>5, ErpResetSafe, ErpRestartSafe
<1>6. CASE UNCHANGED vars
  BY <1>6 DEF vars, rows, erp, IInv, TypeOK, HoldersOK, HolderOf, Busy, LedgerOK,
     EffectsOK, RetriesOK, AttemptsBounded, Created
<1> QED
  BY <1>1, <1>2, <1>3, <1>4, <1>5, <1>6 DEF Next

\* The inductive invariant holds in every reachable state.
THEOREM Invariance == Spec => []IInv
BY InitSafe, NextSafe, PTL DEF Spec

\* Type correctness of the tables, the workers and the emulator.
THEOREM TypeCorrect == Spec => []TypeOK
<1>1. IInv => TypeOK
  BY DEF IInv
<1> QED
  BY <1>1, Invariance, PTL

\* Two workers never have the same message in flight.
THEOREM SenderIsUnique == Spec => []OneSender
<1>1. IInv => OneSender
  BY Bounds DEF IInv, HoldersOK, HolderOf, OneSender
<1> QED
  BY <1>1, Invariance, PTL

\* The ERP books a result once, whatever is retried, by whom and when; only the
\* resets of the emulator add to that.
THEOREM BookedOnceHolds == Spec => []BookedOnce
<1>1. IInv => BookedOnce
  <2> SUFFICES ASSUME IInv, NEW m \in Messages
               PROVE  bookings[m] <= 1 + faults.resets
    BY DEF BookedOnce
  <2>1. faults.resets \in Nat /\ bookings[m] \in Nat
    BY Bounds DEF IInv, TypeOK, FaultRow
  <2> QED
    BY <2>1 DEF IInv, LedgerOK
<1> QED
  BY <1>1, Invariance, PTL

\* Attempts are bounded by outbox_max_attempts and the manual retries.
THEOREM AttemptsBoundedHolds == Spec => []AttemptsBounded
<1>1. IInv => AttemptsBounded
  BY DEF IInv
<1> QED
  BY <1>1, Invariance, PTL

-----------------------------------------------------------------------------
(* The outbox implements its contract. *)

Status == [m \in Messages |-> Reported(m)]
Booked == {m \in Messages : bookings[m] > 0}

\* What is reported of a message.
LEMMA ReportedIs ==
  ASSUME TypeOK, NEW m \in Messages
  PROVE  /\ m \notin Created <=> Reported(m) = "absent"
         /\ m \in Created => (Reported(m) = "open" <=> box[m].state \in Active)
         /\ m \in Created =>
              (Reported(m) = "delivered" <=> box[m].state = "DELIVERED")
         /\ m \in Created => (Reported(m) = "failed" <=> box[m].state = "FAILED")
<1>1. m \in Created => box[m].state \in States
  BY CreatedRow
<1>2. CASE m \notin Created
  BY <1>2 DEF Reported, Created
<1>3. CASE m \in Created /\ box[m].state \in Active
  BY <1>3 DEF Reported, Created, Active
<1>4. CASE m \in Created /\ box[m].state = "DELIVERED"
  BY <1>4 DEF Reported, Created, Active
<1>5. CASE m \in Created /\ box[m].state = "FAILED"
  BY <1>5 DEF Reported, Created, Active
<1> QED
  BY <1>1, <1>2, <1>3, <1>4, <1>5 DEF States, Active

\* A step that changes one row and books nothing is a step of the contract if
\* what it reports of that message moves along the contract's lines.
LEMMA RowStep ==
  ASSUME TypeOK, TypeOK', NEW m \in Messages, bookings' = bookings,
         \A k \in Messages \ {m} : box'[k] = box[k],
         \/ Reported(m)' = Reported(m)
         \/ Reported(m) = "absent" /\ Reported(m)' = "open"
         \/ Reported(m) = "open" /\ Reported(m)' = "delivered" /\ bookings[m] > 0
         \/ Reported(m) = "open" /\ Reported(m)' = "failed"
         \/ Reported(m) \in {"failed", "delivered"} /\ Reported(m)' = "open"
  PROVE  C!Next \/ UNCHANGED <<Status, Booked>>
<1>1. Booked' = Booked
  BY DEF Booked
<1>2. \A k \in Messages \ {m} : Reported(k)' = Reported(k)
  BY DEF Reported
<1>3. Status' = [Status EXCEPT ![m] = Reported(m)'] /\ Status[m] = Reported(m)
  BY <1>2 DEF Status
<1>4. CASE Reported(m)' = Reported(m)
  BY <1>1, <1>3, <1>4 DEF Status
<1>5. CASE Reported(m) = "absent" /\ Reported(m)' = "open"
  <2>1. C!Create(m)
    BY <1>1, <1>3, <1>5 DEF C!Create, C!Move, Status, Booked
  <2> QED
    BY <2>1 DEF C!Next
<1>6. CASE Reported(m) = "open" /\ Reported(m)' = "delivered" /\ bookings[m] > 0
  <2>1. C!Deliver(m)
    BY <1>1, <1>3, <1>6 DEF C!Deliver, C!Move, Status, Booked
  <2> QED
    BY <2>1 DEF C!Next
<1>7. CASE Reported(m) = "open" /\ Reported(m)' = "failed"
  <2>1. C!GiveUp(m)
    BY <1>1, <1>3, <1>7 DEF C!GiveUp, C!Move, Status, Booked
  <2> QED
    BY <2>1 DEF C!Next
<1>8. CASE Reported(m) \in {"failed", "delivered"} /\ Reported(m)' = "open"
  <2>1. C!Reopen(m)
    BY <1>1, <1>3, <1>8 DEF C!Reopen, C!Move, Status, Booked
  <2> QED
    BY <2>1 DEF C!Next
<1> QED
  BY <1>4, <1>5, <1>6, <1>7, <1>8

\* A step that books one created result, at most, and changes no row.
LEMMA BookStep ==
  ASSUME TypeOK, NEW m \in Created, box' = box,
         bookings' = [bookings EXCEPT ![m] = @ + 1] \/ bookings' = bookings
  PROVE  C!Next \/ UNCHANGED <<Status, Booked>>
<1>1. Status' = Status
  BY DEF Status, Reported
<1>2. m \in Messages /\ Status[m] # "absent"
  BY ReportedIs DEF Status, Created
<1>3. CASE bookings' = bookings
  BY <1>1, <1>3 DEF Booked
<1>4. CASE bookings' = [bookings EXCEPT ![m] = @ + 1]
  <2>1. Booked' = Booked \cup {m}
    BY <1>2, <1>4 DEF Booked, TypeOK
  <2>2. CASE m \in Booked
    BY <1>1, <2>1, <2>2
  <2>3. CASE m \notin Booked
    <3>1. C!Book(m)
      BY <1>1, <1>2, <2>1, <2>3 DEF C!Book, Status, Booked
    <3> QED
      BY <1>2, <3>1 DEF C!Next
  <2> QED
    BY <2>2, <2>3
<1> QED
  BY <1>3, <1>4

\* Every step of the outbox is a step of the contract, or none.
LEMMA StepImplements ==
  ASSUME IInv, IInv', [Next]_vars
  PROVE  C!Next \/ UNCHANGED <<Status, Booked>>
<1>t. TypeOK /\ TypeOK'
  BY DEF IInv
<1>0. CASE UNCHANGED <<box, bookings>>
  BY <1>0 DEF Status, Booked, Reported
<1>1. ASSUME NEW m \in Messages, Create(m)
      PROVE  C!Next \/ UNCHANGED <<Status, Booked>>
  <2>1. /\ box' = [box EXCEPT ![m] = [state |-> "PENDING", attempts |-> 0, due |-> TRUE]]
        /\ m \notin Created /\ bookings' = bookings
    BY <1>1 DEF Create, Created, erp
  <2>2. box'[m].state = "PENDING" /\ box'[m] \in Row
    BY <1>t, <2>1 DEF TypeOK, Row, States
  <2>3. m \in Created'
    BY <2>2, Bounds DEF Created
  <2>4. Reported(m) = "absent" /\ Reported(m)' = "open"
    BY <1>t, <2>1, <2>2, <2>3, ReportedIs DEF Active, Reported, Created
  <2> QED
    BY <1>t, <2>1, <2>4, RowStep DEF TypeOK
<1>2. ASSUME NEW m \in Messages, Elapse(m)
      PROVE  C!Next \/ UNCHANGED <<Status, Booked>>
  <2>1. /\ box[m] # None /\ box[m] \in Row /\ bookings' = bookings
        /\ box' = [box EXCEPT ![m] = [box[m] EXCEPT !.due = TRUE]]
    BY <1>t, <1>2 DEF Elapse, erp, TypeOK
  <2>2. box'[m].state = box[m].state /\ box'[m] \in Row
    BY <1>t, <2>1 DEF TypeOK, Row
  <2>3. box'[m] # None
    BY <2>2, Bounds
  <2>4. Reported(m)' = Reported(m)
    BY <2>1, <2>2, <2>3 DEF Reported
  <2> QED
    BY <1>t, <2>1, <2>4, RowStep DEF TypeOK
<1>3. ASSUME NEW o \in Operators, CommitRetry(o)
      PROVE  C!Next \/ UNCHANGED <<Status, Booked>>
  <2>0. PICK m \in Messages : m = retry[o].msg /\ m \in Created
    BY <1>t, <1>3, CreatedRow DEF CommitRetry, IInv, RetriesOK
  <2> DEFINE state == IF retry[o].state = "PENDING" THEN box[m].state ELSE "PENDING"
  <2>1. /\ m \in Created /\ m \in Messages /\ box[m] \in Row /\ bookings' = bookings
        /\ box[m].state \in States
        /\ box' = [box EXCEPT ![m] = [box[m] EXCEPT !.state = state, !.due = TRUE]]
    BY <1>t, <1>3, <2>0, CreatedRow DEF CommitRetry, erp
  <2>2. state \in {box[m].state, "PENDING"}
    OBVIOUS
  <2> HIDE DEF state
  <2>3. box'[m].state = state /\ box'[m] \in Row
    BY <1>t, <2>1, <2>2 DEF TypeOK, Row, States
  <2>4. box'[m] # None /\ box[m] # None
    BY <2>1, <2>3, Bounds
  <2>5. CASE state = box[m].state
    <3>1. Reported(m)' = Reported(m)
      BY <2>3, <2>4, <2>5 DEF Reported
    <3> QED
      BY <1>t, <2>1, <3>1, RowStep DEF TypeOK
  <2>6. CASE state = "PENDING"
    <3>1. Reported(m)' = "open"
      BY <2>3, <2>4, <2>6 DEF Reported
    <3>2. Reported(m) \in {"open", "failed", "delivered"}
      BY <1>t, <2>1, ReportedIs DEF States, Active
    <3> QED
      BY <1>t, <2>1, <3>1, <3>2, RowStep DEF TypeOK
  <2> QED
    BY <2>2, <2>5, <2>6
<1>4. ASSUME NEW w \in Workers, Settle(w)
      PROVE  C!Next \/ UNCHANGED <<Status, Booked>>
  <2>0. PICK m \in Messages : m = worker[w].msg /\ m \in Created
    BY <1>4 DEF Settle, IInv, HoldersOK, HolderOf, Busy, Created
  <2> DEFINE row == Written(box[m], worker[w].reply)
  <2>1. /\ m \in Created /\ m \in Messages /\ box[m] \in Row /\ bookings' = bookings
        /\ box[m].state \in Active /\ worker[w].reply \in Replies
        /\ worker[w].reply = "ack" => bookings[m] > 0
        /\ box' = [box EXCEPT ![m] = row]
    BY <1>t, <1>4, <2>0, CreatedRow
       DEF Settle, erp, IInv, HoldersOK, HolderOf, Busy, EffectsOK
  <2>2. row \in Row /\ (row.state = "DELIVERED" => worker[w].reply = "ack")
    BY <2>1, WrittenRow DEF Active
  <2> HIDE DEF row
  <2>3. box'[m] = row /\ row # None
    BY <1>t, <2>1, <2>2, Bounds DEF TypeOK
  <2>4. Reported(m) = "open"
    BY <1>t, <2>1, ReportedIs
  <2>5. \/ Reported(m)' = "open"
        \/ Reported(m)' = "failed"
        \/ Reported(m)' = "delivered" /\ bookings[m] > 0
    <3>1. row.state \in States
      BY <2>2 DEF Row
    <3>2. CASE row.state \in Active
      BY <2>3, <3>2 DEF Reported, Active
    <3>3. CASE row.state = "FAILED"
      BY <2>3, <3>3 DEF Reported
    <3>4. CASE row.state = "DELIVERED"
      BY <2>1, <2>2, <2>3, <3>4 DEF Reported
    <3> QED
      BY <3>1, <3>2, <3>3, <3>4 DEF States, Active
  <2> QED
    BY <1>t, <2>1, <2>4, <2>5, RowStep DEF TypeOK
<1>5. ASSUME NEW w \in Workers, Handle(w)
      PROVE  C!Next \/ UNCHANGED <<Status, Booked>>
  <2>1. PICK m \in Created : m = worker[w].msg
    BY <1>5 DEF IInv, HoldersOK, HolderOf, Busy, Handle
  <2>2. /\ box' = box
        /\ bookings' = [bookings EXCEPT ![m] = @ + 1] \/ bookings' = bookings
    BY <1>t, <1>5, <2>1 DEF Handle, Book, erp, rows, TypeOK
  <2> QED
    BY <1>t, <2>1, <2>2, BookStep
<1>6. ASSUME NEW m \in Messages, Wake(m)
      PROVE  C!Next \/ UNCHANGED <<Status, Booked>>
  <2>1. m \in Created
    BY <1>6 DEF IInv, EffectsOK, Wake
  <2>2. /\ box' = box
        /\ bookings' = [bookings EXCEPT ![m] = @ + 1] \/ bookings' = bookings
    BY <1>t, <1>6 DEF Wake, Book, rows, TypeOK
  <2> QED
    BY <1>t, <2>1, <2>2, BookStep
<1>7. CASE \/ \E o \in Operators, m \in Messages : LoadRetry(o, m)
           \/ \E w \in Workers : Take(w) \/ Lose(w) \/ Misanswer(w) \/ Crash(w) \/ Restart(w)
           \/ \E next \in Modes : SetMode(next)
           \/ ErpReset \/ ErpRestart \/ UNCHANGED vars
  BY <1>0, <1>7 DEF LoadRetry, Take, Lose, Misanswer, Crash, Restart, SetMode, ErpReset,
     ErpRestart, vars, rows, erp
<1> QED
  BY <1>1, <1>2, <1>3, <1>4, <1>5, <1>6, <1>7 DEF Next, Work, Answered

\* The outbox, its operator and the emulator implement DeliveryContract: nothing
\* is reported as delivered that the ERP has not booked, and nothing is booked
\* that was not committed.
THEOREM OutboxImplementsContract == Spec => Contract
<1>1. Init => C!Init
  <2> SUFFICES ASSUME Init
               PROVE  C!Init
    OBVIOUS
  <2>1. \A m \in Messages : box[m] = None /\ bookings[m] = 0
    BY DEF Init
  <2> QED
    BY <2>1 DEF C!Init, Reported
<1>2. IInv /\ IInv' /\ [Next]_vars => [C!Next]_<<Status, Booked>>
  BY StepImplements
<1> QED
  BY <1>1, <1>2, Invariance, PTL DEF Spec, Contract, C!Spec, Status, Booked
=============================================================================
