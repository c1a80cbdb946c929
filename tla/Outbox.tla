------------------------------- MODULE Outbox -------------------------------
(***************************************************************************)
(* The transactional outbox: workers that send quality results to the ERP  *)
(* (worker/main.py, integrations/adapters.py), the ERP emulator that books *)
(* them (erp_emulator/app/main.py), and the operator's manual retry        *)
(* (api/integrations.py).                                                  *)
(*                                                                         *)
(* A worker keeps the row it selected FOR UPDATE SKIP LOCKED locked while  *)
(* it waits for the ERP, and writes it in the same transaction.  The retry *)
(* reads the row without a lock, in a session that writes at its commit    *)
(* only the columns that differ from what it read.                         *)
(***************************************************************************)
EXTENDS Naturals

CONSTANTS
  Workers,      \* worker processes
  Operators,    \* threads of the API that serve manual retries
  Messages,     \* quality results
  MaxAttempts,  \* settings.outbox_max_attempts
  None,
  MaxRetries,   \* bound on manual retries of a message
  MaxCrashes,   \* bound on worker crashes
  MaxModes,     \* bound on changes of the emulator's mode
  MaxResets     \* bound on resets and restarts of the emulator

ASSUME OutboxAssumption ==
  /\ MaxAttempts \in Nat \ {0}
  /\ {MaxRetries, MaxCrashes, MaxModes, MaxResets} \subseteq Nat

VARIABLES
  box,       \* outbox_messages, None where a message is not created
  older,     \* the order of creation (created_at): what was there before
  lock,      \* the worker whose transaction holds a row
  worker,    \* where a worker stands in process_one
  retry,     \* what a retry handler has read, or None
  retries,   \* how many manual retries of a message were committed
  mode,      \* behaviour of the emulator
  consumed,  \* its timeout_consumed flag
  ledger,    \* its deliveries
  asleep,    \* results whose handler sleeps before it books them
  bookings,  \* how many times a result was booked, over all resets
  faults     \* how many crashes, mode changes and resets there were

rows == <<box, older, lock>>
erp  == <<mode, consumed, ledger, asleep, bookings>>
vars == <<rows, worker, retry, retries, erp, faults>>

-----------------------------------------------------------------------------
(* Rows. *)

States == {"PENDING", "RETRYING", "DELIVERED", "FAILED"}
Modes == {"NORMAL", "TIMEOUT_ONCE", "ERROR_503", "REJECT_400", "OFFLINE"}
Replies == {"ack", "retryable", "rejected", "lost", "invalid", "dropped"}

\* due: next_attempt_at <= now.
Row == [state : States, attempts : Nat, due : BOOLEAN]

\* A worker in process_one, and what the handler of a manual retry has read.
WorkerRow == [phase : {"idle", "sending", "waiting", "answered", "down"},
              msg : Messages \cup {None}, reply : Replies \cup {None}]
RetryRow == [msg : Messages, state : States \ {"DELIVERED"}]
FaultRow == [crashes : 0..MaxCrashes, modes : 0..MaxModes, resets : 0..MaxResets]

ASSUME NoneAssumption ==
  None \notin Workers \cup Messages \cup Replies \cup Row \cup RetryRow

Created == {m \in Messages : box[m] # None}

\* What a worker may take: due, not finished, and not locked by another.
Ready(m) ==
  /\ box[m] # None /\ box[m].due
  /\ box[m].state \in {"PENDING", "RETRYING"}
  /\ lock[m] = None

\* A slip: a message is tried again at the limit as well.
Again_OneMore(n) == IF n <= MaxAttempts THEN "RETRYING" ELSE "FAILED"

\* What becomes of a message after n attempts, if the last one may be repeated.
Again(n) == IF n < MaxAttempts THEN "RETRYING" ELSE "FAILED"

\* A slip: any answer of the ERP counts as an acknowledgement.
Written_AnyAnswer(row, reply) ==
  IF reply = "dropped" THEN row
  ELSE [row EXCEPT !.attempts = @ + 1, !.state = "DELIVERED"]

\* The row a transaction of process_one commits after a reply.  408, 429 and 5xx
\* (retryable), timeouts and network errors (lost) are tried again after a delay,
\* unless the limit is reached; a rejection, and a wrong or unreadable
\* acknowledgement, are final.  Any other error, such as a connection the server
\* closes without an answer (dropped), rolls back and is not counted.
Written(row, reply) ==
  LET n == row.attempts + 1 IN
  CASE reply = "ack" -> [row EXCEPT !.attempts = n, !.state = "DELIVERED"]
    [] reply \in {"rejected", "invalid"} ->
         [row EXCEPT !.attempts = n, !.state = "FAILED"]
    [] reply = "retryable" ->
         [row EXCEPT !.attempts = n, !.state = Again(n),
                     !.due = @ /\ Again(n) = "FAILED"]
    [] reply = "lost" ->
         [row EXCEPT !.attempts = n, !.state = Again(n), !.due = FALSE]
    [] reply = "dropped" -> row

-----------------------------------------------------------------------------
(* The outbox and its operator. *)

\* OutboundReleasePolicy.create_result: a row of the decision's transaction.
Create(m) ==
  /\ box[m] = None
  /\ box' = [box EXCEPT ![m] = [state |-> "PENDING", attempts |-> 0, due |-> TRUE]]
  /\ older' = [older EXCEPT ![m] = Created]
  /\ UNCHANGED <<lock, worker, retry, retries, erp, faults>>

\* The delay before the next attempt passes.
Elapse(m) ==
  /\ box[m] # None /\ ~box[m].due
  /\ lock[m] = None
  /\ box' = [box EXCEPT ![m].due = TRUE]
  /\ UNCHANGED <<older, lock, worker, retry, retries, erp, faults>>

\* retry_outbox reads the message; a delivered one is refused.
LoadRetry(o, m) ==
  /\ retry[o] = None /\ retries[m] < MaxRetries
  /\ box[m] # None /\ box[m].state # "DELIVERED"
  /\ retry' = [retry EXCEPT ![o] = [msg |-> m, state |-> box[m].state]]
  /\ UNCHANGED <<rows, worker, retries, erp, faults>>

\* Its commit waits for the row lock, and writes the state only if the row it
\* read was not PENDING; next_attempt_at always changes.
CommitRetry(o) ==
  /\ retry[o] # None
  /\ LET m == retry[o].msg IN
     /\ lock[m] = None
     /\ box' = [box EXCEPT ![m] = [@ EXCEPT
                  !.state = IF retry[o].state = "PENDING" THEN box[m].state
                            ELSE "PENDING",
                  !.due = TRUE]]
     /\ retries' = [retries EXCEPT ![m] = @ + 1]
  /\ retry' = [retry EXCEPT ![o] = None]
  /\ UNCHANGED <<older, lock, worker, erp, faults>>

-----------------------------------------------------------------------------
(* Workers. *)

Idle == [phase |-> "idle", msg |-> None, reply |-> None]

\* A slip: the row is selected without FOR UPDATE.
Take_NoLock(w) ==
  /\ worker[w].phase = "idle"
  /\ \E m \in Messages :
       /\ Ready(m)
       /\ \A k \in older[m] : ~Ready(k)
       /\ worker' = [worker EXCEPT ![w] = [@ EXCEPT !.phase = "sending", !.msg = m]]
  /\ UNCHANGED <<rows, retry, retries, erp, faults>>

\* A slip: only PENDING rows are selected.
Take_PendingOnly(w) ==
  /\ worker[w].phase = "idle"
  /\ \E m \in Messages :
       /\ Ready(m) /\ box[m].state = "PENDING"
       /\ \A k \in older[m] : ~Ready(k)
       /\ worker' = [worker EXCEPT ![w] = [@ EXCEPT !.phase = "sending", !.msg = m]]
       /\ lock' = [lock EXCEPT ![m] = w]
  /\ UNCHANGED <<box, older, retry, retries, erp, faults>>

\* The oldest message that is ready, FOR UPDATE SKIP LOCKED.
Take(w) ==
  /\ worker[w].phase = "idle"
  /\ \E m \in Messages :
       /\ Ready(m)
       /\ \A k \in older[m] : ~Ready(k)
       /\ worker' = [worker EXCEPT ![w] = [@ EXCEPT !.phase = "sending", !.msg = m]]
       /\ lock' = [lock EXCEPT ![m] = w]
  /\ UNCHANGED <<box, older, retry, retries, erp, faults>>

Reply(w, reply) ==
  worker' = [worker EXCEPT ![w] = [@ EXCEPT !.phase = "answered", !.reply = reply]]

Waiting(w) == worker[w].phase \in {"sending", "waiting"}

\* The request is lost, or its answer, or the answer does not come in time.
Lose(w) ==
  /\ Waiting(w) \/ (worker[w].phase = "answered" /\ worker[w].reply # "lost")
  /\ Reply(w, "lost")
  /\ UNCHANGED <<rows, retry, retries, erp, faults>>

\* Something else than the ERP answers at its address.
Misanswer(w) ==
  /\ Waiting(w)
  /\ Reply(w, "invalid")
  /\ UNCHANGED <<rows, retry, retries, erp, faults>>

\* The commit (or rollback) at the end of process_one.
Settle(w) ==
  LET m == worker[w].msg IN
  /\ worker[w].phase = "answered"
  /\ box' = [box EXCEPT ![m] = Written(@, worker[w].reply)]
  /\ lock' = [lock EXCEPT ![m] = IF @ = w THEN None ELSE @]
  /\ worker' = [worker EXCEPT ![w] = Idle]
  /\ UNCHANGED <<older, retry, retries, erp, faults>>

\* A worker dies, and with it its transaction; the ERP may still book.
Crash(w) ==
  /\ worker[w].phase # "down" /\ faults.crashes < MaxCrashes
  /\ worker' = [worker EXCEPT ![w] = [Idle EXCEPT !.phase = "down"]]
  /\ lock' = [m \in Messages |-> IF lock[m] = w THEN None ELSE lock[m]]
  /\ faults' = [faults EXCEPT !.crashes = @ + 1]
  /\ UNCHANGED <<box, older, retry, retries, erp>>

\* restart: unless-stopped.
Restart(w) ==
  /\ worker[w].phase = "down"
  /\ worker' = [worker EXCEPT ![w] = Idle]
  /\ UNCHANGED <<rows, retry, retries, erp, faults>>

-----------------------------------------------------------------------------
(* The ERP emulator.  Its handlers are coroutines of one event loop: a      *)
(* handler is atomic but for the sleep of TIMEOUT_ONCE.                     *)

\* A slip: a result that was booked before is booked again.
Book_Again(m) ==
  /\ ledger' = ledger \cup {m}
  /\ bookings' = [bookings EXCEPT ![m] = @ + 1]

\* A result is booked unless it already was; the answer is the same.
Book(m) ==
  /\ ledger' = ledger \cup {m}
  /\ bookings' = [bookings EXCEPT ![m] = IF m \in ledger THEN @ ELSE @ + 1]

\* The handler sleeps 12 seconds, which is longer than the worker waits.
Sleeps == mode = "TIMEOUT_ONCE" /\ ~consumed

\* quality_results, up to its answer or its sleep.
Handle(w) ==
  LET m == worker[w].msg IN
  /\ worker[w].phase = "sending"
  /\ \/ /\ mode \in {"OFFLINE", "ERROR_503"}
        /\ Reply(w, "retryable")
        /\ UNCHANGED erp
     \/ /\ mode = "REJECT_400"
        /\ Reply(w, "rejected")
        /\ UNCHANGED erp
     \/ /\ Sleeps
        /\ consumed' = TRUE
        /\ asleep' = asleep \cup {m}
        /\ worker' = [worker EXCEPT ![w].phase = "waiting"]
        /\ UNCHANGED <<mode, ledger, bookings>>
     \/ /\ mode = "NORMAL" \/ (mode = "TIMEOUT_ONCE" /\ consumed)
        /\ Book(m)
        /\ Reply(w, "ack")
        /\ UNCHANGED <<mode, consumed, asleep>>
  /\ UNCHANGED <<rows, retry, retries, faults>>

\* The handler wakes and books, although nobody waits for its answer.
Wake(m) ==
  /\ m \in asleep
  /\ Book(m)
  /\ asleep' = asleep \ {m}
  /\ UNCHANGED <<rows, worker, retry, retries, mode, consumed, faults>>

\* PUT /demo/behavior
SetMode(next) ==
  /\ faults.modes < MaxModes /\ next # mode
  /\ mode' = next /\ consumed' = FALSE
  /\ faults' = [faults EXCEPT !.modes = @ + 1]
  /\ UNCHANGED <<rows, worker, retry, retries, ledger, asleep, bookings>>

Forget ==
  /\ faults.resets < MaxResets
  /\ mode' = "NORMAL" /\ consumed' = FALSE /\ ledger' = {}
  /\ faults' = [faults EXCEPT !.resets = @ + 1]

\* POST /demo/reset: handlers that sleep go on.
ErpReset ==
  /\ Forget
  /\ UNCHANGED <<rows, worker, retry, retries, asleep, bookings>>

\* A restart loses everything, and drops the connections it had accepted.
ErpRestart ==
  /\ Forget
  /\ asleep' = {}
  /\ \E dropped \in SUBSET {w \in Workers : worker[w].phase = "sending"} :
       worker' = [w \in Workers |->
                    IF w \in dropped \/ worker[w].phase = "waiting"
                    THEN [worker[w] EXCEPT !.phase = "answered", !.reply = "dropped"]
                    ELSE worker[w]]
  /\ UNCHANGED <<rows, retry, retries, bookings>>

-----------------------------------------------------------------------------

Init ==
  /\ box = [m \in Messages |-> None]
  /\ older = [m \in Messages |-> {}]
  /\ lock = [m \in Messages |-> None]
  /\ worker = [w \in Workers |-> Idle]
  /\ retry = [o \in Operators |-> None]
  /\ retries = [m \in Messages |-> 0]
  /\ mode = "NORMAL" /\ consumed = FALSE
  /\ ledger = {} /\ asleep = {}
  /\ bookings = [m \in Messages |-> 0]
  /\ faults = [crashes |-> 0, modes |-> 0, resets |-> 0]

\* What process_one, and the loop around it, does on its own.
Work(w) == Take(w) \/ Settle(w) \/ Restart(w)

\* Something comes of every request.
Answered(w) == Handle(w) \/ Lose(w)

Next ==
  \/ \E m \in Messages : Create(m) \/ Elapse(m) \/ Wake(m)
  \/ \E o \in Operators : CommitRetry(o) \/ \E m \in Messages : LoadRetry(o, m)
  \/ \E w \in Workers : Work(w) \/ Answered(w) \/ Misanswer(w) \/ Crash(w)
  \/ \E next \in Modes : SetMode(next)
  \/ ErpReset \/ ErpRestart

Spec == Init /\ [][Next]_vars

\* The worker polls for ever, an HTTP call has a timeout, delays pass.
Fairness ==
  /\ \A w \in Workers : WF_vars(Work(w)) /\ WF_vars(Answered(w))
  /\ \A m \in Messages : WF_vars(Elapse(m))

FairSpec == Spec /\ Fairness

-----------------------------------------------------------------------------
(* Type invariant. *)

\* Types of the tables, the workers and the emulator.
TypeOK ==
  /\ box \in [Messages -> Row \cup {None}]
  /\ older \in [Messages -> SUBSET Messages]
  /\ lock \in [Messages -> Workers \cup {None}]
  /\ worker \in [Workers -> WorkerRow]
  /\ retry \in [Operators -> RetryRow \cup {None}]
  /\ retries \in [Messages -> Nat]
  /\ mode \in Modes /\ consumed \in BOOLEAN
  /\ ledger \subseteq Messages /\ asleep \subseteq Messages
  /\ bookings \in [Messages -> Nat]
  /\ faults \in FaultRow

-----------------------------------------------------------------------------
(* Safety. *)

\* One worker at a time works on a message, through its whole HTTP call: two
\* workers never have requests for it in flight, and never overwrite each
\* other's attempt count.
OneSender ==
  \A v, w \in Workers : v # w /\ worker[v].msg # None =>
    worker[v].msg # worker[w].msg

\* The ERP books a result once, however often and from whichever attempt it gets
\* it: after a lost answer, a worker's crash, a handler that books after its
\* worker gave up on it, or a manual retry.  Only a reset makes it forget.
BookedOnce == \A m \in Messages : bookings[m] <= 1 + faults.resets

\* outbox_max_attempts bounds the attempts, and a manual retry, which does not
\* reset the count, buys at most one more.
AttemptsBounded ==
  \A m \in Created :
    /\ box[m].attempts <= MaxAttempts + retries[m]
    /\ box[m].state \in {"PENDING", "RETRYING"} =>
         box[m].attempts < MaxAttempts + retries[m]

-----------------------------------------------------------------------------
(* The contract. *)

Reported(m) ==
  IF box[m] = None THEN "absent"
  ELSE IF box[m].state = "DELIVERED" THEN "delivered"
  ELSE IF box[m].state = "FAILED" THEN "failed" ELSE "open"

C == INSTANCE DeliveryContract WITH
       status <- [m \in Messages |-> Reported(m)],
       booked <- {m \in Messages : bookings[m] > 0}

\* The outbox implements DeliveryContract: DELIVERED is reported only for a
\* result the ERP has booked, and only a committed result is ever booked,
\* through lost answers, crashes, late bookings and manual retries.
Contract == C!Spec

-----------------------------------------------------------------------------
(* Liveness. *)

\* Every committed result is delivered or given up on, and the operator is told:
\* none stays in RETRYING for ever, through crashes of workers and ERP.
EveryResultSettles ==
  \A m \in Messages :
    box[m] # None ~> box[m] # None /\ box[m].state \in {"DELIVERED", "FAILED"}
=============================================================================
