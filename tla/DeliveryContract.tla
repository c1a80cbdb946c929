-------------------------- MODULE DeliveryContract --------------------------
(***************************************************************************)
(* What the outbox promises for the quality results it is given: a result  *)
(* reaches the ERP only after the decision behind it is committed, and it  *)
(* is reported as delivered only after the ERP has booked it.  Giving up   *)
(* is not final, and neither is a delivery: the operator may reopen both.  *)
(* The API means to refuse the second, but checks a row that it read       *)
(* without a lock, while a worker may be delivering the message.           *)
(***************************************************************************)
CONSTANT Messages

VARIABLES
  status,  \* what the outbox reports of each message
  booked   \* messages the ERP has ever booked

Statuses == {"absent", "open", "delivered", "failed"}

Init ==
  /\ status = [m \in Messages |-> "absent"]
  /\ booked = {}

Move(m, from, to) ==
  /\ status[m] \in from
  /\ status' = [status EXCEPT ![m] = to]
  /\ UNCHANGED booked

Create(m) == Move(m, {"absent"}, "open")

Book(m) ==
  /\ status[m] # "absent" /\ m \notin booked
  /\ booked' = booked \cup {m}
  /\ UNCHANGED status

Deliver(m) == m \in booked /\ Move(m, {"open"}, "delivered")

GiveUp(m) == Move(m, {"open"}, "failed")

Reopen(m) == Move(m, {"failed", "delivered"}, "open")

Next == \E m \in Messages :
  Create(m) \/ Book(m) \/ Deliver(m) \/ GiveUp(m) \/ Reopen(m)

Spec == Init /\ [][Next]_<<status, booked>>
=============================================================================
