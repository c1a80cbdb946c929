--------------------------- MODULE SessionContract ---------------------------
(***************************************************************************)
(* What the session endpoints promise: a session opens once, with a key    *)
(* that was never issued before; while it is open its key may be exchanged *)
(* for a new one; a closed session has no key and stays closed.            *)
(***************************************************************************)
CONSTANTS
  Ids,    \* sessions
  Keys,   \* refresh tokens
  NoKey

VARIABLES
  stage,   \* absent, open or closed
  key,     \* the one key that extends a session
  issued   \* every key ever handed out

vars == <<stage, key, issued>>

Init ==
  /\ stage = [i \in Ids |-> "absent"]
  /\ key = [i \in Ids |-> NoKey]
  /\ issued = {}

\* The session gets a key that nobody has had.
Issue(i) ==
  \E k \in Keys \ issued :
    /\ key' = [key EXCEPT ![i] = k]
    /\ issued' = issued \cup {k}

Open(i) ==
  /\ stage[i] = "absent"
  /\ stage' = [stage EXCEPT ![i] = "open"]
  /\ Issue(i)

Extend(i) ==
  /\ stage[i] = "open"
  /\ key[i] # NoKey
  /\ Issue(i)
  /\ UNCHANGED stage

Close(i) ==
  /\ stage[i] = "open"
  /\ stage' = [stage EXCEPT ![i] = "closed"]
  /\ key' = [key EXCEPT ![i] = NoKey]
  /\ UNCHANGED issued

Next == \E i \in Ids : Open(i) \/ Extend(i) \/ Close(i)

Spec == Init /\ [][Next]_vars
=============================================================================
