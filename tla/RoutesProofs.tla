----------------------------- MODULE RoutesProofs -----------------------------
(***************************************************************************)
(* Proofs about Routes, for any codes, items, threads and bounds: type     *)
(* correctness, that revisions are numbered without gap, that the active   *)
(* ones of a route never outnumber the activations that superseded none,   *)
(* that a superseded revision stays so, and that an item that asks for     *)
(* none gets a frozen revision.                                            *)
(***************************************************************************)
EXTENDS Routes, FiniteSetTheorems, SequenceTheorems, TLAPS

-----------------------------------------------------------------------------
(* The inductive invariant. *)

\* A revision is frozen when it is activated, and not before.
RowsOK ==
  \A k \in DOMAIN revisions : revisions[k].status # "draft" <=> revisions[k].frozen

\* A route names one of its own revisions, which is frozen.
NamesOK ==
  \A c \in Codes : routes[c] # None /\ routes[c].active # 0 =>
    routes[c].active \in RevisionsOf(c) /\ revisions[routes[c].active].frozen

\* A route that was never activated has drafts only.
UntouchedOK ==
  \A c \in Codes : loose[c] = 0 =>
    /\ ActiveOf(c) = {}
    /\ \A k \in RevisionsOf(c) : revisions[k].status = "draft"
    /\ routes[c] # None => routes[c].active = 0

\* What a new revision is made from: a number that was the last one.
AddOK(j) ==
  /\ j.code \in Codes
  /\ j.number \in 0..Cardinality(RevisionsOf(j.code))
  /\ j.route # None => routes[j.code] # None /\ j.route.active \in {0} \cup DOMAIN revisions

\* What an activation has read: revisions that may have moved on, but not back.
\* If one other at most is active and the route that was read named it, then a
\* revision that is active when it is read has superseded it by then.
ActivateOK(j) ==
  LET c == j.code
      k == j.of
      o == j.route.active
  IN
  /\ c \in Codes /\ routes[c] # None /\ k \in RevisionsOf(c) /\ k # 0
  /\ o \in {0} \cup RevisionsOf(c)
  /\ o # 0 => revisions[o].frozen
  /\ j.row # None =>
       /\ j.row.status # "draft" <=> j.row.frozen
       /\ j.row.frozen => revisions[k].frozen
       /\ o = k => j.row.frozen
       /\ loose[c] <= 1 /\ Former(j) /\ j.row.status = "active" =>
            revisions[o].status = "superseded"
  /\ j.old # None => Former(j) /\ j.old.frozen /\ j.old.status # "draft"
  /\ loose[c] = 0 => o = 0

\* A registration that asks for no revision has found a frozen one, or none.
PinOK(j) ==
  /\ j.revision \in {0} \cup DOMAIN revisions
  /\ j.revision # 0 /\ AskedOf[j.item] = 0 => revisions[j.revision].frozen

JobsOK ==
  \A p \in Threads : jobs[p] # None =>
    /\ jobs[p].op \in {"create", "revise", "import"} => AddOK(jobs[p])
    /\ jobs[p].op = "activate" => ActivateOK(jobs[p])
    /\ jobs[p].op = "pin" => PinOK(jobs[p])

IInv ==
  /\ TypeOK /\ NumbersDense /\ OneInOneOut /\ DefaultPinIsFrozen
  /\ RowsOK /\ NamesOK /\ UntouchedOK /\ JobsOK

-----------------------------------------------------------------------------
(* Rows, jobs and numbers. *)

\* What a commit writes to a revision, column by column.
LEMMA EmitRevision ==
  ASSUME NEW row \in Revision, NEW loaded \in Revision, NEW new \in Revision
  PROVE  LET e == Emit(row, loaded, new) IN
         /\ e \in Revision
         /\ e.code = IF new.code # loaded.code THEN new.code ELSE row.code
         /\ e.number = IF new.number # loaded.number THEN new.number ELSE row.number
         /\ e.status = IF new.status # loaded.status THEN new.status ELSE row.status
         /\ e.frozen = IF new.frozen # loaded.frozen THEN new.frozen ELSE row.frozen
<1>1. DOMAIN row = {"code", "number", "status", "frozen"}
  BY DEF Revision
<1> QED
  BY <1>1 DEF Revision, Emit

\* What a commit writes to a route.
LEMMA EmitRoute ==
  ASSUME NEW S, NEW row \in [active : S], NEW loaded \in [active : S], NEW new \in [active : S]
  PROVE  /\ Emit(row, loaded, new) \in [active : S]
         /\ Emit(row, loaded, new).active =
              IF new.active # loaded.active THEN new.active ELSE row.active
<1>1. DOMAIN row = {"active"}
  OBVIOUS
<1> QED
  BY <1>1 DEF Emit

\* The op tells the kinds of request apart.
LEMMA Kinds ==
  ASSUME TypeOK, NEW p \in Threads, jobs[p] # None
  PROVE  /\ jobs[p].op \in {"create", "revise", "import", "activate", "pin"}
         /\ jobs[p].op \in {"create", "revise", "import"} => jobs[p] \in Add
         /\ jobs[p].op = "activate" => jobs[p] \in Activate
         /\ jobs[p].op = "pin" => jobs[p] \in Pin
<1>1. jobs[p] \in Add \cup Activate \cup Pin
  BY DEF TypeOK
<1>2. \A j \in Add : j.op \in {"create", "revise", "import"}
  BY DEF Add
<1>3. \A j \in Activate : j.op = "activate"
  BY DEF Activate
<1>4. \A j \in Pin : j.op = "pin"
  BY DEF Pin
<1> QED
  BY <1>1, <1>2, <1>3, <1>4

\* The revisions are numbered from 1 in the order of their commits.
LEMMA Numbered ==
  ASSUME TypeOK
  PROVE  /\ Len(revisions) \in Nat /\ DOMAIN revisions = 1..Len(revisions)
         /\ Len(revisions) <= MaxRevisions /\ MaxRevisions \in Nat
         /\ revisions \in [1..Len(revisions) -> Revision]
BY LenProperties, RoutesAssumption DEF TypeOK

\* The revisions of a route are finitely many.
LEMMA FiniteRows ==
  ASSUME TypeOK, NEW c
  PROVE  IsFiniteSet(RevisionsOf(c)) /\ Cardinality(RevisionsOf(c)) \in Nat
<1>1. RevisionsOf(c) \subseteq 1..Len(revisions) /\ Len(revisions) \in Nat
  BY Numbered DEF RevisionsOf
<1>2. IsFiniteSet(1..Len(revisions))
  BY <1>1, FS_Interval
<1> QED
  BY <1>1, <1>2, FS_Subset, FS_CardinalityType

\* One more at most than before.
LEMMA OneIn ==
  ASSUME NEW S, NEW T, NEW k, IsFiniteSet(S), T \subseteq S \cup {k}
  PROVE  Cardinality(T) <= Cardinality(S) + 1
<1>1. Cardinality(S) \in Nat
  BY FS_CardinalityType
<1>2. /\ IsFiniteSet(S \cup {k})
      /\ Cardinality(S \cup {k}) = IF k \in S THEN Cardinality(S) ELSE Cardinality(S) + 1
  BY FS_AddElement
<1>3. Cardinality(T) \in Nat /\ Cardinality(T) <= Cardinality(S \cup {k})
  BY <1>2, FS_Subset, FS_CardinalityType
<1> QED
  BY <1>1, <1>2, <1>3

\* One in for one out.
LEMMA OneForOne ==
  ASSUME NEW S, NEW T, NEW k, NEW o \in S, IsFiniteSet(S), T \subseteq (S \ {o}) \cup {k}
  PROVE  Cardinality(T) <= Cardinality(S)
<1>1. /\ Cardinality(S) \in Nat /\ IsFiniteSet(S \ {o})
      /\ Cardinality(S \ {o}) = Cardinality(S) - 1
  BY FS_CardinalityType, FS_RemoveElement
<1>2. Cardinality(T) <= Cardinality(S \ {o}) + 1
  BY <1>1, OneIn
<1> QED
  BY <1>1, <1>2

\* The active ones are finitely many, too.
LEMMA FiniteActive ==
  ASSUME TypeOK, NEW c
  PROVE  IsFiniteSet(ActiveOf(c)) /\ Cardinality(ActiveOf(c)) \in Nat
<1>1. ActiveOf(c) \subseteq RevisionsOf(c)
  BY DEF ActiveOf
<1> QED
  BY <1>1, FiniteRows, FS_Subset, FS_CardinalityType

\* The last number is that of a revision, or 0.
LEMMA LastIs ==
  ASSUME TypeOK, NumbersDense, NEW c \in Codes
  PROVE  LastNumber(c) \in 0..Cardinality(RevisionsOf(c))
<1> DEFINE n == Cardinality(RevisionsOf(c))
<1>1. n \in Nat /\ NumbersOf(c) = 1..n
  BY FiniteRows DEF NumbersDense
<1> HIDE DEF n
<1>2. n \in NumbersOf(c) \cup {0} /\ \A m \in NumbersOf(c) : m <= n
  BY <1>1
<1>3. LastNumber(c) \in NumbersOf(c) \cup {0}
  BY <1>2, Zenon DEF LastNumber
<1> QED
  BY <1>1, <1>3 DEF n

\* A request that one thread begins or ends leaves the other threads alone.
LEMMA OneJob ==
  ASSUME TypeOK, NEW p \in Threads, NEW job \in Add \cup Activate \cup Pin \cup {None},
         jobs' = [jobs EXCEPT ![p] = job]
  PROVE  /\ jobs' \in [Threads -> Add \cup Activate \cup Pin \cup {None}]
         /\ jobs'[p] = job
         /\ \A q \in Threads : q # p => jobs'[q] = jobs[q]
BY DEF TypeOK

\* What a request has read stays true when the revisions only move on.
LEMMA JobsKept ==
  ASSUME TypeOK, JobsOK, NEW p \in Threads,
         NEW job \in Add \cup Activate \cup Pin \cup {None},
         jobs' = [jobs EXCEPT ![p] = job],
         job # None =>
           /\ job.op \in {"create", "revise", "import"} => AddOK(job)'
           /\ job.op = "activate" => ActivateOK(job)'
           /\ job.op = "pin" => PinOK(job)',
         DOMAIN revisions \subseteq DOMAIN revisions',
         \A k \in DOMAIN revisions :
           /\ revisions[k].frozen => revisions'[k].frozen
           /\ revisions[k].status = "superseded" => revisions'[k].status = "superseded",
         \A c \in Codes :
           /\ RevisionsOf(c) \subseteq RevisionsOf(c)'
           /\ Cardinality(RevisionsOf(c)) <= Cardinality(RevisionsOf(c)')
           /\ Cardinality(RevisionsOf(c)') \in Nat
           /\ routes[c] # None => routes'[c] # None
           /\ loose[c] \in Nat /\ loose'[c] \in Nat /\ loose[c] <= loose'[c]
  PROVE  JobsOK'
<1>1. ASSUME NEW j \in Add, AddOK(j)
      PROVE  AddOK(j)'
  <2>1. j.code \in Codes /\ Cardinality(RevisionsOf(j.code)) \in Nat
    BY <1>1, FiniteRows DEF AddOK
  <2>2. j.number \in 0..Cardinality(RevisionsOf(j.code))'
    BY <1>1, <2>1 DEF AddOK
  <2> QED
    BY <1>1, <2>1, <2>2 DEF AddOK
<1>2. ASSUME NEW j, ActivateOK(j)
      PROVE  ActivateOK(j)'
  <2> DEFINE c == j.code
             k == j.of
             o == j.route.active
  <2>1. /\ c \in Codes /\ routes[c] # None /\ k \in RevisionsOf(c) /\ k # 0
        /\ o \in {0} \cup RevisionsOf(c)
        /\ o # 0 => revisions[o].frozen
        /\ j.row # None =>
             /\ j.row.status # "draft" <=> j.row.frozen
             /\ j.row.frozen => revisions[k].frozen
             /\ o = k => j.row.frozen
             /\ loose[c] <= 1 /\ Former(j) /\ j.row.status = "active" =>
                  revisions[o].status = "superseded"
        /\ j.old # None => Former(j) /\ j.old.frozen /\ j.old.status # "draft"
        /\ loose[c] = 0 => o = 0
    BY <1>2 DEF ActivateOK
  <2>2. k \in DOMAIN revisions /\ (o # 0 => o \in DOMAIN revisions)
    BY <2>1 DEF RevisionsOf
  <2>3. /\ loose'[c] = 0 => loose[c] = 0
        /\ loose'[c] <= 1 => loose[c] <= 1
    BY <2>1
  <2>4. /\ routes'[c] # None /\ k \in RevisionsOf(c)' /\ o \in {0} \cup RevisionsOf(c)'
        /\ revisions[k].frozen => revisions'[k].frozen
        /\ o # 0 => revisions'[o].frozen
        /\ o # 0 /\ revisions[o].status = "superseded" => revisions'[o].status = "superseded"
    BY <2>1, <2>2
  <2>5. Former(j) => o # 0
    BY DEF Former
  <2> HIDE DEF c, k, o
  <2>6. j.row # None =>
          /\ j.row.status # "draft" <=> j.row.frozen
          /\ j.row.frozen => revisions'[k].frozen
          /\ o = k => j.row.frozen
          /\ loose'[c] <= 1 /\ Former(j) /\ j.row.status = "active" =>
               revisions'[o].status = "superseded"
    BY <2>1, <2>3, <2>4, <2>5
  <2>7. loose'[c] = 0 => o = 0
    BY <2>1, <2>3
  <2> QED
    BY <2>1, <2>4, <2>6, <2>7 DEF ActivateOK, Former, c, k, o
<1>3. ASSUME NEW j, PinOK(j)
      PROVE  PinOK(j)'
  BY <1>3 DEF PinOK
<1>4. ASSUME NEW q \in Threads, NEW j, j = jobs'[q], j # None
      PROVE  /\ j.op \in {"create", "revise", "import"} => AddOK(j)'
             /\ j.op = "activate" => ActivateOK(j)'
             /\ j.op = "pin" => PinOK(j)'
  <2>1. CASE q = p
    <3>1. j = job
      BY <1>4, <2>1, OneJob
    <3> QED
      BY <1>4, <3>1
  <2>2. CASE q # p
    <3>1. j = jobs[q]
      BY <1>4, <2>2, OneJob
    <3>2. /\ j.op \in {"create", "revise", "import"} => AddOK(j) /\ j \in Add
          /\ j.op = "activate" => ActivateOK(j)
          /\ j.op = "pin" => PinOK(j)
      BY <1>4, <3>1, Kinds DEF JobsOK
    <3> QED
      BY <1>1, <1>2, <1>3, <3>2
  <2> QED
    BY <2>1, <2>2
<1> QED
  BY <1>4, Zenon DEF JobsOK

-----------------------------------------------------------------------------
(* The steps: what is read, and what is given up. *)

\* Where no route and no revision changes, the parts about them stay.
LEMMA SameRows ==
  ASSUME IInv, UNCHANGED <<routes, revisions, loose>>,
         NEW p \in Threads, NEW job \in Add \cup Activate \cup Pin \cup {None},
         jobs' = [jobs EXCEPT ![p] = job],
         job # None =>
           /\ job.op \in {"create", "revise", "import"} => AddOK(job)
           /\ job.op = "activate" => ActivateOK(job)
           /\ job.op = "pin" => PinOK(job),
         pins' \in [Items -> {None, 0} \cup DOMAIN revisions],
         \A i \in Items : pins'[i] \notin {None, 0} /\ AskedOf[i] = 0 =>
           revisions[pins'[i]].frozen
  PROVE  IInv'
<1>1. TypeOK /\ JobsOK
  BY DEF IInv
<1>2. /\ \A c : RevisionsOf(c)' = RevisionsOf(c) /\ ActiveOf(c)' = ActiveOf(c)
      /\ \A c : NumbersOf(c)' = NumbersOf(c)
  BY DEF RevisionsOf, ActiveOf, NumbersOf
<1>3. TypeOK'
  BY <1>1, OneJob DEF TypeOK
<1>4. NumbersDense' /\ OneInOneOut' /\ DefaultPinIsFrozen'
  BY <1>2 DEF IInv, NumbersDense, OneInOneOut, DefaultPinIsFrozen
<1>5. RowsOK' /\ NamesOK' /\ UntouchedOK'
  BY <1>2 DEF IInv, RowsOK, NamesOK, UntouchedOK
<1>6. JobsOK'
  <2>1. job # None =>
           /\ job.op \in {"create", "revise", "import"} => AddOK(job)'
           /\ job.op = "activate" => ActivateOK(job)'
           /\ job.op = "pin" => PinOK(job)'
    <3>1. AddOK(job) => AddOK(job)'
      BY <1>2 DEF AddOK
    <3>2. ActivateOK(job) => ActivateOK(job)'
      BY <1>2 DEF ActivateOK
    <3>3. PinOK(job) => PinOK(job)'
      BY DEF PinOK
    <3> QED
      BY <3>1, <3>2, <3>3
  <2>2. \A c \in Codes :
           /\ RevisionsOf(c)' = RevisionsOf(c) /\ Cardinality(RevisionsOf(c)) \in Nat
           /\ loose[c] \in Nat /\ loose'[c] = loose[c]
    BY <1>1, <1>2, FiniteRows DEF TypeOK
  <2>3. \A c \in Codes :
           /\ RevisionsOf(c) \subseteq RevisionsOf(c)'
           /\ Cardinality(RevisionsOf(c)) <= Cardinality(RevisionsOf(c)')
           /\ Cardinality(RevisionsOf(c)') \in Nat
           /\ routes[c] # None => routes'[c] # None
           /\ loose[c] \in Nat /\ loose'[c] \in Nat /\ loose[c] <= loose'[c]
    BY <2>2
  <2>4. \A k \in DOMAIN revisions :
           /\ revisions[k].frozen => revisions'[k].frozen
           /\ revisions[k].status = "superseded" => revisions'[k].status = "superseded"
    OBVIOUS
  <2>5. DOMAIN revisions \subseteq DOMAIN revisions'
    OBVIOUS
  <2> QED
    BY <1>1, <2>1, <2>3, <2>4, <2>5, JobsKept
<1> QED
  BY <1>3, <1>4, <1>5, <1>6 DEF IInv

\* The pins stay, too.
LEMMA SamePins ==
  ASSUME IInv, UNCHANGED <<rows, loose>>,
         NEW p \in Threads, NEW job \in Add \cup Activate \cup Pin \cup {None},
         jobs' = [jobs EXCEPT ![p] = job],
         job # None =>
           /\ job.op \in {"create", "revise", "import"} => AddOK(job)
           /\ job.op = "activate" => ActivateOK(job)
           /\ job.op = "pin" => PinOK(job)
  PROVE  IInv'
<1>1. /\ UNCHANGED <<routes, revisions, loose>>
      /\ pins' \in [Items -> {None, 0} \cup DOMAIN revisions]
      /\ \A i \in Items : pins'[i] \notin {None, 0} /\ AskedOf[i] = 0 =>
           revisions[pins'[i]].frozen
  BY DEF rows, IInv, TypeOK, DefaultPinIsFrozen
<1> QED
  BY <1>1, SameRows

\* A refusal, or the death of the process, ends the request and writes nothing.
LEMMA RefuseSafe ==
  ASSUME IInv, NEW p \in Threads, Refuse(p)
  PROVE  IInv'
<1>1. UNCHANGED <<rows, loose>> /\ jobs' = [jobs EXCEPT ![p] = None]
  BY DEF Refuse, Done
<1> QED
  BY <1>1, SamePins

LEMMA AddReadSafe ==
  ASSUME IInv, NEW p \in Threads, NEW c \in Codes, NEW op \in {"create", "revise", "import"},
         NEW activate \in BOOLEAN, AddRead(p, c, op, activate)
  PROVE  IInv'
<1> DEFINE job == [op |-> op, code |-> c, route |-> routes[c], number |-> LastNumber(c),
                   activate |-> activate]
<1>1. UNCHANGED <<rows, loose>> /\ jobs' = [jobs EXCEPT ![p] = job]
  BY DEF AddRead
<1>2. TypeOK /\ NumbersDense
  BY DEF IInv
<1>3. LastNumber(c) \in 0..Cardinality(RevisionsOf(c))
  BY <1>2, LastIs
<1>4. routes[c] # None => routes[c] \in Route /\ routes[c].active \in {0} \cup DOMAIN revisions
  <2>1. routes[c] # None => routes[c] \in [active : {0} \cup DOMAIN revisions]
    BY <1>2 DEF TypeOK
  <2>2. {0} \cup DOMAIN revisions \subseteq 0..MaxRevisions
    BY <1>2, Numbered
  <2> QED
    BY <2>1, <2>2 DEF Route
<1>5. LastNumber(c) \in 0..MaxRevisions
  <2>1. RevisionsOf(c) \subseteq 1..Len(revisions)
    BY <1>2, Numbered DEF RevisionsOf
  <2>2. Cardinality(RevisionsOf(c)) <= Len(revisions)
    <3>1. Len(revisions) \in Nat
      BY <1>2, Numbered
    <3>2. PICK n \in Nat : n = Len(revisions)
      BY <3>1
    <3>3. IsFiniteSet(1..n) /\ Cardinality(1..n) = n
      BY FS_Interval
    <3> QED
      BY <2>1, <3>2, <3>3, FS_Subset
  <2>3. Cardinality(RevisionsOf(c)) \in Nat
    BY <1>2, FiniteRows
  <2> QED
    BY <1>2, <1>3, <2>2, <2>3, Numbered
<1>6. job \in Add
  BY <1>4, <1>5 DEF Add
<1>7. AddOK(job) /\ job.op \in {"create", "revise", "import"}
  BY <1>3, <1>4 DEF AddOK
<1> HIDE DEF job
<1> QED
  BY <1>1, <1>6, <1>7, SamePins

LEMMA ActivateReadSafe ==
  ASSUME IInv, NEW p \in Threads, NEW k \in DOMAIN revisions, ActivateRead(p, k)
  PROVE  IInv'
<1> DEFINE c == revisions[k].code
           now == routes[c].active
           job == [op |-> "activate", code |-> c, route |-> routes[c], of |-> k,
                   row |-> None, old |-> None]
<1>1. UNCHANGED <<rows, loose>> /\ jobs' = [jobs EXCEPT ![p] = job]
  BY DEF ActivateRead
<1>2. TypeOK /\ NumbersDense /\ NamesOK /\ UntouchedOK
  BY DEF IInv
<1>3. /\ revisions[k] \in Revision /\ c \in Codes /\ k \in Revisions /\ k # 0
      /\ k \in RevisionsOf(c)
  BY <1>2, Numbered DEF Revision, Revisions, RevisionsOf
<1>4. routes[c] # None
  BY <1>2, <1>3 DEF NumbersDense
<1>5. routes[c] \in Route
  <2>1. routes[c] \in [active : {0} \cup DOMAIN revisions]
    BY <1>2, <1>3, <1>4 DEF TypeOK
  <2>2. {0} \cup DOMAIN revisions \subseteq 0..MaxRevisions
    BY <1>2, Numbered
  <2> QED
    BY <2>1, <2>2 DEF Route
<1>6. now # 0 => now \in RevisionsOf(c) /\ revisions[now].frozen
  BY <1>2, <1>3, <1>4 DEF NamesOK
<1>7. loose[c] = 0 => now = 0
  BY <1>2, <1>3, <1>4 DEF UntouchedOK
<1> HIDE DEF c, now
<1>8. job \in Activate
  BY <1>3, <1>5 DEF Activate
<1>9. /\ job.op = "activate" /\ job.code = c /\ job.of = k /\ job.row = None /\ job.old = None
      /\ job.route.active = now
  BY DEF now
<1> HIDE DEF job
<1>10. ActivateOK(job)
  BY <1>3, <1>4, <1>6, <1>7, <1>9 DEF ActivateOK
<1> QED
  BY <1>1, <1>8, <1>9, <1>10, SamePins

\* The revision that is read is active only if the one the route named is not.
LEMMA RevisionReadSafe ==
  ASSUME IInv, NEW p \in Threads, RevisionRead(p)
  PROVE  IInv'
<1>1. PICK j : j = jobs[p]
  OBVIOUS
<1>2. PICK c : c = j.code
  OBVIOUS
<1>3. PICK k : k = j.of
  OBVIOUS
<1>4. PICK o : o = j.route.active
  OBVIOUS
<1>5. PICK row : row = revisions[k]
  OBVIOUS
<1>6. PICK job : job = [j EXCEPT !.row = row]
  OBVIOUS
<1>7. /\ UNCHANGED <<rows, loose>> /\ jobs' = [jobs EXCEPT ![p] = job]
      /\ j # None /\ j.op = "activate" /\ j.row = None
  BY <1>1, <1>3, <1>5, <1>6 DEF RevisionRead, Serves
<1>8. TypeOK /\ JobsOK /\ RowsOK /\ OneInOneOut
  BY DEF IInv
<1>9. j \in Activate /\ ActivateOK(j)
  BY <1>1, <1>7, <1>8, Kinds DEF JobsOK
<1>10. /\ c \in Codes /\ routes[c] # None /\ k \in RevisionsOf(c) /\ k # 0
       /\ o \in {0} \cup RevisionsOf(c)
       /\ o # 0 => revisions[o].frozen
       /\ j.old # None => Former(j) /\ j.old.frozen /\ j.old.status # "draft"
       /\ loose[c] = 0 => o = 0
  BY <1>2, <1>3, <1>4, <1>9 DEF ActivateOK
<1>11. /\ k \in DOMAIN revisions /\ row \in Revision
       /\ o # 0 => o \in DOMAIN revisions /\ revisions[o] \in Revision
  BY <1>5, <1>8, <1>10, Numbered DEF RevisionsOf
<1>12. /\ row.status # "draft" <=> row.frozen
       /\ o # 0 => revisions[o].status # "draft"
  BY <1>5, <1>8, <1>10, <1>11 DEF RowsOK
<1>13. ASSUME loose[c] <= 1, o \notin {0, k}, row.status = "active"
       PROVE  revisions[o].status = "superseded"
  <2>1. ActiveOf(c) = {routes[c].active} \ {0}
    BY <1>8, <1>10, <1>13 DEF OneInOneOut
  <2>2. k \in ActiveOf(c)
    BY <1>5, <1>10, <1>13 DEF ActiveOf
  <2>3. o \notin ActiveOf(c) /\ o \in RevisionsOf(c)
    BY <1>10, <1>13, <2>1, <2>2
  <2>4. revisions[o].status # "active"
    BY <2>3 DEF ActiveOf
  <2> QED
    BY <1>11, <1>12, <1>13, <2>4 DEF Revision
<1>14. /\ job \in Activate /\ job.op = "activate" /\ job.code = c /\ job.of = k
       /\ job.route.active = o /\ job.row = row /\ job.old = j.old
  BY <1>2, <1>3, <1>4, <1>6, <1>9, <1>11 DEF Activate
<1>15. Former(job) <=> o \notin {0, k}
  BY <1>14 DEF Former
<1>16. Former(j) <=> o \notin {0, k}
  BY <1>3, <1>4 DEF Former
<1>17. ActivateOK(job)
  BY <1>5, <1>10, <1>12, <1>13, <1>14, <1>15, <1>16 DEF ActivateOK
<1> QED
  BY <1>7, <1>14, <1>17, SamePins

LEMMA FormerReadSafe ==
  ASSUME IInv, NEW p \in Threads, FormerRead(p)
  PROVE  IInv'
<1>1. PICK j : j = jobs[p]
  OBVIOUS
<1>2. PICK o : o = j.route.active
  OBVIOUS
<1>3. PICK old : old = revisions[o]
  OBVIOUS
<1>4. PICK job : job = [j EXCEPT !.old = old]
  OBVIOUS
<1>5. /\ UNCHANGED <<rows, loose>> /\ jobs' = [jobs EXCEPT ![p] = job]
      /\ j # None /\ j.op = "activate" /\ Former(j)
  BY <1>1, <1>2, <1>3, <1>4 DEF FormerRead, Serves
<1>6. TypeOK /\ JobsOK /\ RowsOK
  BY DEF IInv
<1>7. j \in Activate /\ ActivateOK(j)
  BY <1>1, <1>5, <1>6, Kinds DEF JobsOK
<1>8. o # 0 /\ o \in RevisionsOf(j.code) /\ revisions[o].frozen
  BY <1>2, <1>5, <1>7 DEF ActivateOK, Former
<1>9. o \in DOMAIN revisions /\ old \in Revision /\ old.frozen /\ old.status # "draft"
  BY <1>3, <1>6, <1>8, Numbered DEF RevisionsOf, RowsOK
<1>10. /\ job \in Activate /\ job.op = "activate" /\ job.code = j.code /\ job.of = j.of
       /\ job.route = j.route /\ job.row = j.row /\ job.old = old
  BY <1>4, <1>7, <1>9 DEF Activate
<1>11. Former(job)
  BY <1>5, <1>10 DEF Former
<1>12. ActivateOK(job)
  BY <1>5, <1>7, <1>9, <1>10, <1>11 DEF ActivateOK
<1> QED
  BY <1>5, <1>10, <1>12, SamePins

LEMMA PinReadSafe ==
  ASSUME IInv, NEW p \in Threads, NEW i \in Items, PinRead(p, i)
  PROVE  IInv'
<1> DEFINE job == [op |-> "pin", item |-> i, revision |-> Resolved(i)]
           c == RouteOf[i]
<1>1. UNCHANGED <<rows, loose>> /\ jobs' = [jobs EXCEPT ![p] = job]
  BY DEF PinRead
<1>2. TypeOK /\ NamesOK /\ c \in Codes
  BY RoutesAssumption DEF IInv
<1>3. routes[c] # None => routes[c].active \in {0} \cup DOMAIN revisions
  BY <1>2 DEF TypeOK
<1>4. Resolved(i) \in {0} \cup DOMAIN revisions
  <2> DEFINE asked == {k \in RevisionsOf(c) : revisions[k].number = AskedOf[i]}
  <2>1. asked # {} => (CHOOSE k \in asked : TRUE) \in asked
    BY Zenon
  <2>2. asked \subseteq DOMAIN revisions
    BY DEF RevisionsOf
  <2>3. Resolved(i) = IF routes[c] = None THEN 0
                      ELSE IF AskedOf[i] # 0
                        THEN IF asked = {} THEN 0 ELSE CHOOSE k \in asked : TRUE
                      ELSE routes[c].active
    BY DEF Resolved
  <2> HIDE DEF asked, c
  <2> QED
    BY <1>3, <2>1, <2>2, <2>3
<1>5. Resolved(i) # 0 /\ AskedOf[i] = 0 => revisions[Resolved(i)].frozen
  BY <1>2 DEF Resolved, NamesOK
<1>6. job \in Pin
  BY <1>2, <1>4, Numbered DEF Pin
<1>7. PinOK(job) /\ job.op = "pin"
  BY <1>4, <1>5 DEF PinOK
<1> HIDE DEF job
<1> QED
  BY <1>1, <1>6, <1>7, SamePins

LEMMA PinCommitSafe ==
  ASSUME IInv, NEW p \in Threads, PinCommit(p)
  PROVE  IInv'
<1>1. PICK j : j = jobs[p]
  OBVIOUS
<1>2. /\ pins' = [pins EXCEPT ![j.item] = Pinned(j.item, j.revision)]
      /\ jobs' = [jobs EXCEPT ![p] = None]
      /\ UNCHANGED <<routes, revisions, loose>> /\ j # None /\ j.op = "pin"
  BY <1>1 DEF PinCommit, Done, Serves
<1>3. TypeOK /\ JobsOK /\ DefaultPinIsFrozen
  BY DEF IInv
<1>4. j \in Pin /\ PinOK(j)
  BY <1>1, <1>2, <1>3, Kinds DEF JobsOK
<1>5. j.item \in Items
  BY <1>4 DEF Pin
<1>6. /\ Pinned(j.item, j.revision) \in {pins[j.item], j.revision}
      /\ pins \in [Items -> {None, 0} \cup DOMAIN revisions]
  BY <1>3 DEF Pinned, TypeOK
<1>7. pins' \in [Items -> {None, 0} \cup DOMAIN revisions]
  BY <1>2, <1>4, <1>5, <1>6 DEF PinOK
<1>8. ASSUME NEW i \in Items, pins'[i] \notin {None, 0}, AskedOf[i] = 0
      PROVE  revisions[pins'[i]].frozen
  <2>1. CASE pins'[i] = pins[i]
    BY <1>3, <1>8, <2>1 DEF DefaultPinIsFrozen
  <2>2. CASE i = j.item /\ pins'[i] = j.revision
    BY <1>4, <1>8, <2>2 DEF PinOK
  <2> QED
    BY <1>2, <1>6, <2>1, <2>2
<1> QED
  BY <1>2, <1>7, <1>8, SameRows

-----------------------------------------------------------------------------
(* The commit of a new revision. *)

\* A new revision: row is appended as the n-th and one of route c, whose row
\* becomes r.
AddEffect(p, j, n, c, row, r) ==
  /\ j = jobs[p] /\ n = Len(revisions) /\ c = j.code
  /\ j.activate \in BOOLEAN /\ row.code = c
  /\ row.number = Cardinality(RevisionsOf(c)) + 1 /\ row.frozen = j.activate
  /\ row.status = IF j.activate THEN "active" ELSE "draft"
  /\ n + 1 <= MaxRevisions /\ DOMAIN revisions = 1..n
  /\ revisions' \in Seq(Revision) /\ Len(revisions') = n + 1
  /\ DOMAIN revisions' = 1..n \cup {n + 1}
  /\ \A k \in 1..n : revisions'[k] = revisions[k]
  /\ revisions'[n + 1] = row
  /\ routes' = [routes EXCEPT ![c] = r]
  /\ r.active = IF j.activate THEN n + 1
                ELSE IF routes[c] = None THEN 0 ELSE routes[c].active
  /\ loose' = IF j.activate THEN [loose EXCEPT ![c] = @ + 1] ELSE loose
  /\ jobs' = [jobs EXCEPT ![p] = None] /\ pins' = pins

\* What AddCommit does when the unique keys let it.
LEMMA AddRows ==
  ASSUME IInv, NEW p \in Threads, jobs[p] # None,
         jobs[p].op \in {"create", "revise", "import"}, AddCommit(p), Fits(jobs[p])
  PROVE  \E j \in Add, n \in Nat, c \in Codes, row \in Revision,
            r \in [active : {0} \cup DOMAIN revisions'] : AddEffect(p, j, n, c, row, r)
<1>a. PICK j : j = jobs[p]
  OBVIOUS
<1>b. PICK n : n = Len(revisions)
  OBVIOUS
<1>c. PICK row : row = [code |-> j.code, number |-> j.number + 1, frozen |-> j.activate,
                        status |-> IF j.activate THEN "active" ELSE "draft"]
  OBVIOUS
<1> DEFINE k == Len(revisions) + 1
           loaded == IF j.route = None THEN [active |-> 0] ELSE j.route
           old == IF routes[j.code] = None THEN loaded ELSE routes[j.code]
           new == IF j.activate THEN [loaded EXCEPT !.active = k] ELSE loaded
<1>1. TypeOK /\ JobsOK /\ NumbersDense
  BY DEF IInv
<1>2. j \in Add /\ AddOK(j)
  BY <1>1, <1>a, Kinds DEF JobsOK
<1>3. /\ revisions' = Append(revisions, row)
      /\ routes' = [routes EXCEPT ![j.code] = Emit(old, loaded, new)]
      /\ loose' = IF j.activate THEN [loose EXCEPT ![j.code] = @ + 1] ELSE loose
      /\ jobs' = [jobs EXCEPT ![p] = None] /\ pins' = pins
  BY <1>a, <1>b, <1>c DEF AddCommit, Done
<1>4. /\ j.code \in Codes /\ j.activate \in BOOLEAN
      /\ j.number \in 0..Cardinality(RevisionsOf(j.code)) /\ j.number + 1 \notin NumbersOf(j.code)
      /\ n < MaxRevisions
  BY <1>2, <1>a, <1>b DEF Add, AddOK, Fits
<1>5. j.number = Cardinality(RevisionsOf(j.code))
  <2>1. NumbersOf(j.code) = 1..Cardinality(RevisionsOf(j.code))
    BY <1>1, <1>4 DEF NumbersDense
  <2>2. Cardinality(RevisionsOf(j.code)) \in Nat
    BY <1>1, FiniteRows
  <2> QED
    BY <1>4, <2>1, <2>2
<1>6. n \in Nat /\ n + 1 <= MaxRevisions /\ DOMAIN revisions = 1..n /\ revisions \in Seq(Revision)
  BY <1>1, <1>4, <1>b, Numbered DEF TypeOK
<1>7. row \in Revision
  <2>1. j.number + 1 \in 1..MaxRevisions
    <3>0. RevisionsOf(j.code) \subseteq 1..n
      BY <1>6 DEF RevisionsOf
    <3>1. IsFiniteSet(1..n) /\ Cardinality(1..n) = n
      BY <1>6, FS_Interval
    <3>2. Cardinality(RevisionsOf(j.code)) <= n /\ Cardinality(RevisionsOf(j.code)) \in Nat
      BY <1>1, <3>0, <3>1, FS_Subset, FiniteRows
    <3> QED
      BY <1>1, <1>5, <1>6, <3>2, Numbered
  <2> QED
    BY <1>4, <1>c, <2>1 DEF Revision, Revisions
<1>8. /\ revisions' \in Seq(Revision) /\ Len(revisions') = n + 1
      /\ \A i \in 1..n : revisions'[i] = revisions[i]
      /\ revisions'[n + 1] = row
  BY <1>3, <1>6, <1>7, <1>b, AppendProperties
<1>9. DOMAIN revisions' = 1..n \cup {n + 1}
  BY <1>6, <1>8, LenProperties
<1> DEFINE S == {0} \cup DOMAIN revisions'
<1>10. /\ loaded \in [active : S] /\ old \in [active : S] /\ new \in [active : S]
       /\ loaded.active # n + 1
       /\ new.active = IF j.activate THEN n + 1 ELSE loaded.active
       /\ old.active = IF routes[j.code] = None THEN 0 ELSE routes[j.code].active
  <2>1. routes[j.code] # None => routes[j.code] \in [active : {0} \cup 1..n]
    BY <1>1, <1>4, <1>6 DEF TypeOK
  <2>2. j.route # None =>
          /\ j.route \in [active : {0} \cup 1..n]
          /\ routes[j.code] # None
    BY <1>2, <1>6 DEF Add, Route, AddOK
  <2>3. loaded \in [active : {0} \cup 1..n] /\ loaded.active # n + 1
    BY <1>6, <2>2
  <2>4. old \in [active : {0} \cup 1..n]
    BY <2>1, <2>3
  <2>5. old.active = IF routes[j.code] = None THEN 0 ELSE routes[j.code].active
    BY <2>2
  <2>6. new \in [active : S] /\ new.active = IF j.activate THEN n + 1 ELSE loaded.active
    BY <1>4, <1>9, <1>b, <2>3
  <2> QED
    BY <1>9, <2>3, <2>4, <2>5, <2>6
<1> DEFINE r == Emit(old, loaded, new)
<1>11. /\ r \in [active : S]
       /\ r.active = IF new.active # loaded.active THEN new.active ELSE old.active
  <2> HIDE DEF loaded, old, new, S
  <2> QED
    BY <1>10, EmitRoute
<1> HIDE DEF loaded, old, new, r
<1>12. \E x \in [active : S] :
         /\ routes' = [routes EXCEPT ![j.code] = x]
         /\ x.active = IF j.activate THEN n + 1
                       ELSE IF routes[j.code] = None THEN 0 ELSE routes[j.code].active
  <2>1. routes' = [routes EXCEPT ![j.code] = r]
    BY <1>3 DEF r
  <2>2. r.active = IF j.activate THEN n + 1
                   ELSE IF routes[j.code] = None THEN 0 ELSE routes[j.code].active
    BY <1>4, <1>10, <1>11
  <2> QED
    BY <1>11, <2>1, <2>2
<1>13. PICK x \in [active : S] :
         /\ routes' = [routes EXCEPT ![j.code] = x]
         /\ x.active = IF j.activate THEN n + 1
                       ELSE IF routes[j.code] = None THEN 0 ELSE routes[j.code].active
  BY <1>12
<1>14. PICK c : c = j.code
  OBVIOUS
<1>15. /\ row.code = c /\ row.number = Cardinality(RevisionsOf(c)) + 1
       /\ row.frozen = j.activate /\ row.status = IF j.activate THEN "active" ELSE "draft"
  BY <1>5, <1>14, <1>c
<1>16. j \in Add /\ n \in Nat /\ c \in Codes /\ row \in Revision
  BY <1>2, <1>4, <1>6, <1>7, <1>14
<1>17. x \in [active : {0} \cup DOMAIN revisions']
  BY <1>13 DEF S
<1>18. AddEffect(p, j, n, c, row, x)
  BY <1>3, <1>4, <1>6, <1>8, <1>9, <1>13, <1>14, <1>15, <1>a, <1>b DEF AddEffect
<1> QED
  BY <1>16, <1>17, <1>18

LEMMA AddCommitSafe ==
  ASSUME IInv, NEW p \in Threads, AddCommit(p)
  PROVE  IInv'
<1>1. PICK j : j = jobs[p]
  OBVIOUS
<1>2. j # None /\ j.op \in {"create", "revise", "import"}
  BY <1>1 DEF AddCommit, Serves
<1>3. CASE ~Fits(j)
  <2>1. Refuse(p)
    BY <1>1, <1>3 DEF AddCommit
  <2> QED
    BY <2>1, RefuseSafe
<1>4. CASE Fits(j)
  <2>b. PICK it \in Add, n \in Nat, c \in Codes, row \in Revision,
            r \in [active : {0} \cup DOMAIN revisions'] : AddEffect(p, it, n, c, row, r)
    BY <1>1, <1>2, <1>4, AddRows
  <2>0. AddEffect(p, j, n, c, row, r) /\ it = j
    BY <1>1, <2>b DEF AddEffect
  <2>a. /\ c \in Codes /\ j.activate \in BOOLEAN /\ row \in Revision
        /\ n \in Nat /\ n + 1 <= MaxRevisions /\ DOMAIN revisions = 1..n
        /\ revisions' \in Seq(Revision) /\ Len(revisions') = n + 1
        /\ DOMAIN revisions' = 1..n \cup {n + 1}
        /\ \A k \in 1..n : revisions'[k] = revisions[k]
        /\ revisions'[n + 1] = row
        /\ loose' = IF j.activate THEN [loose EXCEPT ![c] = @ + 1] ELSE loose
        /\ jobs' = [jobs EXCEPT ![p] = None] /\ pins' = pins
    BY <2>0 DEF AddEffect
  <2>4. /\ r \in [active : {0} \cup DOMAIN revisions']
        /\ routes' = [routes EXCEPT ![c] = r]
        /\ r.active = IF j.activate THEN n + 1
                      ELSE IF routes[c] = None THEN 0 ELSE routes[c].active
    BY <2>0 DEF AddEffect
  <2>5. /\ TypeOK /\ NumbersDense /\ OneInOneOut /\ DefaultPinIsFrozen
        /\ RowsOK /\ NamesOK /\ UntouchedOK /\ JobsOK
    BY DEF IInv
  <2>6. /\ row.code = c /\ row.number = Cardinality(RevisionsOf(c)) + 1
        /\ row.frozen = j.activate
        /\ row.status = IF j.activate THEN "active" ELSE "draft"
    BY <2>0 DEF AddEffect
  <2>7. n + 1 \notin 1..n
    BY <2>a
  <2>8. \A d \in Codes : RevisionsOf(d)' = IF d = c THEN RevisionsOf(d) \cup {n + 1}
                                           ELSE RevisionsOf(d)
    <3>1. ASSUME NEW d \in Codes, NEW k
          PROVE  k \in RevisionsOf(d)' <=> k \in RevisionsOf(d) \/ (d = c /\ k = n + 1)
      <4>1. k \in RevisionsOf(d)' <=> k \in DOMAIN revisions' /\ revisions'[k].code = d
        BY DEF RevisionsOf
      <4>2. k \in RevisionsOf(d) <=> k \in 1..n /\ revisions[k].code = d
        BY <2>a DEF RevisionsOf
      <4> QED
        BY <2>a, <2>6, <2>7, <4>1, <4>2
    <3> QED
      BY <3>1
  <2>9. /\ \A d \in Codes : Cardinality(RevisionsOf(d)) \in Nat
        /\ \A d \in Codes : n + 1 \notin RevisionsOf(d) /\ RevisionsOf(d) \subseteq 1..n
        /\ \A d \in Codes : Cardinality(RevisionsOf(d)') =
             IF d = c THEN Cardinality(RevisionsOf(d)) + 1 ELSE Cardinality(RevisionsOf(d))
    <3>1. \A d \in Codes : n + 1 \notin RevisionsOf(d) /\ RevisionsOf(d) \subseteq 1..n
      BY <2>a, <2>7 DEF RevisionsOf
    <3>2. \A d \in Codes : IsFiniteSet(RevisionsOf(d)) /\ Cardinality(RevisionsOf(d)) \in Nat
      BY <2>5, FiniteRows
    <3>3. Cardinality(RevisionsOf(c) \cup {n + 1}) = Cardinality(RevisionsOf(c)) + 1
      BY <2>a, <3>1, <3>2, FS_AddElement
    <3> QED
      BY <2>a, <2>8, <3>1, <3>2, <3>3
  <2>10. routes' \in [Codes -> [active : {0} \cup DOMAIN revisions'] \cup {None}]
         /\ routes'[c] = r /\ r # None
         /\ \A d \in Codes : d # c => routes'[d] = routes[d]
    <3>1. routes \in [Codes -> [active : {0} \cup DOMAIN revisions'] \cup {None}]
      BY <2>5, <2>a DEF TypeOK
    <3>2. r # None
      <4>1. {0} \cup DOMAIN revisions' \subseteq 0..MaxRevisions
        BY <2>a, <2>5, Numbered
      <4> QED
        BY <2>4, <4>1, NoneIsNoRow DEF Route
    <3> QED
      BY <2>4, <2>a, <3>1, <3>2
  <2>11. /\ loose' \in [Codes -> Nat]
         /\ loose'[c] = IF j.activate THEN loose[c] + 1 ELSE loose[c]
         /\ \A d \in Codes : loose[d] \in Nat
         /\ \A d \in Codes : d # c => loose'[d] = loose[d]
    <3>1. loose \in [Codes -> Nat]
      BY <2>5 DEF TypeOK
    <3> QED
      BY <2>a, <3>1
  <2>12. TypeOK'
    BY <2>5, <2>a, <2>10, <2>11, OneJob DEF TypeOK
  <2>13. NumbersDense'
    <3>1. ASSUME NEW d \in Codes
          PROVE  /\ NumbersOf(d)' = 1..Cardinality(RevisionsOf(d)')
                 /\ routes'[d] = None => RevisionsOf(d)' = {}
      <4>1. /\ NumbersOf(d) = 1..Cardinality(RevisionsOf(d))
            /\ routes[d] = None => RevisionsOf(d) = {}
            /\ Cardinality(RevisionsOf(d)) \in Nat
        BY <2>5, <2>9 DEF NumbersDense
      <4>2. NumbersOf(d)' = {revisions'[k].number : k \in RevisionsOf(d)'}
        BY DEF NumbersOf
      <4>3. {revisions'[k].number : k \in RevisionsOf(d)} = NumbersOf(d)
        BY <2>a, <2>9 DEF NumbersOf
      <4>4. CASE d = c
        <5>1. NumbersOf(d)' = NumbersOf(d) \cup {revisions'[n + 1].number}
          BY <2>8, <4>2, <4>3, <4>4
        <5>2. NumbersOf(d)' = 1..(Cardinality(RevisionsOf(d)) + 1)
          BY <2>a, <2>6, <4>1, <4>4, <5>1
        <5> QED
          BY <2>9, <2>10, <4>4, <5>2
      <4>5. CASE d # c
        BY <2>8, <2>10, <4>1, <4>2, <4>3, <4>5
      <4> QED
        BY <4>4, <4>5
    <3> QED
      BY <3>1 DEF NumbersDense
  <2>14. \A d \in Codes : ActiveOf(d)' = IF d = c /\ j.activate THEN ActiveOf(d) \cup {n + 1}
                                         ELSE ActiveOf(d)
    <3>1. ASSUME NEW d \in Codes, NEW k
          PROVE  k \in ActiveOf(d)' <=> k \in ActiveOf(d) \/ (d = c /\ j.activate /\ k = n + 1)
      <4>1. k \in ActiveOf(d)' <=> k \in RevisionsOf(d)' /\ revisions'[k].status = "active"
        BY DEF ActiveOf
      <4>2. k \in ActiveOf(d) <=> k \in RevisionsOf(d) /\ revisions[k].status = "active"
        BY DEF ActiveOf
      <4>3. k \in RevisionsOf(d)' <=> k \in RevisionsOf(d) \/ (d = c /\ k = n + 1)
        BY <2>8
      <4>4. k \in RevisionsOf(d) => revisions'[k] = revisions[k] /\ k # n + 1
        BY <2>a, <2>9
      <4>5. revisions'[n + 1].status = "active" <=> j.activate
        BY <2>a, <2>6
      <4> QED
        BY <4>1, <4>2, <4>3, <4>4, <4>5
    <3> QED
      BY <3>1
  <2>15. OneInOneOut'
    <3>1. ASSUME NEW d \in Codes, routes'[d] # None, loose'[d] <= 1
          PROVE  ActiveOf(d)' = {routes'[d].active} \ {0}
      <4>1. CASE d # c
        BY <2>5, <2>10, <2>11, <2>14, <3>1, <4>1 DEF OneInOneOut
      <4>2. CASE d = c /\ j.activate
        <5>1. loose[c] = 0
          BY <2>a, <2>11, <3>1, <4>2
        <5>2. ActiveOf(c) = {}
          BY <2>a, <2>5, <5>1 DEF UntouchedOK
        <5>3. routes'[c].active = n + 1 /\ n + 1 # 0
          BY <2>a, <2>4, <2>10, <4>2
        <5> QED
          BY <2>a, <2>14, <4>2, <5>2, <5>3
      <4>3. CASE d = c /\ ~j.activate /\ routes[c] = None
        <5>1. ActiveOf(c) = {}
          BY <2>a, <2>5, <4>3 DEF NumbersDense, ActiveOf
        <5>2. routes'[c].active = 0
          BY <2>4, <2>10, <4>3
        <5> QED
          BY <2>a, <2>14, <4>3, <5>1, <5>2
      <4>4. CASE d = c /\ ~j.activate /\ routes[c] # None
        <5>1. ActiveOf(c) = {routes[c].active} \ {0}
          BY <2>a, <2>5, <2>11, <3>1, <4>4 DEF OneInOneOut
        <5>2. routes'[c].active = routes[c].active
          BY <2>4, <2>10, <4>4
        <5> QED
          BY <2>a, <2>14, <4>4, <5>1, <5>2
      <4> QED
        BY <4>1, <4>2, <4>3, <4>4
    <3>2. ASSUME NEW d \in Codes
          PROVE  Cardinality(ActiveOf(d)') <= loose'[d]
      <4>1. /\ Cardinality(ActiveOf(d)) <= loose[d] /\ loose[d] \in Nat
            /\ IsFiniteSet(ActiveOf(d)) /\ Cardinality(ActiveOf(d)) \in Nat
        BY <2>5, <2>11, FiniteActive DEF OneInOneOut
      <4>2. CASE d = c /\ j.activate
        <5>1. ActiveOf(d)' \subseteq ActiveOf(d) \cup {n + 1} /\ loose'[d] = loose[d] + 1
          BY <2>11, <2>14, <4>2
        <5>2. PICK T : T = ActiveOf(d)'
          OBVIOUS
        <5>3. Cardinality(T) <= Cardinality(ActiveOf(d)) + 1
          BY <4>1, <5>1, <5>2, OneIn
        <5>4. Cardinality(T) \in Nat
          BY <4>1, <5>1, <5>2, FS_AddElement, FS_Subset, FS_CardinalityType
        <5> QED
          BY <4>1, <5>1, <5>2, <5>3, <5>4
      <4>3. CASE ~(d = c /\ j.activate)
        <5>1. ActiveOf(d)' = ActiveOf(d) /\ loose'[d] = loose[d]
          BY <2>11, <2>14, <4>3
        <5> QED
          BY <4>1, <5>1
      <4> QED
        BY <4>2, <4>3
    <3> QED
      BY <3>1, <3>2 DEF OneInOneOut
  <2>16. DefaultPinIsFrozen'
    <3>1. \A i \in Items : pins[i] \in {None, 0} \cup 1..n
      BY <2>5, <2>a DEF TypeOK
    <3> QED
      BY <2>5, <2>a, <3>1 DEF DefaultPinIsFrozen
  <2>17. RowsOK'
    BY <2>5, <2>a, <2>6 DEF RowsOK
  <2>18. NamesOK'
    <3>1. ASSUME NEW d \in Codes, routes'[d] # None, routes'[d].active # 0
          PROVE  routes'[d].active \in RevisionsOf(d)' /\ revisions'[routes'[d].active].frozen
      <4>1. CASE d = c /\ j.activate
        <5>1. routes'[d].active = n + 1
          BY <2>4, <2>10, <4>1
        <5> QED
          BY <2>a, <2>6, <2>8, <4>1, <5>1
      <4>2. CASE ~(d = c /\ j.activate)
        <5>1. routes[d] # None /\ routes'[d].active = routes[d].active
          BY <2>4, <2>10, <3>1, <4>2
        <5>2. routes[d].active \in RevisionsOf(d) /\ revisions[routes[d].active].frozen
          BY <2>5, <3>1, <5>1 DEF NamesOK
        <5> QED
          BY <2>a, <2>8, <2>9, <5>1, <5>2
      <4> QED
        BY <4>1, <4>2
    <3> QED
      BY <3>1 DEF NamesOK
  <2>19. UntouchedOK'
    <3>1. ASSUME NEW d \in Codes, loose'[d] = 0
          PROVE  /\ ActiveOf(d)' = {}
                 /\ \A k \in RevisionsOf(d)' : revisions'[k].status = "draft"
                 /\ routes'[d] # None => routes'[d].active = 0
      <4>1. loose[d] = 0 /\ ~(d = c /\ j.activate)
        BY <2>11, <3>1
      <4>2. /\ ActiveOf(d) = {}
            /\ \A k \in RevisionsOf(d) : revisions[k].status = "draft"
            /\ routes[d] # None => routes[d].active = 0
        BY <2>5, <4>1 DEF UntouchedOK
      <4>3. ActiveOf(d)' = {}
        BY <2>14, <4>1, <4>2
      <4>4. \A k \in RevisionsOf(d)' : revisions'[k].status = "draft"
        BY <2>a, <2>6, <2>8, <2>9, <4>1, <4>2
      <4>5. routes'[d] # None => routes'[d].active = 0
        BY <2>4, <2>10, <4>1, <4>2
      <4> QED
        BY <4>3, <4>4, <4>5
    <3> QED
      BY <3>1 DEF UntouchedOK
  <2>20. JobsOK'
    <3>1. \A d \in Codes :
           /\ RevisionsOf(d) \subseteq RevisionsOf(d)'
           /\ Cardinality(RevisionsOf(d)) <= Cardinality(RevisionsOf(d)')
           /\ Cardinality(RevisionsOf(d)') \in Nat
           /\ routes[d] # None => routes'[d] # None
           /\ loose[d] \in Nat /\ loose'[d] \in Nat /\ loose[d] <= loose'[d]
      BY <2>8, <2>9, <2>10, <2>11
    <3>2. /\ DOMAIN revisions \subseteq DOMAIN revisions'
          /\ \A k \in DOMAIN revisions :
               /\ revisions[k].frozen => revisions'[k].frozen
               /\ revisions[k].status = "superseded" => revisions'[k].status = "superseded"
      BY <2>a
    <3> QED
      BY <2>5, <2>a, <3>1, <3>2, JobsKept
  <2> QED
    BY <2>12, <2>13, <2>15, <2>16, <2>17, <2>18, <2>19, <2>20 DEF IInv
<1> QED
  BY <1>3, <1>4

-----------------------------------------------------------------------------
(* The commit of an activation. *)

\* A write that the trigger lets through moves a revision on, never back.
LEMMA Update ==
  ASSUME NEW row \in Revision, NEW loaded \in Revision, NEW new \in Revision,
         row.status # "draft" <=> row.frozen, loaded.status # "draft" <=> loaded.frozen,
         loaded.frozen => row.frozen,
         new.code = loaded.code, new.number = loaded.number, new.frozen,
         new.status # "draft", Passes(row, loaded, new)
  PROVE  LET e == Emit(row, loaded, new) IN
         /\ e \in Revision /\ e.code = row.code /\ e.number = row.number
         /\ e.frozen /\ (e.status # "draft" <=> e.frozen)
         /\ row.status = "superseded" => e.status = "superseded"
<1>0. PICK e : e = Emit(row, loaded, new)
  OBVIOUS
<1>1. /\ e \in Revision /\ e.code = row.code /\ e.number = row.number
      /\ e.status = IF new.status # loaded.status THEN new.status ELSE row.status
      /\ e.frozen = IF new.frozen # loaded.frozen THEN new.frozen ELSE row.frozen
  <2>1. LET x == Emit(row, loaded, new) IN
        /\ x \in Revision
        /\ x.code = IF new.code # loaded.code THEN new.code ELSE row.code
        /\ x.number = IF new.number # loaded.number THEN new.number ELSE row.number
        /\ x.status = IF new.status # loaded.status THEN new.status ELSE row.status
        /\ x.frozen = IF new.frozen # loaded.frozen THEN new.frozen ELSE row.frozen
    BY EmitRevision, Zenon
  <2> QED
    BY <1>0, <2>1, Zenon
<1>2. new = loaded \/ Allowed(row, e)
  BY <1>0 DEF Passes
<1>3. /\ row.frozen \in BOOLEAN /\ loaded.frozen \in BOOLEAN /\ new.frozen \in BOOLEAN
  BY DEF Revision
<1>4. CASE new = loaded
  <2>1. e.status = row.status /\ e.frozen = row.frozen /\ row.frozen
    BY <1>1, <1>4
  <2> QED
    BY <1>0, <1>1, <2>1
<1>5. CASE new # loaded /\ row.frozen
  <2>1. row.status = "active" /\ e = [row EXCEPT !.status = "superseded"]
    BY <1>2, <1>5 DEF Allowed
  <2>2. e.status = "superseded" /\ e.frozen = row.frozen
    BY <2>1 DEF Revision
  <2> QED
    BY <1>0, <1>1, <1>5, <2>1, <2>2
<1>6. CASE new # loaded /\ ~row.frozen
  <2>1. ~loaded.frozen /\ loaded.status = "draft" /\ row.status = "draft"
    BY <1>6
  <2>2. e.frozen = new.frozen /\ e.status = new.status
    BY <1>1, <1>3, <2>1
  <2> QED
    BY <1>0, <1>1, <2>1, <2>2
<1> QED
  BY <1>4, <1>5, <1>6

\* A change of the status is let through only from draft, or from active to
\* superseded.
LEMMA UpdateStatus ==
  ASSUME NEW row \in Revision, NEW loaded \in Revision, NEW new \in Revision,
         new.status # loaded.status, Passes(row, loaded, new)
  PROVE  LET e == Emit(row, loaded, new) IN
         /\ e.status = new.status
         /\ row.frozen => row.status = "active" /\ new.status = "superseded"
<1> DEFINE e == Emit(row, loaded, new)
<1>1. e.status = new.status
  BY EmitRevision
<1>2. Allowed(row, e)
  BY DEF Passes
<1> HIDE DEF e
<1>3. row.frozen => row.status = "active" /\ e.status = "superseded"
  BY <1>2 DEF Allowed, Revision
<1> QED
  BY <1>1, <1>3 DEF e

\* A row is as it was if the columns that were read are written back.
LEMMA Same ==
  ASSUME NEW row \in Revision, NEW loaded
  PROVE  Emit(row, loaded, loaded) = row
<1>1. Emit(row, loaded, loaded) = [x \in DOMAIN row |-> row[x]]
  BY DEF Emit
<1>2. row = [x \in DOMAIN row |-> row[x]]
  BY DEF Revision
<1> QED
  BY <1>1, <1>2

\* What ActivateCommit does when the trigger lets it.
LEMMA ActivateRows ==
  ASSUME IInv, NEW p \in Threads, ActivateCommit(p), ~Refuse(p),
         NEW c, NEW k, NEW o, c = jobs[p].code, k = jobs[p].of, o = jobs[p].route.active
  PROVE  /\ ActivateOK(jobs[p]) /\ c \in Codes /\ k \in RevisionsOf(c)
         /\ o \in {0} \cup RevisionsOf(c)
         /\ revisions' \in Seq(Revision) /\ Len(revisions') = Len(revisions)
         /\ DOMAIN revisions' = DOMAIN revisions
         /\ \A i \in DOMAIN revisions :
              /\ revisions'[i].code = revisions[i].code
              /\ revisions'[i].number = revisions[i].number
              /\ revisions'[i].status # "draft" <=> revisions'[i].frozen
              /\ revisions[i].frozen => revisions'[i].frozen
              /\ revisions[i].status = "superseded" => revisions'[i].status = "superseded"
              /\ i \notin {k, o} => revisions'[i] = revisions[i]
              /\ i # k /\ revisions'[i].status = "active" => revisions[i].status = "active"
         /\ revisions'[k].frozen
         /\ o = k => revisions'[k] = revisions[k]
         /\ loose[c] = 0 => revisions'[k].status = "active"
         /\ o # k /\ ~Loose(jobs[p]) =>
              /\ o # 0 /\ revisions[o].status = "active" /\ revisions'[o].status = "superseded"
              /\ loose[c] <= 1 => revisions'[k].status = "active"
         /\ \E r \in [active : {0} \cup DOMAIN revisions] :
              /\ routes' = [routes EXCEPT ![c] = r]
              /\ r.active = IF o # k THEN k ELSE routes[c].active
         /\ loose' = IF Loose(jobs[p]) THEN [loose EXCEPT ![c] = @ + 1] ELSE loose
         /\ jobs' = [jobs EXCEPT ![p] = None] /\ pins' = pins
<1>1. PICK j : j = jobs[p]
  OBVIOUS
<1> DEFINE new == [j.row EXCEPT !.status = "active", !.frozen = TRUE]
           gone == [j.old EXCEPT !.status = "superseded"]
<1>2. TypeOK /\ JobsOK /\ RowsOK /\ UntouchedOK
  BY DEF IInv
<1>3. j # None /\ j.op = "activate" /\ j \in Activate /\ ActivateOK(j)
  BY <1>1, <1>2, Kinds DEF ActivateCommit, Serves, JobsOK
<1>4. /\ Passes(revisions[k], j.row, new) /\ j.row # None
      /\ Former(j) => j.old # None /\ Passes(revisions[o], j.old, gone)
      /\ revisions' = [i \in DOMAIN revisions |->
           IF i = k THEN Emit(revisions[i], j.row, new)
           ELSE IF i = o THEN Emit(revisions[i], j.old, gone)
           ELSE revisions[i]]
      /\ routes' = [routes EXCEPT ![c] =
           Emit(routes[c], j.route, [j.route EXCEPT !.active = k])]
      /\ loose' = IF Loose(jobs[p]) THEN [loose EXCEPT ![c] = @ + 1] ELSE loose
      /\ jobs' = [jobs EXCEPT ![p] = None] /\ pins' = pins
  BY <1>1 DEF ActivateCommit, Done
<1>5. /\ c \in Codes /\ routes[c] # None /\ k \in RevisionsOf(c) /\ k # 0
      /\ o \in {0} \cup RevisionsOf(c)
      /\ j.row.status # "draft" <=> j.row.frozen
      /\ j.row.frozen => revisions[k].frozen
      /\ o = k => j.row.frozen
      /\ loose[c] <= 1 /\ Former(j) /\ j.row.status = "active" =>
           revisions[o].status = "superseded"
      /\ j.old # None <=> Former(j)
      /\ j.old # None => j.old.frozen /\ j.old.status # "draft"
      /\ o # 0 => revisions[o].frozen
      /\ loose[c] = 0 => o = 0
  BY <1>1, <1>3, <1>4 DEF ActivateOK
<1>b. /\ Former(j) <=> o \notin {0, k}
      /\ Loose(j) <=> o = 0 \/ (Former(j) /\ j.old.status = "superseded")
  BY <1>1 DEF Former, Loose
<1>6. /\ j.row \in Revision /\ j.old \in Revision \cup {None} /\ j.route \in Route
  BY <1>3, <1>4 DEF Activate
<1>7. /\ DOMAIN revisions = 1..Len(revisions) /\ Len(revisions) \in Nat
      /\ \A i \in DOMAIN revisions : revisions[i] \in Revision
      /\ k \in DOMAIN revisions /\ (o # 0 => o \in DOMAIN revisions)
      /\ \A i \in DOMAIN revisions : revisions[i].status # "draft" <=> revisions[i].frozen
  BY <1>2, <1>5, Numbered DEF RevisionsOf, RowsOK
<1>8. /\ new \in Revision /\ new.code = j.row.code /\ new.number = j.row.number
      /\ new.frozen = TRUE /\ new.status = "active"
  BY <1>6 DEF Revision
<1>9. j.old # None =>
        /\ gone \in Revision /\ gone.code = j.old.code /\ gone.number = j.old.number
        /\ gone.frozen = j.old.frozen /\ gone.status = "superseded"
        /\ j.old \in Revision
  BY <1>6 DEF Revision
<1>a. j.row.status = "active" => new = j.row
  BY <1>5, <1>6 DEF Revision
<1> HIDE DEF new, gone
<1> DEFINE e == Emit(revisions[k], j.row, new)
           f == Emit(revisions[o], j.old, gone)
<1>10. /\ e \in Revision /\ e.code = revisions[k].code /\ e.number = revisions[k].number
       /\ e.frozen /\ (e.status # "draft" <=> e.frozen)
       /\ revisions[k].status = "superseded" => e.status = "superseded"
  BY <1>4, <1>5, <1>6, <1>7, <1>8, Update
<1>11. ASSUME j.old # None
       PROVE  /\ f \in Revision /\ f.code = revisions[o].code /\ f.number = revisions[o].number
              /\ f.frozen /\ (f.status # "draft" <=> f.frozen)
              /\ revisions[o].status = "superseded" => f.status = "superseded"
  <2>1. o # 0 /\ o \in DOMAIN revisions /\ revisions[o] \in Revision
    BY <1>5, <1>7, <1>11, <1>b
  <2>2. j.old.status # "draft" <=> j.old.frozen
    BY <1>5, <1>11
  <2> QED
    BY <1>4, <1>5, <1>7, <1>9, <1>11, <2>1, <2>2, Update
<1>12. ASSUME j.row.status # "active"
       PROVE  e.status = "active" /\ ~revisions[k].frozen
  <2>1. new.status # j.row.status
    BY <1>8, <1>12
  <2>2. revisions[k] \in Revision /\ Passes(revisions[k], j.row, new)
    BY <1>4, <1>7
  <2> QED
    BY <1>6, <1>8, <2>1, <2>2, UpdateStatus DEF e
<1>13. ASSUME Former(j)
       PROVE  /\ j.old.status # "superseded" =>
                   revisions[o].status = "active" /\ f.status = "superseded"
              /\ j.old.status = "superseded" => f = revisions[o]
  <2>1. j.old # None /\ revisions[o].frozen /\ o \in DOMAIN revisions /\ j.old \in Revision
    BY <1>5, <1>7, <1>9, <1>13, <1>b
  <2>2. ASSUME j.old.status # "superseded"
        PROVE  revisions[o].status = "active" /\ f.status = "superseded"
    <3>1. gone.status # j.old.status /\ gone \in Revision /\ gone.status = "superseded"
      BY <1>9, <2>1, <2>2
    <3> QED
      BY <1>4, <1>7, <1>13, <2>1, <3>1, UpdateStatus DEF f
  <2>3. ASSUME j.old.status = "superseded"
        PROVE  f = revisions[o]
    <3>1. gone = j.old
      BY <2>1, <2>3 DEF gone, Revision
    <3> QED
      BY <1>7, <2>1, <3>1, Same DEF f
  <2> QED
    BY <2>2, <2>3
<1>14. ASSUME j.row.status = "active"
       PROVE  e = revisions[k]
  BY <1>7, <1>14, <1>a, Same DEF e
<1>c. o = k => e = revisions[k]
  BY <1>5, <1>12, <1>14
<1>d. loose[c] = 0 => e.status = "active"
  <2>1. ASSUME loose[c] = 0
        PROVE  ~revisions[k].frozen
    BY <1>2, <1>5, <1>7, <2>1 DEF UntouchedOK
  <2> QED
    BY <1>5, <1>12, <2>1
<1>15. /\ DOMAIN revisions' = DOMAIN revisions
       /\ revisions'[k] = e
       /\ Former(j) => revisions'[o] = f
       /\ \A i \in DOMAIN revisions : i \notin {k, o} => revisions'[i] = revisions[i]
       /\ ~Former(j) => \A i \in DOMAIN revisions : i # k => revisions'[i] = revisions[i]
  <2>1. /\ Former(j) => o # k /\ o \in DOMAIN revisions
        /\ 0 \notin DOMAIN revisions
    BY <1>5, <1>7, <1>b
  <2> HIDE DEF e, f
  <2>2. revisions' = [i \in DOMAIN revisions |->
           IF i = k THEN Emit(revisions[i], j.row, new)
           ELSE IF i = o THEN Emit(revisions[i], j.old, gone)
           ELSE revisions[i]]
    BY <1>4
  <2>3. revisions'[k] = Emit(revisions[k], j.row, new)
    BY <1>7, <2>2
  <2>4. Former(j) => revisions'[o] = Emit(revisions[o], j.old, gone)
    BY <2>1, <2>2
  <2>5. ~Former(j) => o \in {0, k}
    BY <1>b
  <2> QED
    BY <2>1, <2>2, <2>3, <2>4, <2>5 DEF e, f
<1> HIDE DEF e, f
<1>16. ASSUME NEW i \in DOMAIN revisions
       PROVE  /\ revisions'[i] \in Revision
              /\ revisions'[i].code = revisions[i].code
              /\ revisions'[i].number = revisions[i].number
              /\ revisions'[i].status # "draft" <=> revisions'[i].frozen
              /\ revisions[i].frozen => revisions'[i].frozen
              /\ revisions[i].status = "superseded" => revisions'[i].status = "superseded"
              /\ i \notin {k, o} => revisions'[i] = revisions[i]
              /\ i # k /\ revisions'[i].status = "active" => revisions[i].status = "active"
  <2>1. CASE i = k
    BY <1>10, <1>15, <2>1
  <2>2. CASE i = o /\ Former(j)
    BY <1>5, <1>11, <1>13, <1>15, <2>2
  <2>3. CASE revisions'[i] = revisions[i]
    BY <1>7, <2>3
  <2> QED
    BY <1>15, <2>1, <2>2, <2>3
<1>17. /\ revisions' \in Seq(Revision) /\ Len(revisions') = Len(revisions)
  <2>1. revisions' = [i \in 1..Len(revisions) |-> revisions'[i]]
    BY <1>4, <1>7
  <2>2. revisions' \in [1..Len(revisions) -> Revision]
    BY <1>7, <1>16, <2>1
  <2> QED
    BY <1>7, <2>2
<1>18. \E r \in [active : {0} \cup DOMAIN revisions] :
         /\ routes' = [routes EXCEPT ![c] = r]
         /\ r.active = IF o # k THEN k ELSE routes[c].active
  <2> DEFINE S == {0} \cup DOMAIN revisions
             to == [j.route EXCEPT !.active = k]
  <2>1. routes[c] \in [active : S]
    BY <1>2, <1>5 DEF TypeOK
  <2>2. j.route \in [active : S] /\ j.route.active = o
    BY <1>1, <1>5, <1>6, <1>7 DEF Route
  <2>3. to \in [active : S] /\ to.active = k
    BY <1>7, <2>2
  <2> HIDE DEF S, to
  <2>4. /\ Emit(routes[c], j.route, to) \in [active : S]
        /\ Emit(routes[c], j.route, to).active = IF k # o THEN k ELSE routes[c].active
    BY <2>1, <2>2, <2>3, EmitRoute
  <2>5. routes' = [routes EXCEPT ![c] = Emit(routes[c], j.route, to)]
    BY <1>4 DEF to
  <2> QED
    BY <2>4, <2>5 DEF S
<1>19. \A i \in DOMAIN revisions :
         /\ revisions'[i].code = revisions[i].code
         /\ revisions'[i].number = revisions[i].number
         /\ revisions'[i].status # "draft" <=> revisions'[i].frozen
         /\ revisions[i].frozen => revisions'[i].frozen
         /\ revisions[i].status = "superseded" => revisions'[i].status = "superseded"
         /\ i \notin {k, o} => revisions'[i] = revisions[i]
         /\ i # k /\ revisions'[i].status = "active" => revisions[i].status = "active"
  BY <1>16
<1>20. revisions'[k].frozen
  BY <1>10, <1>15
<1>21. /\ o = k => revisions'[k] = revisions[k]
       /\ loose[c] = 0 => revisions'[k].status = "active"
       /\ o # k /\ ~Loose(j) =>
            /\ o # 0 /\ revisions[o].status = "active" /\ revisions'[o].status = "superseded"
            /\ loose[c] <= 1 => revisions'[k].status = "active"
  BY <1>5, <1>12, <1>13, <1>15, <1>b, <1>c, <1>d
<1> QED
  BY <1>1, <1>3, <1>4, <1>5, <1>15, <1>17, <1>18, <1>19, <1>20, <1>21

LEMMA ActivateCommitSafe ==
  ASSUME IInv, NEW p \in Threads, ActivateCommit(p)
  PROVE  IInv'
<1>1. CASE Refuse(p)
  BY <1>1, RefuseSafe
<1>2. CASE ~Refuse(p)
  <2>1. PICK c : c = jobs[p].code
    OBVIOUS
  <2>2. PICK k : k = jobs[p].of
    OBVIOUS
  <2>3. PICK o : o = jobs[p].route.active
    OBVIOUS
  <2>4. /\ ActivateOK(jobs[p]) /\ c \in Codes /\ k \in RevisionsOf(c)
        /\ o \in {0} \cup RevisionsOf(c)
        /\ revisions' \in Seq(Revision) /\ Len(revisions') = Len(revisions)
        /\ DOMAIN revisions' = DOMAIN revisions
        /\ \A i \in DOMAIN revisions :
             /\ revisions'[i].code = revisions[i].code
             /\ revisions'[i].number = revisions[i].number
             /\ revisions'[i].status # "draft" <=> revisions'[i].frozen
             /\ revisions[i].frozen => revisions'[i].frozen
             /\ revisions[i].status = "superseded" => revisions'[i].status = "superseded"
             /\ i \notin {k, o} => revisions'[i] = revisions[i]
             /\ i # k /\ revisions'[i].status = "active" => revisions[i].status = "active"
        /\ revisions'[k].frozen
        /\ o = k => revisions'[k] = revisions[k]
        /\ loose[c] = 0 => revisions'[k].status = "active"
        /\ o # k /\ ~Loose(jobs[p]) =>
             /\ o # 0 /\ revisions[o].status = "active" /\ revisions'[o].status = "superseded"
             /\ loose[c] <= 1 => revisions'[k].status = "active"
        /\ \E r \in [active : {0} \cup DOMAIN revisions] :
             /\ routes' = [routes EXCEPT ![c] = r]
             /\ r.active = IF o # k THEN k ELSE routes[c].active
        /\ loose' = IF Loose(jobs[p]) THEN [loose EXCEPT ![c] = @ + 1] ELSE loose
        /\ jobs' = [jobs EXCEPT ![p] = None] /\ pins' = pins
    BY <1>2, <2>1, <2>2, <2>3, ActivateRows
  <2>4c. /\ Loose(jobs[p]) => o # k
         /\ o = 0 => Loose(jobs[p])
    BY <2>2, <2>3, <2>4 DEF Loose, Former, ActivateOK
  <2>4b. k \in RevisionsOf(c) /\ o \in {0} \cup RevisionsOf(c)
    BY <2>4
  <2>4a. \A i \in DOMAIN revisions : i \notin {k, o} => revisions'[i] = revisions[i]
    BY <2>4
  <2>5. /\ TypeOK /\ NumbersDense /\ OneInOneOut /\ DefaultPinIsFrozen
        /\ RowsOK /\ NamesOK /\ UntouchedOK /\ JobsOK
    BY DEF IInv
  <2>6. /\ \A i \in DOMAIN revisions : i # 0
        /\ k \in DOMAIN revisions /\ k # 0 /\ (o # 0 => o \in DOMAIN revisions)
        /\ routes[c] # None /\ (loose[c] = 0 => o = 0)
    <3>1. k # 0 /\ routes[c] # None /\ (loose[c] = 0 => o = 0)
      BY <2>1, <2>2, <2>3, <2>4 DEF ActivateOK
    <3> QED
      BY <2>4, <2>5, <3>1, Numbered DEF RevisionsOf
  <2>7. \A d : RevisionsOf(d)' = RevisionsOf(d)
    BY <2>4 DEF RevisionsOf
  <2>8. PICK r \in [active : {0} \cup DOMAIN revisions] :
          /\ routes' = [routes EXCEPT ![c] = r]
          /\ r.active = IF o # k THEN k ELSE routes[c].active
    BY <2>4
  <2>9. /\ routes' \in [Codes -> [active : {0} \cup DOMAIN revisions'] \cup {None}]
        /\ routes'[c] = r /\ r # None
        /\ \A d \in Codes : d # c => routes'[d] = routes[d]
    <3>1. routes \in [Codes -> [active : {0} \cup DOMAIN revisions'] \cup {None}]
      BY <2>4, <2>5 DEF TypeOK
    <3>2. r # None
      <4>1. {0} \cup DOMAIN revisions \subseteq 0..MaxRevisions
        BY <2>5, Numbered
      <4> QED
        BY <2>8, <4>1, NoneIsNoRow DEF Route
    <3> QED
      BY <2>4, <2>8, <3>1, <3>2
  <2>10. /\ loose' \in [Codes -> Nat]
         /\ loose'[c] = IF Loose(jobs[p]) THEN loose[c] + 1 ELSE loose[c]
         /\ \A d \in Codes : loose[d] \in Nat
         /\ \A d \in Codes : d # c => loose'[d] = loose[d]
    <3>1. loose \in [Codes -> Nat]
      BY <2>5 DEF TypeOK
    <3> QED
      BY <2>4, <3>1
  <2>11. \A d \in Codes : \A i \in RevisionsOf(d) : d # c => revisions'[i] = revisions[i]
    <3>1. ASSUME NEW d \in Codes, NEW i \in RevisionsOf(d), d # c
          PROVE  i \in DOMAIN revisions /\ i \notin {k, o}
      <4>1. i \in DOMAIN revisions /\ revisions[i].code # c
        BY <3>1 DEF RevisionsOf
      <4>2. revisions[k].code = c /\ (o # 0 => revisions[o].code = c)
        BY <2>4 DEF RevisionsOf
      <4>3. i # 0
        BY <2>6, <4>1
      <4> QED
        BY <4>1, <4>2, <4>3
    <3> QED
      BY <2>4, <3>1
  <2>12. TypeOK'
    BY <2>4, <2>5, <2>9, <2>10, OneJob DEF TypeOK
  <2>13. NumbersDense'
    <3>1. \A d : NumbersOf(d)' = NumbersOf(d)
      <4>1. \A d, i : i \in RevisionsOf(d) => revisions'[i].number = revisions[i].number
        BY <2>4 DEF RevisionsOf
      <4> QED
        BY <2>7, <4>1 DEF NumbersOf
    <3>2. \A d \in Codes : routes'[d] = None => routes[d] = None
      BY <2>9
    <3> QED
      BY <2>5, <2>7, <3>1, <3>2 DEF NumbersDense
  <2>14. \A d, i :
           /\ i \in ActiveOf(d) <=> i \in RevisionsOf(d) /\ revisions[i].status = "active"
           /\ i \in ActiveOf(d)' <=> i \in RevisionsOf(d) /\ revisions'[i].status = "active"
    <3>1. \A d, i : i \in ActiveOf(d)' <=>
                      i \in RevisionsOf(d)' /\ revisions'[i].status = "active"
      BY DEF ActiveOf
    <3>2. \A d, i : i \in ActiveOf(d) <=> i \in RevisionsOf(d) /\ revisions[i].status = "active"
      BY DEF ActiveOf
    <3> QED
      BY <2>7, <3>1, <3>2
  <2>15. \A d \in Codes : d # c => ActiveOf(d)' = ActiveOf(d)
    <3>1. ASSUME NEW d \in Codes, d # c, NEW i
          PROVE  i \in ActiveOf(d)' <=> i \in ActiveOf(d)
      BY <2>11, <2>14, <3>1
    <3> QED
      BY <3>1
  <2>16a. \A i \in RevisionsOf(c) : i # k /\ revisions'[i].status = "active" =>
            revisions[i].status = "active"
    BY <2>4 DEF RevisionsOf
  <2>16b. o = k => ActiveOf(c)' = ActiveOf(c)
    <3>1. ASSUME o = k, NEW i
          PROVE  i \in ActiveOf(c)' <=> i \in ActiveOf(c)
      <4>1. i \in RevisionsOf(c) => revisions'[i] = revisions[i]
        BY <2>4, <3>1 DEF RevisionsOf
      <4> QED
        BY <2>14, <4>1
    <3> QED
      BY <3>1
  <2>16. OneInOneOut'
    <3>1. ASSUME NEW d \in Codes, routes'[d] # None, loose'[d] <= 1
          PROVE  ActiveOf(d)' = {routes'[d].active} \ {0}
      <4>1. CASE d # c
        BY <2>5, <2>9, <2>10, <2>15, <3>1, <4>1 DEF OneInOneOut
      <4>2. CASE d = c /\ Loose(jobs[p])
        <5>1. loose[c] = 0 /\ o = 0
          BY <2>4, <2>6, <2>10, <3>1, <4>2
        <5>2. \A i \in RevisionsOf(c) : revisions[i].status # "active"
          BY <2>4, <2>5, <5>1 DEF UntouchedOK
        <5>3. revisions'[k].status = "active" /\ routes'[c].active = k
          BY <2>6, <2>8, <2>9, <2>4, <5>1
        <5>4. \A i : i \in ActiveOf(c)' <=> i = k
          BY <2>4b, <2>14, <2>16a, <5>2, <5>3
        <5> QED
          BY <2>6, <4>2, <5>3, <5>4
      <4>3. CASE d = c /\ o # k /\ ~Loose(jobs[p])
        <5>1. loose[c] <= 1 /\ loose[c] \in Nat
          BY <2>4, <2>10, <3>1, <4>3
        <5>2. ActiveOf(c) = {routes[c].active} \ {0}
          BY <2>4, <2>5, <2>6, <5>1 DEF OneInOneOut
        <5>3. o \in ActiveOf(c)
          BY <2>4, <2>14, <4>3
        <5>4. \A i \in RevisionsOf(c) : i # o => revisions[i].status # "active"
          BY <2>14, <5>2, <5>3
        <5>5. /\ revisions'[k].status = "active" /\ revisions'[o].status # "active"
              /\ routes'[c].active = k
          BY <2>4, <2>8, <2>9, <4>3, <5>1
        <5>6. \A i : i \in ActiveOf(c)' <=> i = k
          BY <2>4b, <2>14, <2>16a, <5>4, <5>5
        <5> QED
          BY <2>6, <4>3, <5>5, <5>6
      <4>4. CASE d = c /\ o = k
        <5>1. loose[c] <= 1 /\ loose[c] \in Nat
          BY <2>4, <2>4c, <2>10, <3>1, <4>4
        <5>2. ActiveOf(c) = {routes[c].active} \ {0}
          BY <2>4, <2>5, <2>6, <5>1 DEF OneInOneOut
        <5>3. ActiveOf(c)' = ActiveOf(c)
          BY <2>16b, <4>4
        <5>4. routes'[c].active = routes[c].active
          BY <2>8, <2>9, <4>4
        <5> QED
          BY <4>4, <5>2, <5>3, <5>4
      <4> QED
        BY <4>1, <4>2, <4>3, <4>4
    <3>2. ASSUME NEW d \in Codes
          PROVE  Cardinality(ActiveOf(d)') <= loose'[d]
      <4>1. /\ Cardinality(ActiveOf(d)) <= loose[d] /\ loose[d] \in Nat
            /\ IsFiniteSet(ActiveOf(d)) /\ Cardinality(ActiveOf(d)) \in Nat
        BY <2>5, <2>10, FiniteActive DEF OneInOneOut
      <4>2. CASE d # c \/ o = k
        <5>1. ActiveOf(d)' = ActiveOf(d) /\ loose'[d] = loose[d]
          BY <2>4c, <2>10, <2>15, <2>16b, <4>2
        <5> QED
          BY <4>1, <5>1
      <4>3. CASE d = c /\ Loose(jobs[p])
        <5>1. \A i : i \in ActiveOf(d)' => i \in ActiveOf(d) \cup {k}
          BY <2>14, <2>16a, <4>3
        <5>2. PICK T : T = ActiveOf(d)'
          OBVIOUS
        <5>3. T \subseteq ActiveOf(d) \cup {k}
          BY <5>1, <5>2
        <5>4. Cardinality(T) <= Cardinality(ActiveOf(d)) + 1
          BY <4>1, <5>3, OneIn
        <5>5. Cardinality(T) \in Nat
          BY <4>1, <5>3, FS_AddElement, FS_Subset, FS_CardinalityType
        <5> QED
          BY <2>10, <4>1, <4>3, <5>2, <5>4, <5>5
      <4>4. CASE d = c /\ o # k /\ ~Loose(jobs[p])
        <5>1. o \in ActiveOf(d) /\ ~(o \in ActiveOf(d)') /\ loose'[d] = loose[d]
          BY <2>4, <2>4b, <2>10, <2>14, <4>4
        <5>2. \A i : i \in ActiveOf(d)' => i \in (ActiveOf(d) \ {o}) \cup {k}
          BY <2>14, <2>16a, <4>4, <5>1
        <5>3. PICK T : T = ActiveOf(d)'
          OBVIOUS
        <5>4. T \subseteq (ActiveOf(d) \ {o}) \cup {k}
          BY <5>2, <5>3
        <5>5. Cardinality(T) <= Cardinality(ActiveOf(d))
          BY <4>1, <5>1, <5>4, OneForOne
        <5>6. T \subseteq ActiveOf(d) \cup {k}
          BY <5>4
        <5>7. Cardinality(T) \in Nat
          BY <4>1, <5>6, FS_AddElement, FS_Subset, FS_CardinalityType
        <5> QED
          BY <4>1, <5>1, <5>3, <5>5, <5>7
      <4> QED
        BY <4>2, <4>3, <4>4
    <3> QED
      BY <3>1, <3>2 DEF OneInOneOut
  <2>17. DefaultPinIsFrozen'
    <3>1. \A i \in Items : pins[i] \in {None, 0} \cup DOMAIN revisions
      BY <2>5 DEF TypeOK
    <3> QED
      BY <2>4, <2>5, <3>1 DEF DefaultPinIsFrozen
  <2>18. RowsOK'
    BY <2>4 DEF RowsOK
  <2>19. NamesOK'
    <3>1. ASSUME NEW d \in Codes, routes'[d] # None, routes'[d].active # 0
          PROVE  routes'[d].active \in RevisionsOf(d)' /\ revisions'[routes'[d].active].frozen
      <4>1. CASE d = c /\ o # k
        BY <2>4, <2>7, <2>8, <2>9, <4>1
      <4>2. CASE ~(d = c /\ o # k)
        <5>1. routes[d] # None /\ routes'[d].active = routes[d].active
          BY <2>6, <2>8, <2>9, <3>1, <4>2
        <5>2. routes[d].active \in RevisionsOf(d) /\ revisions[routes[d].active].frozen
          BY <2>5, <3>1, <5>1 DEF NamesOK
        <5>3. routes[d].active \in DOMAIN revisions
          BY <5>2 DEF RevisionsOf
        <5> QED
          BY <2>4, <2>7, <5>1, <5>2, <5>3
      <4> QED
        BY <4>1, <4>2
    <3> QED
      BY <3>1 DEF NamesOK
  <2>20. UntouchedOK'
    <3>1. ASSUME NEW d \in Codes, loose'[d] = 0
          PROVE  /\ ActiveOf(d)' = {}
                 /\ \A i \in RevisionsOf(d)' : revisions'[i].status = "draft"
                 /\ routes'[d] # None => routes'[d].active = 0
      <4>1. d # c
        BY <2>4, <2>4c, <2>6, <2>10, <3>1
      <4>2. loose[d] = 0 /\ routes'[d] = routes[d]
        BY <2>9, <2>10, <3>1, <4>1
      <4>3. /\ ActiveOf(d) = {}
            /\ \A i \in RevisionsOf(d) : revisions[i].status = "draft"
            /\ routes[d] # None => routes[d].active = 0
        BY <2>5, <4>2 DEF UntouchedOK
      <4>4. ActiveOf(d)' = {}
        BY <2>15, <4>1, <4>3
      <4>5. \A i \in RevisionsOf(d)' : revisions'[i].status = "draft"
        BY <2>7, <2>11, <4>1, <4>3
      <4> QED
        BY <4>2, <4>3, <4>4, <4>5
    <3> QED
      BY <3>1 DEF UntouchedOK
  <2>21. JobsOK'
    <3>1. \A d \in Codes :
           /\ RevisionsOf(d) \subseteq RevisionsOf(d)'
           /\ Cardinality(RevisionsOf(d)) <= Cardinality(RevisionsOf(d)')
           /\ Cardinality(RevisionsOf(d)') \in Nat
           /\ routes[d] # None => routes'[d] # None
           /\ loose[d] \in Nat /\ loose'[d] \in Nat /\ loose[d] <= loose'[d]
      <4>1. \A d \in Codes : Cardinality(RevisionsOf(d)) \in Nat
        BY <2>5, FiniteRows
      <4>2. \A d \in Codes : loose[d] \in Nat /\ loose'[d] \in Nat /\ loose[d] <= loose'[d]
        BY <2>4, <2>10
      <4> QED
        BY <2>7, <2>9, <4>1, <4>2
    <3>2. /\ DOMAIN revisions \subseteq DOMAIN revisions'
          /\ \A i \in DOMAIN revisions :
               /\ revisions[i].frozen => revisions'[i].frozen
               /\ revisions[i].status = "superseded" => revisions'[i].status = "superseded"
      BY <2>4
    <3> QED
      BY <2>4, <2>5, <3>1, <3>2, JobsKept
  <2> QED
    BY <2>12, <2>13, <2>16, <2>17, <2>18, <2>19, <2>20, <2>21 DEF IInv
<1> QED
  BY <1>1, <1>2

-----------------------------------------------------------------------------
(* The specification. *)

\* seed.py gives every seeded code one revision.
LEMMA InitSafe ==
  ASSUME Init
  PROVE  IInv
<1> DEFINE n == Cardinality(Seeded)
<1>1. n \in Nat /\ n <= MaxRevisions /\ MaxRevisions \in Nat /\ IsFiniteSet(Seeded)
  BY RoutesAssumption, FS_CardinalityType
<1>2. PICK seed \in [1..n -> Seeded] :
        /\ \A j, k \in DOMAIN seed : seed[j] = seed[k] => j = k
        /\ revisions = [k \in DOMAIN seed |->
             [code |-> seed[k], number |-> 1, status |-> "active", frozen |-> TRUE]]
        /\ routes = [c \in Codes |-> IF c \in Seeded
             THEN [active |-> CHOOSE k \in DOMAIN seed : seed[k] = c] ELSE None]
  BY DEF Init
<1>3. \A c \in Seeded : \E k \in 1..n : seed[k] = c
  <2>1. seed \in Injection(1..n, Seeded)
    BY <1>2 DEF Injection, IsInjective
  <2>2. IsFiniteSet(1..n) /\ Cardinality(1..n) = n
    BY <1>1, FS_Interval
  <2>3. seed \in Surjection(1..n, Seeded)
    BY <1>1, <2>1, <2>2, FS_Injection
  <2> QED
    BY <2>3 DEF Surjection
<1>4. \A c \in Seeded : LET k == CHOOSE k \in 1..n : seed[k] = c IN
        k \in 1..n /\ seed[k] = c
  BY <1>3
<1> DEFINE first == [c \in Seeded |-> CHOOSE k \in 1..n : seed[k] = c]
<1>5. /\ \A c \in Seeded : first[c] \in 1..n /\ seed[first[c]] = c
      /\ \A k \in 1..n : seed[k] \in Seeded /\ first[seed[k]] = k
      /\ DOMAIN seed = 1..n
  <2>1. \A c \in Seeded : first[c] \in 1..n /\ seed[first[c]] = c
    BY <1>4
  <2> HIDE DEF first
  <2> QED
    BY <1>2, <2>1
<1>6. \A c \in Codes :
        /\ c \in Seeded => routes[c] = [active |-> first[c]] /\ routes[c].active = first[c]
        /\ c \notin Seeded => routes[c] = None
  <2>1. ASSUME NEW c \in Codes, c \in Seeded
        PROVE  routes[c] = [active |-> first[c]] /\ routes[c].active = first[c]
    BY <1>2, <1>5, <2>1
  <2>2. ASSUME NEW c \in Codes, c \notin Seeded
        PROVE  routes[c] = None
    BY <1>2, <2>2
  <2> QED
    BY <2>1, <2>2
<1> HIDE DEF first, n
<1>7. /\ DOMAIN revisions = 1..n
      /\ \A k \in 1..n : revisions[k] = [code |-> seed[k], number |-> 1,
                                         status |-> "active", frozen |-> TRUE]
  BY <1>2, <1>5
<1>8. /\ pins = [i \in Items |-> None] /\ jobs = [p \in Threads |-> None]
      /\ loose = [c \in Codes |-> IF c \in Seeded THEN 1 ELSE 0]
  BY DEF Init
<1>9. Seeded \subseteq Codes
  BY RoutesAssumption
<1>10. revisions \in Seq(Revision) /\ Len(revisions) = n
  <2>1. \A k \in 1..n : revisions[k] \in Revision
    <3>1. ASSUME NEW k \in 1..n
          PROVE  revisions[k] \in Revision
      <4>1. seed[k] \in Codes /\ 1 \in Revisions
        BY <1>1, <1>5, <1>9 DEF Revisions
      <4>2. revisions[k] = [code |-> seed[k], number |-> 1, status |-> "active", frozen |-> TRUE]
        BY <1>7
      <4> QED
        BY <4>1, <4>2 DEF Revision
    <3> QED
      BY <3>1
  <2>2. revisions = [k \in 1..n |-> revisions[k]]
    BY <1>2, <1>5
  <2>3. revisions \in [1..n -> Revision]
    BY <2>1, <2>2
  <2> QED
    BY <1>1, <1>7, <2>3 DEF n
<1>11. TypeOK
  <2>1. routes \in [Codes -> [active : {0} \cup DOMAIN revisions] \cup {None}]
    <3>1. ASSUME NEW c \in Codes
          PROVE  routes[c] \in [active : {0} \cup DOMAIN revisions] \cup {None}
      <4>1. CASE c \in Seeded
        <5>1. routes[c] = [active |-> first[c]] /\ first[c] \in DOMAIN revisions
          BY <1>5, <1>6, <1>7, <4>1
        <5> QED
          BY <5>1
      <4>2. CASE c \notin Seeded
        BY <1>6, <4>2
      <4> QED
        BY <4>1, <4>2
    <3> QED
      BY <1>2, <3>1
  <2>2. pins \in [Items -> {None, 0} \cup DOMAIN revisions]
    BY <1>8
  <2>3. jobs \in [Threads -> Add \cup Activate \cup Pin \cup {None}]
    BY <1>8
  <2>4. loose \in [Codes -> Nat]
    BY <1>8
  <2> QED
    BY <1>1, <1>10, <2>1, <2>2, <2>3, <2>4 DEF TypeOK, n
<1>12. \A c \in Codes : RevisionsOf(c) = IF c \in Seeded THEN {first[c]} ELSE {}
  <2>1. ASSUME NEW c \in Codes, NEW k
        PROVE  k \in RevisionsOf(c) <=> k \in 1..n /\ seed[k] = c
    BY <1>7 DEF RevisionsOf
  <2> QED
    BY <1>5, <2>1
<1>13. \A c \in Codes : ActiveOf(c) = RevisionsOf(c)
  BY <1>7 DEF ActiveOf, RevisionsOf
<1>14. NumbersDense
  <2>1. ASSUME NEW c \in Codes
        PROVE  /\ NumbersOf(c) = 1..Cardinality(RevisionsOf(c))
               /\ routes[c] = None => RevisionsOf(c) = {}
    <3>1. CASE c \in Seeded
      <4>1. RevisionsOf(c) = {first[c]} /\ first[c] \in 1..n
        BY <1>5, <1>12, <3>1
      <4>2. Cardinality(RevisionsOf(c)) = 1
        BY <4>1, FS_Singleton
      <4>3. NumbersOf(c) = {1}
        BY <1>7, <4>1 DEF NumbersOf
      <4>4. routes[c] # None
        <5>1. first[c] \in 0..MaxRevisions
          BY <1>1, <4>1 DEF n
        <5>2. routes[c] = [active |-> first[c]]
          BY <1>6, <3>1
        <5>3. routes[c] \in Route
          BY <5>1, <5>2 DEF Route
        <5> QED
          BY <5>3, NoneIsNoRow
      <4> QED
        BY <4>2, <4>3, <4>4
    <3>2. CASE c \notin Seeded
      <4>1. RevisionsOf(c) = {} /\ NumbersOf(c) = {}
        BY <1>12, <3>2 DEF NumbersOf
      <4>2. Cardinality(RevisionsOf(c)) = 0
        BY <4>1, FS_EmptySet
      <4> QED
        BY <4>1, <4>2
    <3> QED
      BY <3>1, <3>2
  <2> QED
    BY <2>1 DEF NumbersDense
<1>15. OneInOneOut
  <2>1. ASSUME NEW c \in Codes, routes[c] # None
        PROVE  ActiveOf(c) = {routes[c].active} \ {0}
    <3>1. c \in Seeded /\ routes[c].active = first[c]
      BY <1>6, <2>1
    <3>2. first[c] # 0
      BY <1>1, <1>5, <3>1 DEF n
    <3> QED
      BY <1>12, <1>13, <3>1, <3>2
  <2>2. ASSUME NEW c \in Codes
        PROVE  Cardinality(ActiveOf(c)) <= loose[c]
    <3>1. CASE c \in Seeded
      <4>1. ActiveOf(c) = {first[c]} /\ loose[c] = 1
        BY <1>8, <1>12, <1>13, <3>1
      <4>2. Cardinality(ActiveOf(c)) = 1
        BY <4>1, FS_Singleton
      <4> QED
        BY <4>1, <4>2
    <3>2. CASE c \notin Seeded
      <4>1. ActiveOf(c) = {} /\ loose[c] = 0
        BY <1>8, <1>12, <1>13, <3>2
      <4> QED
        BY <4>1, FS_EmptySet
    <3> QED
      BY <3>1, <3>2
  <2> QED
    BY <2>1, <2>2 DEF OneInOneOut
<1>16. DefaultPinIsFrozen
  BY <1>8 DEF DefaultPinIsFrozen
<1>17. RowsOK
  BY <1>7 DEF RowsOK
<1>18. NamesOK
  <2>1. ASSUME NEW c \in Codes, routes[c] # None
        PROVE  routes[c].active \in RevisionsOf(c) /\ revisions[routes[c].active].frozen
    <3>1. c \in Seeded /\ routes[c].active = first[c]
      BY <1>6, <2>1
    <3> QED
      BY <1>5, <1>7, <1>12, <3>1
  <2> QED
    BY <2>1 DEF NamesOK
<1>19. UntouchedOK
  <2>1. ASSUME NEW c \in Codes, loose[c] = 0
        PROVE  c \notin Seeded /\ RevisionsOf(c) = {} /\ routes[c] = None
    <3>1. c \notin Seeded
      BY <1>8, <2>1
    <3> QED
      BY <1>6, <1>12, <3>1
  <2> QED
    BY <1>13, <2>1 DEF UntouchedOK
<1>20. JobsOK
  BY <1>8 DEF JobsOK
<1> QED
  BY <1>11, <1>14, <1>15, <1>16, <1>17, <1>18, <1>19, <1>20 DEF IInv

\* Every step keeps the invariant.
LEMMA NextSafe ==
  ASSUME IInv, [Next]_vars
  PROVE  IInv'
<1>1. CASE Next
  <2>1. CASE \E p \in Threads, c \in Codes, op \in {"create", "revise", "import"},
               activate \in BOOLEAN : AddRead(p, c, op, activate)
    BY <2>1, AddReadSafe
  <2>2. CASE \E p \in Threads, k \in DOMAIN revisions : ActivateRead(p, k)
    BY <2>2, ActivateReadSafe
  <2>3. CASE \E p \in Threads, i \in Items : PinRead(p, i)
    BY <2>3, PinReadSafe
  <2>4. CASE \E p \in Threads : AddCommit(p)
    BY <2>4, AddCommitSafe
  <2>5. CASE \E p \in Threads : ActivateCommit(p)
    BY <2>5, ActivateCommitSafe
  <2>6. CASE \E p \in Threads : PinCommit(p)
    BY <2>6, PinCommitSafe
  <2>7. CASE \E p \in Threads : Abort(p)
    BY <2>7, RefuseSafe DEF Abort
  <2>8. CASE \E p \in Threads : RevisionRead(p)
    BY <2>8, RevisionReadSafe
  <2>9. CASE \E p \in Threads : FormerRead(p)
    BY <2>9, FormerReadSafe
  <2> QED
    BY <1>1, <2>1, <2>2, <2>3, <2>4, <2>5, <2>6, <2>7, <2>8, <2>9 DEF Next
<1>2. CASE UNCHANGED vars
  <2>1. /\ UNCHANGED <<routes, revisions, pins, jobs, loose>>
        /\ \A c : RevisionsOf(c)' = RevisionsOf(c) /\ ActiveOf(c)' = ActiveOf(c)
        /\ \A c : NumbersOf(c)' = NumbersOf(c)
    BY <1>2 DEF vars, rows, RevisionsOf, ActiveOf, NumbersOf
  <2>2. /\ \A j : AddOK(j)' = AddOK(j)
        /\ \A j : ActivateOK(j)' = ActivateOK(j)
        /\ \A j : PinOK(j)' = PinOK(j)
    BY <2>1 DEF AddOK, ActivateOK, PinOK
  <2>3. JobsOK'
    <3>1. ASSUME NEW q \in Threads, NEW j, j = jobs[q], j # None
          PROVE  /\ j.op \in {"create", "revise", "import"} => AddOK(j)'
                 /\ j.op = "activate" => ActivateOK(j)'
                 /\ j.op = "pin" => PinOK(j)'
      BY <2>2, <3>1 DEF IInv, JobsOK
    <3> QED
      BY <2>1, <3>1, Zenon DEF JobsOK
  <2>4. TypeOK' /\ NumbersDense' /\ OneInOneOut' /\ DefaultPinIsFrozen'
    BY <2>1 DEF IInv, TypeOK, NumbersDense, OneInOneOut, DefaultPinIsFrozen
  <2>5. RowsOK' /\ NamesOK' /\ UntouchedOK'
    BY <2>1 DEF IInv, RowsOK, NamesOK, UntouchedOK
  <2> QED
    BY <2>3, <2>4, <2>5 DEF IInv
<1> QED
  BY <1>1, <1>2

\* IInv holds in every state.
THEOREM Invariance == Spec => []IInv
<1>1. Init => IInv
  BY InitSafe
<1>2. IInv /\ [Next]_vars => IInv'
  BY NextSafe
<1> QED
  BY <1>1, <1>2, PTL DEF Spec

\* Every variable keeps its type (models RouteDefinition, RouteRevision, Item).
THEOREM TypeCorrect == Spec => []TypeOK
<1>1. IInv => TypeOK
  BY DEF IInv
<1> QED
  BY <1>1, Invariance, PTL

\* The revisions of a route are numbered without gap or repetition, although
\* _create_revision takes the number from a read that locks nothing.
THEOREM NumberedWithoutGap == Spec => []NumbersDense
<1>1. IInv => NumbersDense
  BY DEF IInv
<1> QED
  BY <1>1, Invariance, PTL

\* However activations overlap, a route has no more active revisions than became
\* so while none ceased to be, and while that is one at most, the one it names
\* is active and no other (activate_revision reads the route, the revision and
\* the former one in turn; import_route supersedes none).
THEOREM ActiveOnesCounted == Spec => []OneInOneOut
<1>1. IInv => OneInOneOut
  BY DEF IInv
<1> QED
  BY <1>1, Invariance, PTL

\* An item that asks for no revision is pinned to one that had been activated
\* (rebuild_item).
THEOREM DefaultPinFrozen == Spec => []DefaultPinIsFrozen
<1>1. IInv => DefaultPinIsFrozen
  BY DEF IInv
<1> QED
  BY <1>1, Invariance, PTL

\* No step brings a superseded revision back or thaws a frozen one: only the two
\* commits write revisions, and the trigger judges what they write.
LEMMA StepStays ==
  ASSUME IInv, [Next]_vars
  PROVE  \A k \in DOMAIN revisions :
           /\ revisions[k].status = "superseded" => revisions'[k].status = "superseded"
           /\ revisions[k].frozen => revisions'[k].frozen
<1>1. ASSUME revisions' = revisions
      PROVE  \A k \in DOMAIN revisions :
               /\ revisions[k].status = "superseded" => revisions'[k].status = "superseded"
               /\ revisions[k].frozen => revisions'[k].frozen
  BY <1>1
<1>2. ASSUME NEW p \in Threads, Refuse(p)
      PROVE  revisions' = revisions
  BY <1>2 DEF Refuse, rows
<1>3. ASSUME NEW p \in Threads, AddCommit(p), ~Refuse(p)
      PROVE  \A k \in DOMAIN revisions : revisions'[k] = revisions[k]
  <2>1. \E row : revisions' = Append(revisions, row)
    BY <1>3 DEF AddCommit
  <2>2. PICK row : revisions' = Append(revisions, row)
    BY <2>1
  <2>3. DOMAIN revisions = 1..Len(revisions) /\ Len(revisions) \in Nat
    BY Numbered DEF IInv
  <2>4. \A k \in 1..Len(revisions) : k # Len(revisions) + 1 /\ k \in 1..(Len(revisions) + 1)
    BY <2>3
  <2> QED
    BY <2>2, <2>3, <2>4
<1>4. ASSUME NEW p \in Threads, ActivateCommit(p), ~Refuse(p)
      PROVE  \A k \in DOMAIN revisions :
               /\ revisions[k].status = "superseded" => revisions'[k].status = "superseded"
               /\ revisions[k].frozen => revisions'[k].frozen
  BY <1>4, ActivateRows
<1>5. CASE UNCHANGED vars
  BY <1>1, <1>5 DEF vars, rows
<1>6. CASE \E p \in Threads, c \in Codes, op \in {"create", "revise", "import"},
             activate \in BOOLEAN : AddRead(p, c, op, activate)
  BY <1>1, <1>6 DEF AddRead, rows
<1>7. CASE \E p \in Threads, k \in DOMAIN revisions : ActivateRead(p, k)
  BY <1>1, <1>7 DEF ActivateRead, rows
<1>8. CASE \E p \in Threads, i \in Items : PinRead(p, i)
  BY <1>1, <1>8 DEF PinRead, rows
<1>9. CASE \E p \in Threads : AddCommit(p)
  BY <1>1, <1>2, <1>3, <1>9
<1>10. CASE \E p \in Threads : ActivateCommit(p)
  BY <1>1, <1>2, <1>4, <1>10
<1>11. CASE \E p \in Threads : PinCommit(p) \/ Abort(p)
  BY <1>1, <1>2, <1>11 DEF PinCommit, Abort
<1>12. CASE \E p \in Threads : RevisionRead(p) \/ FormerRead(p)
  BY <1>1, <1>12 DEF RevisionRead, FormerRead, rows
<1> QED
  BY <1>5, <1>6, <1>7, <1>8, <1>9, <1>10, <1>11, <1>12 DEF Next

\* A superseded revision never comes back, and what was frozen stays frozen
\* (activate_revision of an earlier revision; the trigger).
THEOREM HistoryStands == Spec => SupersededStays
<1>1. IInv /\ [Next]_vars =>
        [\A k \in DOMAIN revisions :
           /\ revisions[k].status = "superseded" => revisions'[k].status = "superseded"
           /\ revisions[k].frozen => revisions'[k].frozen]_vars
  BY StepStays
<1> QED
  BY <1>1, Invariance, PTL DEF Spec, SupersededStays
=============================================================================
