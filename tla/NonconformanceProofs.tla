------------------------ MODULE NonconformanceProofs ------------------------
(***************************************************************************)
(* Proofs about Nonconformance, for any handlers, replays, inspections,    *)
(* defects and bounds: that replays and decisions which overlap keep one   *)
(* open nonconformance per defect, that its version is the newest and      *)
(* names the window the projection calls for, and, where one controller    *)
(* decides, that reworked goods are verified before they are released.     *)
(***************************************************************************)
EXTENDS Nonconformance, FiniteSetTheorems, SequenceTheorems, WellFoundedInduction,
        TLAPS

-----------------------------------------------------------------------------
(* The rows a replay works on. *)

\* A nonconformance in the session of a replay: nothing bounds its versions.
Draft == [defect : Defects, first : Observations, verdict : Verdicts,
          disposition : Dispositions, resolution : {"none", "rework"},
          verification : {"none", "PENDING", "PASSED", "FAILED"},
          verified : 0..MaxDecisions, closed : BOOLEAN, version : Nat \ {0}]

Rows == [ncrs : Seq(Draft), analyses : Seq(Seq(Window))]

\* The version that a row with these analyses names.
VersionOf(versions) == IF versions = <<>> THEN 1 ELSE Len(versions)

IsOpen(w, n, d) == n \in 1..Len(w.ncrs) /\ w.ncrs[n].defect = d /\ ~w.ncrs[n].closed

\* What OneOpenPerDefect and VersionIsLatest say of the tables, of the rows w.
Sound(w) ==
  /\ w \in Rows
  /\ Len(w.analyses) = Len(w.ncrs)
  /\ \A d \in Defects : \A m, n \in 1..Len(w.ncrs) :
       IsOpen(w, m, d) /\ IsOpen(w, n, d) => m = n
  /\ \A n \in 1..Len(w.ncrs) :
       w.ncrs[n].version = VersionOf(w.analyses[n])

\* A replay changes no column of a row but its version, and it opens none as
\* reworked.
SameButVersion(a, b) ==
  /\ a.defect = b.defect /\ a.first = b.first /\ a.verdict = b.verdict
  /\ a.disposition = b.disposition /\ a.resolution = b.resolution
  /\ a.verification = b.verification /\ a.verified = b.verified
  /\ a.closed = b.closed

Grown(a, b) ==
  /\ Len(a.ncrs) <= Len(b.ncrs)
  /\ \A n \in 1..Len(a.ncrs) : SameButVersion(a.ncrs[n], b.ncrs[n])
  /\ \A n \in (Len(a.ncrs) + 1)..Len(b.ncrs) : b.ncrs[n].resolution = "none"

Shows(trust, d, p) == DefectOf[p] = d /\ trust[p] \in {"TRUSTED", "INVALIDATED"}
Good(trust, p) == DefectOf[p] = None /\ trust[p] = "TRUSTED"

\* The newest of the versions is the one that inspection o calls for.
Names(trust, versions, o) ==
  LET w == versions[Len(versions)] IN
  /\ versions # <<>>
  /\ IF trust[o] = "INVALIDATED" THEN w.right = 0
     ELSE /\ w.right = o
          /\ w.left # 0 => w.left < o /\ Good(trust, w.left)
          /\ \A p \in (w.left + 1)..(o - 1) : ~Good(trust, p)

\* The newest version of an open nonconformance is the one that the last
\* inspection calls for that shows the defect and is not in doubt, as far as the
\* inspections up to k go.
Current(trust, w, k) ==
  \A n \in 1..Len(w.ncrs), o \in 1..k :
    /\ ~w.ncrs[n].closed /\ Shows(trust, w.ncrs[n].defect, o)
    /\ \A p \in (o + 1)..k : ~Shows(trust, w.ncrs[n].defect, p)
    => Names(trust, w.analyses[n], o)

\* Every defect among the first k inspections has an open nonconformance.
Covered(trust, w, k) ==
  \A p \in 1..k : trust[p] # "ABSENT" /\ DefectOf[p] # None =>
    \E n \in 1..Len(w.ncrs) : IsOpen(w, n, DefectOf[p])

-----------------------------------------------------------------------------
(* Sessions and the invariant. *)

Tables == [ncrs |-> ncrs, analyses |-> analyses]

\* What a replay and a handler hold of the tables.
Replaying == [facts : Facts, ncrs : Seq(Ncr), analyses : Seq(Seq(Window))]
Handling == [ncr : 1..MaxNcrs, row : Ncr, sound : BOOLEAN, reworked : BOOLEAN,
             good : BOOLEAN]

SessionsOK ==
  /\ DOMAIN session = Handlers \cup Replays
  /\ \A r \in Replays : session[r] \in Replaying \cup {None}
  /\ \A h \in Handlers :
       /\ session[h] \in Handling \cup {None}
       /\ session[h] # None => session[h].ncr <= Len(ncrs)

\* A replay at work holds the lock.
LockOK == \A r \in Replays : session[r] # None => lock = r

\* What a replay has read was sound, and since then nothing was opened or
\* analysed: handlers change other columns than a replay, and only ever close.
LoadedOK ==
  \A r \in Replays : session[r] # None =>
    LET w == [ncrs |-> session[r].ncrs, analyses |-> session[r].analyses] IN
    /\ Sound(w)
    /\ w.analyses = analyses /\ Len(w.ncrs) = Len(ncrs)
    /\ \A n \in 1..Len(ncrs) :
         /\ w.ncrs[n].defect = ncrs[n].defect /\ w.ncrs[n].first = ncrs[n].first
         /\ w.ncrs[n].version = ncrs[n].version
         /\ w.ncrs[n].closed => ncrs[n].closed

\* OneOpenPerDefect and VersionIsLatest; AnalysisIsCurrent follows from Current.
TablesOK == Sound(Tables) /\ Current(view.trust, Tables, NumObs)

IInv == TypeOK /\ TablesOK /\ SessionsOK /\ LockOK /\ LoadedOK

-----------------------------------------------------------------------------
(* The inspections of a replay, one after another. *)

NatLess == {q \in Nat \X Nat : q[1] < q[2]}

LEMMA NatLessWellFounded == IsWellFoundedOn(NatLess, Nat)
<1>1. OpToRel(<, Nat) = NatLess
  BY DEF OpToRel, NatLess
<1> QED
  BY <1>1, NatLessThanWellFounded, Zenon

\* A set with zero, and with the successor of each natural in it, has them all.
LEMMA SetOfAll ==
  ASSUME NEW S, 0 \in S, \A n \in Nat : n \in S => n + 1 \in S
  PROVE  \A n \in Nat : n \in S
<1> DEFINE T == {n \in Nat : n \notin S}
<1>1. SUFFICES ASSUME T # {} PROVE FALSE
  OBVIOUS
<1>2. PICK x \in T : \A y \in T : ~(<<y, x>> \in NatLess)
  <2>1. T \subseteq Nat
    OBVIOUS
  <2> HIDE DEF T
  <2> QED
    BY <1>1, <2>1, NatLessWellFounded, WFMin, Zenon
<1>3. x \in Nat /\ x \notin S /\ x # 0
  OBVIOUS
<1>4. x - 1 \in Nat /\ <<x - 1, x>> \in NatLess
  BY <1>3 DEF NatLess
<1>5. x - 1 \in S
  BY <1>2, <1>4
<1>6. (x - 1) + 1 \in S
  BY <1>4, <1>5
<1>7. (x - 1) + 1 = x
  BY <1>3
<1> QED
  BY <1>3, <1>6, <1>7

\* The largest element of a set of naturals that has a bound.
LEMMA MaximumExists ==
  ASSUME NEW n \in Nat, NEW T \in SUBSET (0..n), T # {}
  PROVE  \E m \in T : \A k \in T : k <= m
<1> DEFINE U == {u \in Nat : \A k \in T : k <= u}
<1>1. PICK u \in U : \A y \in U : ~(<<y, u>> \in NatLess)
  <2>1. U \subseteq Nat /\ U # {}
    OBVIOUS
  <2> HIDE DEF U
  <2> QED
    BY <2>1, NatLessWellFounded, WFMin, Zenon
<1>2. CASE u \in T
  BY <1>2, <1>1
<1>3. CASE u \notin T
  <2>1. \A k \in T : k \in Nat /\ k <= u /\ k # u
    BY <1>3, <1>1
  <2>2. u \in Nat /\ u - 1 \in Nat
    <3>1. PICK k \in T : TRUE
      OBVIOUS
    <3> QED
      BY <2>1, <3>1, <1>1
  <2>3. u - 1 \in U /\ <<u - 1, u>> \in NatLess
    BY <2>1, <2>2 DEF NatLess
  <2> QED
    BY <2>3, <1>1
<1> QED
  BY <1>2, <1>3

IsWalk(f, k, trust, rows) ==
  f = [o \in 0..k |-> IF o = 0 THEN rows ELSE Inspect(trust, f[o - 1], o)]

\* The rows after each inspection.
Walk(trust, rows) == CHOOSE f : IsWalk(f, NumObs, trust, rows)

\* One more inspection continues a walk.
LEMMA WalkOn ==
  ASSUME NEW trust, NEW rows, NEW k \in Nat, NEW f, IsWalk(f, k, trust, rows)
  PROVE  \E g : IsWalk(g, k + 1, trust, rows)
<1> DEFINE g == [o \in 0..(k + 1) |-> IF o = k + 1 THEN Inspect(trust, f[k], k + 1)
                                      ELSE f[o]]
           h == [o \in 0..(k + 1) |-> IF o = 0 THEN rows ELSE Inspect(trust, g[o - 1], o)]
<1>1. \A o \in 0..(k + 1) : g[o] = h[o]
  <2> SUFFICES ASSUME NEW o \in 0..(k + 1) PROVE g[o] = h[o]
    OBVIOUS
  <2>1. CASE o = 0
    BY <2>1 DEF IsWalk
  <2>2. CASE o = k + 1
    <3>1. g[o - 1] = f[k]
      BY <2>2
    <3> QED
      BY <2>2, <3>1
  <2>3. CASE o \in 1..k
    <3>1. f[o] = Inspect(trust, f[o - 1], o)
      BY <2>3 DEF IsWalk
    <3>2. g[o] = f[o] /\ g[o - 1] = f[o - 1]
      BY <2>3
    <3>3. h[o] = Inspect(trust, g[o - 1], o)
      BY <2>3
    <3> QED
      BY <3>1, <3>2, <3>3
  <2> QED
    BY <2>1, <2>2, <2>3
<1>2. g = h
  <2>1. \A a, b, D : a = [o \in D |-> a[o]] /\ b = [o \in D |-> b[o]]
                     /\ (\A o \in D : a[o] = b[o]) => a = b
    OBVIOUS
  <2>2. g = [o \in 0..(k + 1) |-> g[o]] /\ h = [o \in 0..(k + 1) |-> h[o]]
    OBVIOUS
  <2> HIDE DEF g, h
  <2> QED
    BY <1>1, <2>1, <2>2, Zenon
<1>3. IsWalk(g, k + 1, trust, rows)
  BY <1>2, Zenon DEF IsWalk
<1> QED
  BY <1>3, Zenon

\* The walk that Replayed defines by recursion exists.
LEMMA WalkIs ==
  ASSUME NEW trust, NEW rows
  PROVE  IsWalk(Walk(trust, rows), NumObs, trust, rows)
<1> DEFINE S == {k \in Nat : \E f : IsWalk(f, k, trust, rows)}
<1>1. 0 \in S
  <2> DEFINE f == [o \in 0..0 |-> rows]
  <2>1. f = [o \in 0..0 |-> IF o = 0 THEN rows ELSE Inspect(trust, f[o - 1], o)]
    OBVIOUS
  <2>2. IsWalk(f, 0, trust, rows)
    BY <2>1, Zenon DEF IsWalk
  <2> QED
    BY <2>2
<1>2. \A k \in Nat : k \in S => k + 1 \in S
  <2> SUFFICES ASSUME NEW k \in Nat, k \in S PROVE k + 1 \in S
    OBVIOUS
  <2>1. PICK f : IsWalk(f, k, trust, rows)
    OBVIOUS
  <2>2. \E g : IsWalk(g, k + 1, trust, rows)
    BY <2>1, WalkOn
  <2>3. k + 1 \in Nat
    OBVIOUS
  <2> QED
    BY <2>2, <2>3
<1>3. NumObs \in S
  <2> HIDE DEF S
  <2> QED
    BY <1>1, <1>2, SetOfAll, ObservationsAssumption
<1>4. \E f : IsWalk(f, NumObs, trust, rows)
  BY <1>3
<1> QED
  BY <1>4, Zenon DEF Walk

LEMMA ReplayedIs ==
  ASSUME NEW trust, NEW rows
  PROVE  /\ Replayed(trust, rows) = Walk(trust, rows)[NumObs]
         /\ Walk(trust, rows)[0] = rows
         /\ \A o \in Observations :
              Walk(trust, rows)[o] = Inspect(trust, Walk(trust, rows)[o - 1], o)
<1>1. Replayed(trust, rows) = Walk(trust, rows)[NumObs]
  BY Zenon DEF Replayed, Walk, IsWalk
<1>2. IsWalk(Walk(trust, rows), NumObs, trust, rows)
  BY WalkIs
<1> HIDE DEF Walk
<1>3. Walk(trust, rows) = [o \in 0..NumObs |-> IF o = 0 THEN rows
                           ELSE Inspect(trust, Walk(trust, rows)[o - 1], o)]
  BY <1>2, Zenon DEF IsWalk
<1> QED
  BY <1>1, <1>3, ObservationsAssumption DEF Observations

\* A birth window reaches from the last trusted good inspection to the defect.
LEMMA WindowIs ==
  ASSUME NEW trust, NEW o \in Observations
  PROVE  LET w == BirthWindow(trust, o) IN
         /\ w \in Window /\ w.right = o
         /\ w.left # 0 => w.left < o /\ Good(trust, w.left)
         /\ \A p \in (w.left + 1)..(o - 1) : ~Good(trust, p)
<1> DEFINE good == {g \in 1..(o - 1) : trust[g] = "TRUSTED" /\ DefectOf[g] = None}
           last == CHOOSE g \in good : \A h \in good : h <= g
           left == IF good = {} THEN 0 ELSE last
<1>1. o \in 1..NumObs /\ NumObs \in Nat
  BY ObservationsAssumption DEF Observations
<1>2. BirthWindow(trust, o) = [left |-> left, right |-> o]
  BY Zenon DEF BirthWindow
<1>3. CASE good = {}
  <2>1. left = 0
    BY <1>3
  <2>2. \A p \in 1..(o - 1) : ~Good(trust, p)
    BY <1>3 DEF Good
  <2> HIDE DEF left
  <2> QED
    BY <1>1, <1>2, <2>1, <2>2 DEF Window
<1>4. CASE good # {}
  <2>1. \E g \in good : \A h \in good : h <= g
    <3>1. good \in SUBSET (0..o) /\ o \in Nat
      BY <1>1
    <3> HIDE DEF good
    <3> QED
      BY <3>1, <1>4, MaximumExists
  <2>2. last \in good /\ \A h \in good : h <= last
    <3> HIDE DEF good
    <3> QED
      BY <2>1, Zenon
  <2>3. left = last
    BY <1>4
  <2>4. left \in 1..(o - 1) /\ Good(trust, left)
    BY <2>2, <2>3 DEF Good
  <2>5. \A p \in (left + 1)..(o - 1) : ~Good(trust, p)
    <3> SUFFICES ASSUME NEW p \in (left + 1)..(o - 1), Good(trust, p) PROVE FALSE
      OBVIOUS
    <3> HIDE DEF last
    <3>1. p \in good
      <4> HIDE DEF left
      <4> QED
        BY <1>1, <2>4 DEF Good
    <3>2. p <= left
      BY <3>1, <2>2, <2>3
    <3> HIDE DEF left
    <3> QED
      BY <1>1, <2>4, <3>2
  <2> HIDE DEF left
  <2> QED
    BY <1>1, <1>2, <2>4, <2>5 DEF Window
<1> QED
  BY <1>3, <1>4

\* The versions after an inspection: the same ones or one more; the newest is
\* the one that the inspection calls for, unless it is in doubt.
LEMMA NextVersionIs ==
  ASSUME NEW trust \in [Observations -> Trust], NEW o \in Observations,
         NEW versions \in Seq(Window), trust[o] # "ABSENT"
  PROVE  LET new == NextVersion(trust, o, versions) IN
         /\ new \in Seq(Window)
         /\ new # versions => new # <<>>
         /\ trust[o] = "DOUBTFUL" => new = versions
         /\ trust[o] # "DOUBTFUL" => Names(trust, new, o)
<1> DEFINE win == IF trust[o] = "TRUSTED" THEN BirthWindow(trust, o) ELSE Invalidated
           has == versions # <<>> /\ versions[Len(versions)] = win
           new == NextVersion(trust, o, versions)
<1>1. new = IF trust[o] = "DOUBTFUL" \/ has THEN versions ELSE Append(versions, win)
  BY Zenon DEF NextVersion
<1>2. win \in Window
  <2>1. BirthWindow(trust, o) \in Window
    BY WindowIs
  <2>2. Invalidated \in Window
    BY ObservationsAssumption DEF Invalidated, Window
  <2> QED
    BY <2>1, <2>2
<1>3. CASE trust[o] = "DOUBTFUL"
  BY <1>1, <1>3
<1>4. CASE trust[o] # "DOUBTFUL"
  <2>1. trust[o] = "TRUSTED" \/ trust[o] = "INVALIDATED"
    BY <1>4 DEF Trust
  <2>2. new # <<>> /\ new[Len(new)] = win /\ new \in Seq(Window)
    <3>1. CASE has
      BY <3>1, <1>1
    <3>2. CASE ~has
      <4>1. new = Append(versions, win)
        BY <3>2, <1>1, <1>4
      <4> HIDE DEF new, win
      <4> QED
        BY <4>1, <1>2, AppendProperties
    <3> QED
      BY <3>1, <3>2
  <2> HIDE DEF new
  <2>3. CASE trust[o] = "TRUSTED"
    <3>1. win = BirthWindow(trust, o)
      BY <2>3
    <3>2. /\ win.right = o
          /\ win.left # 0 => win.left < o /\ Good(trust, win.left)
          /\ \A p \in (win.left + 1)..(o - 1) : ~Good(trust, p)
      BY <3>1, WindowIs
    <3> HIDE DEF win
    <3>3. Names(trust, new, o)
      BY <2>2, <2>3, <3>2, Zenon DEF Names
    <3> QED
      BY <1>4, <2>2, <3>3 DEF new
  <2>4. CASE trust[o] = "INVALIDATED"
    <3>1. win.right = 0
      BY <2>4 DEF Invalidated
    <3> HIDE DEF win
    <3>2. Names(trust, new, o)
      BY <2>2, <2>4, <3>1, Zenon DEF Names
    <3> QED
      BY <1>4, <2>2, <3>2 DEF new
  <2> QED
    BY <2>1, <2>3, <2>4
<1> QED
  BY <1>3, <1>4

\* The rows v that an inspection o with a defect makes of the rows w: n is the
\* open nonconformance of the defect, which was there or is new; the others stay.
Took(trust, w, v, o, n) ==
  /\ v \in Rows /\ Len(v.analyses) = Len(v.ncrs) /\ n \in 1..Len(v.ncrs)
  /\ v.ncrs[n].defect = DefectOf[o] /\ ~v.ncrs[n].closed
  /\ \/ n <= Len(w.ncrs) /\ Len(v.ncrs) = Len(w.ncrs)
        /\ v.analyses[n] = NextVersion(trust, o, w.analyses[n])
     \/ /\ n = Len(w.ncrs) + 1 /\ Len(v.ncrs) = n
        /\ \A m \in 1..Len(w.ncrs) : ~IsOpen(w, m, DefectOf[o])
        /\ v.analyses[n] = NextVersion(trust, o, <<>>)
        /\ v.ncrs[n].resolution = "none"
  /\ \A m \in 1..Len(w.ncrs) :
       /\ SameButVersion(w.ncrs[m], v.ncrs[m])
       /\ m # n => v.ncrs[m] = w.ncrs[m] /\ v.analyses[m] = w.analyses[m]
  /\ v.ncrs[n].version = VersionOf(v.analyses[n])

LEMMA RowsRecord ==
  ASSUME NEW v, v = [ncrs |-> v.ncrs, analyses |-> v.analyses],
         v.ncrs \in Seq(Draft), v.analyses \in Seq(Seq(Window))
  PROVE  v \in Rows
<1>1. \A a \in Seq(Draft), b \in Seq(Seq(Window)) : [ncrs |-> a, analyses |-> b] \in Rows
  BY DEF Rows
<1> QED
  BY <1>1, Zenon

Records(rows, old, n, new, v) ==
  /\ rows \in Seq(Draft) /\ old \in Seq(Seq(Window)) /\ Len(old) = Len(rows)
  /\ n \in 1..Len(rows) /\ rows[n].version = VersionOf(old[n])
  /\ new \in Seq(Window) /\ (new # old[n] => new # <<>>)
  /\ v = [ncrs |-> v.ncrs, analyses |-> v.analyses]
  /\ v.ncrs = IF new = old[n] THEN rows ELSE [rows EXCEPT ![n].version = Len(new)]
  /\ v.analyses = [old EXCEPT ![n] = new]

\* What Inspect does once it has found or opened a row.
LEMMA Recorded ==
  ASSUME NEW rows, NEW old, NEW n, NEW new, NEW v, Records(rows, old, n, new, v)
  PROVE  /\ v \in Rows /\ Len(v.ncrs) = Len(rows) /\ Len(v.analyses) = Len(rows)
         /\ v.analyses[n] = new
         /\ v.ncrs[n].version = VersionOf(new)
         /\ \A m \in 1..Len(rows) :
              /\ SameButVersion(rows[m], v.ncrs[m])
              /\ m # n => v.ncrs[m] = rows[m] /\ v.analyses[m] = old[m]
<1>0. /\ rows \in Seq(Draft) /\ old \in Seq(Seq(Window)) /\ Len(old) = Len(rows)
      /\ n \in 1..Len(rows) /\ rows[n].version = VersionOf(old[n])
      /\ new \in Seq(Window) /\ (new # old[n] => new # <<>>)
      /\ v = [ncrs |-> v.ncrs, analyses |-> v.analyses]
  BY Zenon DEF Records
<1>1. Len(rows) \in Nat /\ Len(new) \in Nat /\ (new # <<>> => Len(new) # 0)
  BY <1>0, EmptySeq, LenProperties
<1>2. /\ [old EXCEPT ![n] = new] \in Seq(Seq(Window))
      /\ Len([old EXCEPT ![n] = new]) = Len(old)
      /\ \A m \in 1..Len(old) : [old EXCEPT ![n] = new][m] = IF m = n THEN new ELSE old[m]
  BY <1>0, ExceptSeq
<1>3. rows[n] \in Draft
  BY <1>0, ElementOfSeq
<1>4. CASE new = old[n]
  <2>1. v.ncrs = rows /\ v.analyses = [old EXCEPT ![n] = new]
    BY <1>4 DEF Records
  <2>2. \A m \in 1..Len(rows) : SameButVersion(rows[m], rows[m])
    BY DEF SameButVersion
  <2>3. v \in Rows
    BY <1>0, <2>1, <1>2, RowsRecord
  <2> QED
    BY <1>0, <1>2, <1>4, <2>1, <2>2, <2>3 DEF VersionOf
<1>5. CASE new # old[n]
  <2> DEFINE row == [rows[n] EXCEPT !.version = Len(new)]
             tab == [rows EXCEPT ![n] = row]
  <2>1. row \in Draft /\ SameButVersion(rows[n], row) /\ row.version = Len(new)
    BY <1>0, <1>1, <1>3, <1>5 DEF Draft, SameButVersion
  <2>2. [rows EXCEPT ![n].version = Len(new)] = tab
    OBVIOUS
  <2> HIDE DEF row
  <2>3. /\ tab \in Seq(Draft) /\ Len(tab) = Len(rows)
        /\ \A m \in 1..Len(rows) : tab[m] = IF m = n THEN row ELSE rows[m]
    BY <1>0, <2>1, ExceptSeq
  <2> HIDE DEF tab
  <2>5. v.ncrs = tab /\ v.analyses = [old EXCEPT ![n] = new]
    BY <1>5, <2>2 DEF Records
  <2>6. v \in Rows
    BY <1>0, <2>3, <2>5, <1>2, RowsRecord
  <2>7. \A m \in 1..Len(rows) : SameButVersion(rows[m], rows[m])
    BY DEF SameButVersion
  <2>8. \A m \in 1..Len(rows) : SameButVersion(rows[m], tab[m])
    BY <2>1, <2>3, <2>7
  <2> QED
    BY <1>0, <1>2, <1>5, <2>1, <2>3, <2>5, <2>6, <2>8 DEF VersionOf
<1> QED
  BY <1>4, <1>5

LEMMA InspectTakes ==
  ASSUME NEW trust \in [Observations -> Trust], NEW w, Sound(w),
         NEW o \in Observations, trust[o] # "ABSENT", DefectOf[o] # None
  PROVE  \E n : Took(trust, w, Inspect(trust, w, o), o, n)
<1> DEFINE open == {n \in 1..Len(w.ncrs) :
                      w.ncrs[n].defect = DefectOf[o] /\ ~w.ncrs[n].closed}
           n == IF open = {} THEN Len(w.ncrs) + 1 ELSE CHOOSE m \in open : TRUE
           rows == IF open = {} THEN Append(w.ncrs, Opened(trust, o)) ELSE w.ncrs
           old == IF open = {} THEN Append(w.analyses, <<>>) ELSE w.analyses
           new == NextVersion(trust, o, old[n])
           v == Inspect(trust, w, o)
<1>1. v = [ncrs |-> IF new = old[n] THEN rows ELSE [rows EXCEPT ![n].version = Len(new)],
           analyses |-> [old EXCEPT ![n] = new]]
  BY Zenon DEF Inspect
<1>2. /\ w.ncrs \in Seq(Draft) /\ w.analyses \in Seq(Seq(Window))
      /\ Len(w.ncrs) \in Nat /\ Len(w.analyses) = Len(w.ncrs)
      /\ \A m \in 1..Len(w.ncrs) :
           w.ncrs[m].version = VersionOf(w.analyses[m])
  BY LenProperties DEF Sound, Rows
<1>3. Opened(trust, o) \in Draft
  <2>1. DefectOf[o] \in Defects
    BY ObservationsAssumption
  <2> QED
    BY <2>1, BoundsAssumption DEF Draft, Opened, Verdicts, Dispositions
<1>4. /\ rows \in Seq(Draft) /\ old \in Seq(Seq(Window)) /\ Len(old) = Len(rows)
      /\ n \in 1..Len(rows) /\ rows[n].defect = DefectOf[o] /\ ~rows[n].closed
      /\ rows[n].version = VersionOf(old[n])
      /\ \A m \in 1..Len(w.ncrs) : rows[m] = w.ncrs[m] /\ old[m] = w.analyses[m]
      /\ \/ n <= Len(w.ncrs) /\ Len(rows) = Len(w.ncrs) /\ old[n] = w.analyses[n]
         \/ /\ n = Len(w.ncrs) + 1 /\ Len(rows) = n /\ old[n] = <<>>
            /\ \A m \in 1..Len(w.ncrs) : ~IsOpen(w, m, DefectOf[o])
            /\ rows[n].resolution = "none"
  <2>1. CASE open = {}
    <3>1. n = Len(w.ncrs) + 1 /\ rows = Append(w.ncrs, Opened(trust, o))
          /\ old = Append(w.analyses, <<>>)
      BY <2>1
    <3>2. \A m \in 1..Len(w.ncrs) : ~IsOpen(w, m, DefectOf[o])
      BY <2>1 DEF IsOpen
    <3>3. /\ Opened(trust, o).defect = DefectOf[o] /\ ~Opened(trust, o).closed
          /\ Opened(trust, o).version = VersionOf(<<>>)
          /\ Opened(trust, o).resolution = "none"
      BY DEF Opened, VersionOf
    <3> HIDE DEF n, rows, old, open
    <3>4. /\ rows \in Seq(Draft) /\ Len(rows) = Len(w.ncrs) + 1
          /\ rows[Len(w.ncrs) + 1] = Opened(trust, o)
          /\ \A m \in 1..Len(w.ncrs) : rows[m] = w.ncrs[m]
      BY <3>1, <1>2, <1>3, AppendProperties
    <3>5. /\ old \in Seq(Seq(Window)) /\ Len(old) = Len(w.ncrs) + 1
          /\ old[Len(w.ncrs) + 1] = <<>>
          /\ \A m \in 1..Len(w.ncrs) : old[m] = w.analyses[m]
      <4>1. <<>> \in Seq(Window)
        OBVIOUS
      <4> QED
        BY <3>1, <1>2, <4>1, AppendProperties
    <3> QED
      BY <1>2, <3>1, <3>2, <3>3, <3>4, <3>5
  <2>2. CASE open # {}
    <3>1. n \in open
      <4>1. n = CHOOSE m \in open : TRUE
        BY <2>2
      <4>2. \E m : m \in open
        BY <2>2
      <4> HIDE DEF open, n
      <4> QED
        BY <4>1, <4>2, Zenon
    <3>2. n \in 1..Len(w.ncrs) /\ w.ncrs[n].defect = DefectOf[o] /\ ~w.ncrs[n].closed
      BY <3>1
    <3>3. rows = w.ncrs /\ old = w.analyses
      BY <2>2
    <3> HIDE DEF n, rows, old, open
    <3> QED
      BY <1>2, <3>2, <3>3
  <2> QED
    BY <2>1, <2>2
<1> HIDE DEF n, rows, old, v
<1>5. new \in Seq(Window) /\ (new # old[n] => new # <<>>)
  <2>1. old[n] \in Seq(Window)
    BY <1>4, ElementOfSeq
  <2> QED
    BY <2>1, NextVersionIs
<1>6. Records(rows, old, n, new, v)
  <2> HIDE DEF new
  <2>1. /\ v = [ncrs |-> v.ncrs, analyses |-> v.analyses]
        /\ v.ncrs = IF new = old[n] THEN rows ELSE [rows EXCEPT ![n].version = Len(new)]
        /\ v.analyses = [old EXCEPT ![n] = new]
    BY <1>1
  <2> QED
    BY <2>1, <1>4, <1>5, Zenon DEF Records
<1>10. /\ v \in Rows /\ Len(v.ncrs) = Len(rows) /\ Len(v.analyses) = Len(rows)
       /\ v.analyses[n] = new
       /\ v.ncrs[n].version = VersionOf(new)
       /\ \A m \in 1..Len(rows) :
            /\ SameButVersion(rows[m], v.ncrs[m])
            /\ m # n => v.ncrs[m] = rows[m] /\ v.analyses[m] = old[m]
  <2> HIDE DEF new
  <2> QED
    BY <1>6, Recorded
<1>7. \A m \in 1..Len(w.ncrs) : m \in 1..Len(rows)
  BY <1>2, <1>4
<1>8. v.ncrs[n].defect = DefectOf[o] /\ ~v.ncrs[n].closed
      /\ v.ncrs[n].resolution = rows[n].resolution
  BY <1>4, <1>10 DEF SameButVersion
<1>9. Took(trust, w, v, o, n)
  BY <1>4, <1>10, <1>7, <1>8 DEF Took
<1> QED
  BY <1>9 DEF v

LEMMA InspectSkips ==
  ASSUME NEW trust, NEW w, NEW o, trust[o] = "ABSENT" \/ DefectOf[o] = None
  PROVE  Inspect(trust, w, o) = w
BY Zenon DEF Inspect

LEMMA GrownIsTransitive ==
  ASSUME NEW a, NEW b, NEW c, Sound(a), Sound(b), Sound(c), Grown(a, b), Grown(b, c)
  PROVE  Grown(a, c)
<1>1. Len(a.ncrs) \in Nat /\ Len(b.ncrs) \in Nat /\ Len(c.ncrs) \in Nat
  BY LenProperties DEF Sound, Rows
<1>2. Len(a.ncrs) <= Len(c.ncrs)
  BY <1>1 DEF Grown
<1>3. \A n \in 1..Len(a.ncrs) :
        /\ SameButVersion(a.ncrs[n], b.ncrs[n]) /\ SameButVersion(b.ncrs[n], c.ncrs[n])
  BY <1>1 DEF Grown
<1>4. \A n \in 1..Len(a.ncrs) : SameButVersion(a.ncrs[n], c.ncrs[n])
  BY <1>3 DEF SameButVersion
<1>5. ASSUME NEW n \in (Len(a.ncrs) + 1)..Len(c.ncrs) PROVE c.ncrs[n].resolution = "none"
  <2>1. CASE n <= Len(b.ncrs)
    <3>1. n \in (Len(a.ncrs) + 1)..Len(b.ncrs) /\ n \in 1..Len(b.ncrs)
      BY <1>1, <2>1
    <3>2. b.ncrs[n].resolution = "none" /\ SameButVersion(b.ncrs[n], c.ncrs[n])
      BY <3>1 DEF Grown
    <3> QED
      BY <3>2 DEF SameButVersion
  <2>2. CASE ~(n <= Len(b.ncrs))
    <3>1. n \in (Len(b.ncrs) + 1)..Len(c.ncrs)
      BY <1>1, <2>2
    <3> QED
      BY <3>1 DEF Grown
  <2> QED
    BY <2>1, <2>2
<1> QED
  BY <1>2, <1>4, <1>5 DEF Grown

LEMMA GrownIsReflexive == \A w : Sound(w) => Grown(w, w)
<1> SUFFICES ASSUME NEW w, Sound(w) PROVE Grown(w, w)
  OBVIOUS
<1>1. Len(w.ncrs) \in Nat
  BY LenProperties DEF Sound, Rows
<1>2. \A n \in 1..Len(w.ncrs) : SameButVersion(w.ncrs[n], w.ncrs[n])
  BY DEF SameButVersion
<1> QED
  BY <1>1, <1>2 DEF Grown

\* An inspection leaves the rows sound.
LEMMA InspectIsSound ==
  ASSUME NEW trust \in [Observations -> Trust], NEW w, Sound(w), NEW o \in Observations
  PROVE  Sound(Inspect(trust, w, o)) /\ Grown(w, Inspect(trust, w, o))
<1>1. CASE trust[o] = "ABSENT" \/ DefectOf[o] = None
  BY <1>1, InspectSkips, GrownIsReflexive
<1>2. CASE trust[o] # "ABSENT" /\ DefectOf[o] # None
  <2> DEFINE v == Inspect(trust, w, o)
             d == DefectOf[o]
  <2>1. PICK n : Took(trust, w, v, o, n)
    BY <1>2, InspectTakes
  <2> HIDE DEF v
  <2>2. Len(w.ncrs) \in Nat /\ Len(v.ncrs) \in Nat
    BY <2>1, LenProperties DEF Sound, Rows, Took
  <2>3. /\ v \in Rows /\ Len(v.analyses) = Len(v.ncrs) /\ n \in 1..Len(v.ncrs)
        /\ v.ncrs[n].version = VersionOf(v.analyses[n])
        /\ \/ Len(v.ncrs) = Len(w.ncrs)
           \/ n = Len(w.ncrs) + 1 /\ Len(v.ncrs) = n
    BY <2>1 DEF Took
  <2>4. \A m \in 1..Len(w.ncrs) : SameButVersion(w.ncrs[m], v.ncrs[m])
    BY <2>1 DEF Took
  <2>5. Grown(w, v)
    <3>1. \A m \in (Len(w.ncrs) + 1)..Len(v.ncrs) : v.ncrs[m].resolution = "none"
      BY <2>1, <2>2, <2>3 DEF Took
    <3> QED
      BY <2>2, <2>3, <2>4, <3>1 DEF Grown
  <2>6. \A m \in 1..Len(v.ncrs) : v.ncrs[m].version = VersionOf(v.analyses[m])
    <3> SUFFICES ASSUME NEW m \in 1..Len(v.ncrs), m # n
                 PROVE  v.ncrs[m].version = VersionOf(v.analyses[m])
      BY <2>3
    <3>1. m \in 1..Len(w.ncrs)
      BY <2>2, <2>3
    <3>2. v.ncrs[m] = w.ncrs[m] /\ v.analyses[m] = w.analyses[m]
      BY <2>1, <3>1 DEF Took
    <3>3. w.ncrs[m].version = VersionOf(w.analyses[m])
      BY <3>1 DEF Sound
    <3> QED
      BY <3>2, <3>3
  <2>7. \A e : \A m \in 1..Len(w.ncrs) : IsOpen(v, m, e) => IsOpen(w, m, e)
    BY <2>4 DEF IsOpen, SameButVersion
  <2>8. ASSUME NEW e \in Defects, NEW m \in 1..Len(v.ncrs), IsOpen(v, m, e),
               NEW k \in 1..Len(v.ncrs), IsOpen(v, k, e)
        PROVE  m = k
    <3>1. CASE m \in 1..Len(w.ncrs) /\ k \in 1..Len(w.ncrs)
      <4>1. IsOpen(w, m, e) /\ IsOpen(w, k, e)
        BY <2>7, <2>8, <3>1
      <4> QED
        BY <3>1, <4>1 DEF Sound
    <3>2. CASE ~(m \in 1..Len(w.ncrs) /\ k \in 1..Len(w.ncrs))
      <4>1. n = Len(w.ncrs) + 1 /\ Len(v.ncrs) = n
        BY <2>2, <2>3, <3>2
      <4>2. \A x \in 1..Len(w.ncrs) : ~IsOpen(w, x, d)
        BY <2>1, <2>2, <4>1 DEF Took
      <4>3. v.ncrs[n].defect = d
        BY <2>1 DEF Took
      <4>4. e = d
        BY <2>2, <4>1, <4>3, <2>8, <3>2 DEF IsOpen
      <4>5. ~(m \in 1..Len(w.ncrs)) /\ ~(k \in 1..Len(w.ncrs))
        BY <4>2, <4>4, <2>7, <2>8
      <4> QED
        BY <2>2, <4>1, <4>5
    <3> QED
      BY <3>1, <3>2
  <2>9. Sound(v)
    BY <2>3, <2>6, <2>8 DEF Sound
  <2> QED
    BY <2>5, <2>9 DEF v
<1> QED
  BY <1>1, <1>2

\* An inspection makes the newest version of its defect the one it calls for.
LEMMA InspectIsCurrent ==
  ASSUME NEW trust \in [Observations -> Trust], NEW w, Sound(w), NEW o \in Observations,
         Covered(trust, w, o - 1), Current(trust, w, o - 1)
  PROVE  /\ Covered(trust, Inspect(trust, w, o), o)
         /\ Current(trust, Inspect(trust, w, o), o)
<1>0. o \in Nat /\ \A p \in 1..o : p # o => p \in 1..(o - 1)
  BY ObservationsAssumption DEF Observations
<1>1. CASE trust[o] = "ABSENT" \/ DefectOf[o] = None
  <2>1. Inspect(trust, w, o) = w
    BY <1>1, InspectSkips
  <2>2. \A n \in 1..Len(w.ncrs) : ~Shows(trust, w.ncrs[n].defect, o)
    <3>1. \A n \in 1..Len(w.ncrs) : w.ncrs[n].defect \in Defects
      <4>1. w.ncrs \in Seq(Draft)
        BY DEF Sound, Rows
      <4>2. \A n \in 1..Len(w.ncrs) : w.ncrs[n] \in Draft
        BY <4>1, ElementOfSeq
      <4> QED
        BY <4>2 DEF Draft
    <3> QED
      BY <1>1, <3>1, RolesAssumption DEF Shows
  <2>3. Covered(trust, w, o)
    BY <1>0, <1>1 DEF Covered
  <2>4. Current(trust, w, o)
    <3> SUFFICES ASSUME NEW n \in 1..Len(w.ncrs), NEW p \in 1..o, ~w.ncrs[n].closed,
                        Shows(trust, w.ncrs[n].defect, p),
                        \A q \in (p + 1)..o : ~Shows(trust, w.ncrs[n].defect, q)
                 PROVE  Names(trust, w.analyses[n], p)
      BY DEF Current
    <3>1. p \in 1..(o - 1)
      BY <1>0, <2>2
    <3>2. \A q \in (p + 1)..(o - 1) : ~Shows(trust, w.ncrs[n].defect, q)
      BY <1>0
    <3> QED
      BY <3>1, <3>2 DEF Current
  <2> QED
    BY <2>1, <2>3, <2>4
<1>2. CASE trust[o] # "ABSENT" /\ DefectOf[o] # None
  <2> DEFINE v == Inspect(trust, w, o)
             d == DefectOf[o]
  <2>1. PICK n : Took(trust, w, v, o, n)
    BY <1>2, InspectTakes
  <2>2. Sound(v)
    BY InspectIsSound
  <2> HIDE DEF v
  <2>3. Len(w.ncrs) \in Nat /\ Len(v.ncrs) \in Nat
    BY <2>2, LenProperties DEF Sound, Rows
  <2>4. /\ n \in 1..Len(v.ncrs) /\ Len(w.ncrs) <= Len(v.ncrs) /\ IsOpen(v, n, d)
        /\ \A m \in 1..Len(v.ncrs) : m # n => m \in 1..Len(w.ncrs)
    BY <2>1, <2>3 DEF Took, IsOpen
  <2>5. \A e : \A m \in 1..Len(w.ncrs) : IsOpen(w, m, e) => IsOpen(v, m, e)
    BY <2>1, <2>3, <2>4 DEF Took, IsOpen, SameButVersion
  <2>6. Covered(trust, v, o)
    <3> SUFFICES ASSUME NEW p \in 1..o, trust[p] # "ABSENT", DefectOf[p] # None
                 PROVE  \E m \in 1..Len(v.ncrs) : IsOpen(v, m, DefectOf[p])
      BY DEF Covered
    <3>1. CASE p = o
      BY <3>1, <2>4
    <3>2. CASE p # o
      <4>1. PICK m \in 1..Len(w.ncrs) : IsOpen(w, m, DefectOf[p])
        BY <1>0, <3>2 DEF Covered
      <4> QED
        BY <4>1, <2>3, <2>4, <2>5
    <3> QED
      BY <3>1, <3>2
  <2>7. ASSUME NEW m \in 1..Len(v.ncrs), NEW p \in 1..o, ~v.ncrs[m].closed,
               Shows(trust, v.ncrs[m].defect, p),
               \A q \in (p + 1)..o : ~Shows(trust, v.ncrs[m].defect, q)
        PROVE  Names(trust, v.analyses[m], p)
    <3>1. CASE m # n
      <4>1. m \in 1..Len(w.ncrs)
        BY <2>4, <3>1
      <4>2. v.ncrs[m] = w.ncrs[m] /\ v.analyses[m] = w.analyses[m]
        BY <2>1, <3>1, <4>1 DEF Took
      <4>3. p # o
        <5> SUFFICES ASSUME p = o PROVE FALSE
          OBVIOUS
        <5>1. IsOpen(v, m, d) /\ d \in Defects
          BY <2>7, <1>2, ObservationsAssumption DEF Shows, IsOpen
        <5> QED
          BY <2>2, <2>4, <3>1, <5>1 DEF Sound
      <4>4. p \in 1..(o - 1) /\ \A q \in (p + 1)..(o - 1) : ~Shows(trust, w.ncrs[m].defect, q)
        BY <1>0, <2>7, <4>2, <4>3
      <4> QED
        BY <2>7, <4>1, <4>2, <4>4 DEF Current
    <3>2. CASE m = n /\ trust[o] = "DOUBTFUL"
      <4>1. p # o /\ v.ncrs[n].defect = d
        BY <2>1, <2>7, <3>2 DEF Shows, Took
      <4>2. p \in 1..(o - 1)
        BY <1>0, <4>1
      <4>3. DefectOf[p] = d /\ trust[p] # "ABSENT"
        BY <2>7, <3>2, <4>1 DEF Shows
      <4>4. PICK k \in 1..Len(w.ncrs) : IsOpen(w, k, d)
        BY <1>2, <4>2, <4>3 DEF Covered
      <4>5. n <= Len(w.ncrs) /\ v.analyses[n] = NextVersion(trust, o, w.analyses[n])
        BY <2>1, <4>4 DEF Took
      <4>6. n \in 1..Len(w.ncrs)
        BY <2>3, <2>4, <4>5
      <4>7. w.analyses[n] \in Seq(Window)
        BY <4>6, ElementOfSeq DEF Sound, Rows
      <4>8. v.analyses[n] = w.analyses[n]
        BY <1>2, <3>2, <4>5, <4>7, NextVersionIs
      <4>9. ~w.ncrs[n].closed /\ w.ncrs[n].defect = d
        BY <2>1, <4>6, <4>1, <2>7, <3>2 DEF Took, SameButVersion
      <4>10. \A q \in (p + 1)..(o - 1) : ~Shows(trust, w.ncrs[n].defect, q)
        BY <1>0, <2>7, <3>2, <4>1, <4>9
      <4>11. Shows(trust, w.ncrs[n].defect, p)
        BY <2>7, <3>2, <4>1, <4>9
      <4> QED
        BY <3>2, <4>2, <4>6, <4>8, <4>9, <4>10, <4>11 DEF Current
    <3>3. CASE m = n /\ trust[o] # "DOUBTFUL"
      <4>1. trust[o] \in {"TRUSTED", "INVALIDATED"} /\ v.ncrs[n].defect = d
        BY <1>2, <2>1, <3>3 DEF Trust, Took
      <4>2. Shows(trust, v.ncrs[n].defect, o)
        BY <4>1 DEF Shows
      <4>3. p = o
        BY <1>0, <2>7, <3>3, <4>2
      <4>4. PICK old \in Seq(Window) : v.analyses[n] = NextVersion(trust, o, old)
        <5>1. CASE n <= Len(w.ncrs)
          <6>1. n \in 1..Len(w.ncrs) /\ v.analyses[n] = NextVersion(trust, o, w.analyses[n])
            BY <2>1, <2>3, <2>4, <5>1 DEF Took
          <6>2. w.analyses[n] \in Seq(Window)
            BY <6>1, ElementOfSeq DEF Sound, Rows
          <6> QED
            BY <6>1, <6>2
        <5>2. CASE ~(n <= Len(w.ncrs))
          <6>1. v.analyses[n] = NextVersion(trust, o, <<>>)
            BY <2>1, <5>2 DEF Took
          <6>2. <<>> \in Seq(Window)
            OBVIOUS
          <6> QED
            BY <6>1, <6>2
        <5> QED
          BY <5>1, <5>2
      <4>5. Names(trust, NextVersion(trust, o, old), o)
        BY <1>2, <3>3, NextVersionIs
      <4> QED
        BY <3>3, <4>3, <4>4, <4>5
    <3> QED
      BY <3>1, <3>2, <3>3
  <2>8. Current(trust, v, o)
    BY <2>7, Zenon DEF Current
  <2> QED
    BY <2>6, <2>8 DEF v
<1> QED
  BY <1>1, <1>2

\* What a replay makes of sound rows: sound rows, in which the newest version of
\* an open nonconformance is the one the inspections call for.
LEMMA ReplayIsGood ==
  ASSUME NEW trust \in [Observations -> Trust], NEW rows, Sound(rows)
  PROVE  LET w == Replayed(trust, rows) IN
         Sound(w) /\ Grown(rows, w) /\ Current(trust, w, NumObs)
<1> DEFINE W == Walk(trust, rows)
           GoodAt(k) == /\ Sound(W[k]) /\ Grown(rows, W[k])
                        /\ Covered(trust, W[k], k) /\ Current(trust, W[k], k)
           S == {k \in Nat : k <= NumObs => GoodAt(k)}
<1>1. /\ Replayed(trust, rows) = W[NumObs] /\ W[0] = rows
      /\ \A o \in Observations : W[o] = Inspect(trust, W[o - 1], o)
  BY ReplayedIs
<1> HIDE DEF W
<1>2. NumObs \in Nat
  BY ObservationsAssumption
<1>3. 0 \in S
  <2>1. Grown(rows, rows)
    BY GrownIsReflexive
  <2>2. Covered(trust, rows, 0) /\ Current(trust, rows, 0)
    BY DEF Covered, Current
  <2> QED
    BY <1>1, <2>1, <2>2
<1>4. ASSUME NEW k \in Nat, k \in S PROVE k + 1 \in S
  <2> SUFFICES ASSUME k + 1 <= NumObs PROVE GoodAt(k + 1)
    OBVIOUS
  <2>1. k + 1 \in Observations /\ (k + 1) - 1 = k
    BY <1>2 DEF Observations
  <2>2. GoodAt(k)
    BY <1>2, <1>4
  <2>3. W[k + 1] = Inspect(trust, W[k], k + 1)
    BY <1>1, <2>1
  <2>4. Sound(W[k + 1]) /\ Grown(W[k], W[k + 1])
    BY <2>1, <2>2, <2>3, InspectIsSound
  <2>5. Grown(rows, W[k + 1])
    BY <2>2, <2>4, GrownIsTransitive
  <2>6. Covered(trust, W[k], (k + 1) - 1) /\ Current(trust, W[k], (k + 1) - 1)
    BY <2>1, <2>2
  <2>7. Covered(trust, W[k + 1], k + 1) /\ Current(trust, W[k + 1], k + 1)
    BY <2>1, <2>2, <2>3, <2>6, InspectIsCurrent
  <2> QED
    BY <2>4, <2>5, <2>7
<1>5. \A k \in Nat : k \in S
  <2> HIDE DEF S
  <2> QED
    BY <1>3, <1>4, SetOfAll, Zenon
<1>6. GoodAt(NumObs)
  BY <1>2, <1>5
<1> QED
  BY <1>1, <1>6

-----------------------------------------------------------------------------
(* Rows and commits. *)

\* What a commit writes to a nonconformance, column by column.
Columns == {"defect", "first", "verdict", "disposition", "resolution", "verification",
            "verified", "closed", "version"}

LEMMA EmitNcr ==
  ASSUME NEW row \in Ncr, NEW loaded \in Ncr, NEW new \in Ncr
  PROVE  LET e == Emit(row, loaded, new) IN
         /\ e \in Ncr
         /\ e.defect = IF new.defect # loaded.defect THEN new.defect ELSE row.defect
         /\ e.first = IF new.first # loaded.first THEN new.first ELSE row.first
         /\ e.verdict = IF new.verdict # loaded.verdict THEN new.verdict ELSE row.verdict
         /\ e.disposition = IF new.disposition # loaded.disposition
                            THEN new.disposition ELSE row.disposition
         /\ e.resolution = IF new.resolution # loaded.resolution
                           THEN new.resolution ELSE row.resolution
         /\ e.verification = IF new.verification # loaded.verification
                             THEN new.verification ELSE row.verification
         /\ e.verified = IF new.verified # loaded.verified THEN new.verified ELSE row.verified
         /\ e.closed = IF new.closed # loaded.closed THEN new.closed ELSE row.closed
         /\ e.version = IF new.version # loaded.version THEN new.version ELSE row.version
<1> DEFINE e == Emit(row, loaded, new)
<1>1. DOMAIN row = Columns
  BY DEF Ncr, Columns
<1>2. e = [f \in Columns |-> IF new[f] # loaded[f] THEN new[f] ELSE row[f]]
  BY <1>1 DEF Emit
<1>3. e = [defect |-> e.defect, first |-> e.first, verdict |-> e.verdict,
           disposition |-> e.disposition, resolution |-> e.resolution,
           verification |-> e.verification, verified |-> e.verified,
           closed |-> e.closed, version |-> e.version]
  BY <1>2 DEF Columns
<1>4. /\ e.defect = IF new.defect # loaded.defect THEN new.defect ELSE row.defect
      /\ e.first = IF new.first # loaded.first THEN new.first ELSE row.first
      /\ e.verdict = IF new.verdict # loaded.verdict THEN new.verdict ELSE row.verdict
      /\ e.disposition = IF new.disposition # loaded.disposition
                         THEN new.disposition ELSE row.disposition
      /\ e.resolution = IF new.resolution # loaded.resolution
                        THEN new.resolution ELSE row.resolution
      /\ e.verification = IF new.verification # loaded.verification
                          THEN new.verification ELSE row.verification
      /\ e.verified = IF new.verified # loaded.verified THEN new.verified ELSE row.verified
      /\ e.closed = IF new.closed # loaded.closed THEN new.closed ELSE row.closed
      /\ e.version = IF new.version # loaded.version THEN new.version ELSE row.version
  BY <1>2 DEF Columns
<1>5. /\ e.defect \in Defects /\ e.first \in Observations /\ e.verdict \in Verdicts
      /\ e.disposition \in Dispositions /\ e.resolution \in {"none", "rework"}
      /\ e.verification \in {"none", "PENDING", "PASSED", "FAILED"}
      /\ e.verified \in 0..MaxDecisions /\ e.closed \in BOOLEAN
      /\ e.version \in 1..MaxVersions
  <2> HIDE DEF e
  <2> QED
    BY <1>4 DEF Ncr
<1>6. e \in Ncr
  <2> HIDE DEF e
  <2> QED
    BY <1>3, <1>5 DEF Ncr
<1> QED
  BY <1>4, <1>6

-----------------------------------------------------------------------------
(* Steps that open and analyse nothing. *)

\* What every step does to the tables but the commit of a replay.
Closing ==
  /\ ncrs' \in Seq(Ncr) /\ Len(ncrs') = Len(ncrs)
  /\ analyses' = analyses /\ view' = view
  /\ \A n \in 1..Len(ncrs) :
       /\ ncrs'[n].defect = ncrs[n].defect /\ ncrs'[n].first = ncrs[n].first
       /\ ncrs'[n].version = ncrs[n].version
       /\ ncrs[n].closed => ncrs'[n].closed

LEMMA DraftOrNcr ==
  /\ \A row \in Ncr : row \in Draft
  /\ \A row \in Draft : row.version <= MaxVersions => row \in Ncr
BY BoundsAssumption DEF Ncr, Draft

\* Rows v that differ from the rows w in being closed at most are as good.
LEMMA ClosedMore ==
  ASSUME NEW trust, NEW k \in Nat, NEW w, Sound(w), Current(trust, w, k),
         NEW v \in Rows, Len(v.ncrs) = Len(w.ncrs), Len(v.analyses) = Len(w.analyses),
         \A n \in 1..Len(w.ncrs) :
           /\ v.analyses[n] = w.analyses[n] /\ v.ncrs[n].defect = w.ncrs[n].defect
           /\ v.ncrs[n].version = w.ncrs[n].version
           /\ w.ncrs[n].closed => v.ncrs[n].closed
  PROVE  Sound(v) /\ Current(trust, v, k)
<1>1. \A d : \A m \in 1..Len(w.ncrs) : IsOpen(v, m, d) => IsOpen(w, m, d)
  BY DEF IsOpen
<1>2. \A d \in Defects : \A m, n \in 1..Len(v.ncrs) :
        IsOpen(v, m, d) /\ IsOpen(v, n, d) => m = n
  <2>1. \A d \in Defects : \A m, n \in 1..Len(w.ncrs) :
          IsOpen(w, m, d) /\ IsOpen(w, n, d) => m = n
    BY DEF Sound
  <2> QED
    BY <1>1, <2>1
<1>3. \A n \in 1..Len(v.ncrs) : v.ncrs[n].version = VersionOf(v.analyses[n])
  <2>1. \A n \in 1..Len(w.ncrs) : w.ncrs[n].version = VersionOf(w.analyses[n])
    BY DEF Sound
  <2> QED
    BY <2>1
<1>4. Len(v.analyses) = Len(v.ncrs)
  BY DEF Sound
<1>5. Sound(v)
  BY <1>2, <1>3, <1>4 DEF Sound
<1>6. Current(trust, v, k)
  BY DEF Current
<1> QED
  BY <1>5, <1>6

LEMMA ClosingKeepsTables ==
  ASSUME TypeOK, TablesOK, Closing
  PROVE  TablesOK'
<1> DEFINE v == [ncrs |-> ncrs', analyses |-> analyses']
<1>1. /\ Sound(Tables) /\ Current(view.trust, Tables, NumObs)
      /\ Tables.ncrs = ncrs /\ Tables.analyses = analyses
  BY DEF TablesOK, Tables
<1>2. /\ v.ncrs = ncrs' /\ v.analyses = analyses /\ Len(ncrs') = Len(ncrs)
      /\ analyses \in Seq(Seq(Window)) /\ NumObs \in Nat
  BY ObservationsAssumption DEF TypeOK, Closing
<1>3. v \in Rows
  <2>1. ncrs' \in Seq(Draft)
    BY SeqMonotonic, DraftOrNcr DEF Closing
  <2> QED
    BY <2>1, <1>2, RowsRecord
<1> HIDE DEF v
<1>4. \A n \in 1..Len(Tables.ncrs) :
        /\ v.analyses[n] = Tables.analyses[n] /\ v.ncrs[n].defect = Tables.ncrs[n].defect
        /\ v.ncrs[n].version = Tables.ncrs[n].version
        /\ Tables.ncrs[n].closed => v.ncrs[n].closed
  BY <1>1, <1>2 DEF Closing
<1>5. Sound(v) /\ Current(view.trust, v, NumObs)
  BY <1>1, <1>2, <1>3, <1>4, ClosedMore
<1>6. Current(view'.trust, v, NumObs)
  BY <1>5 DEF Closing
<1> QED
  BY <1>5, <1>6 DEF TablesOK, Tables, v

\* What replays hold stands when no replay starts or ends.
LEMMA ClosingKeepsLoaded ==
  ASSUME TypeOK, LoadedOK, Closing, \A r \in Replays : session'[r] \in {session[r], None}
  PROVE  LoadedOK'
<1> SUFFICES ASSUME NEW r \in Replays, session'[r] # None
             PROVE  LET w == [ncrs |-> session'[r].ncrs, analyses |-> session'[r].analyses] IN
                    /\ Sound(w)
                    /\ w.analyses = analyses' /\ Len(w.ncrs) = Len(ncrs')
                    /\ \A n \in 1..Len(ncrs') :
                         /\ w.ncrs[n].defect = ncrs'[n].defect
                         /\ w.ncrs[n].first = ncrs'[n].first
                         /\ w.ncrs[n].version = ncrs'[n].version
                         /\ w.ncrs[n].closed => ncrs'[n].closed
  BY DEF LoadedOK
<1>1. session'[r] = session[r] /\ session[r] # None
  OBVIOUS
<1> DEFINE w == [ncrs |-> session[r].ncrs, analyses |-> session[r].analyses]
<1>2. /\ Sound(w) /\ w.analyses = analyses /\ Len(w.ncrs) = Len(ncrs)
      /\ \A n \in 1..Len(ncrs) :
           /\ w.ncrs[n].defect = ncrs[n].defect /\ w.ncrs[n].first = ncrs[n].first
           /\ w.ncrs[n].version = ncrs[n].version
           /\ w.ncrs[n].closed => ncrs[n].closed
  BY <1>1 DEF LoadedOK
<1>3. w = [ncrs |-> session'[r].ncrs, analyses |-> session'[r].analyses]
  BY <1>1
<1> HIDE DEF w
<1>4. /\ w.analyses = analyses' /\ Len(w.ncrs) = Len(ncrs')
      /\ \A n \in 1..Len(ncrs') :
           /\ w.ncrs[n].defect = ncrs'[n].defect /\ w.ncrs[n].first = ncrs'[n].first
           /\ w.ncrs[n].version = ncrs'[n].version
           /\ w.ncrs[n].closed => ncrs'[n].closed
  BY <1>2 DEF Closing
<1> QED
  BY <1>2, <1>3, <1>4, Zenon

\* A handler's commit: what it loaded tells nothing about the columns of a replay,
\* so it does not write them; and it never opens what is closed.
LEMMA WriteCloses ==
  ASSUME TypeOK, SessionsOK, NEW h \in Handlers, session[h] # None, NEW new \in Ncr,
         new.defect = session[h].row.defect, new.first = session[h].row.first,
         new.version = session[h].row.version,
         session[h].row.closed => new.closed, Write(h, new)
  PROVE  Closing
<1> DEFINE n == session[h].ncr
           row == session[h].row
           e == Emit(ncrs[n], row, new)
<1>1. row \in Ncr /\ n \in 1..Len(ncrs) /\ ncrs \in Seq(Ncr) /\ ncrs[n] \in Ncr
  <2>1. session[h] \in Handling /\ session[h].ncr <= Len(ncrs)
    BY DEF SessionsOK
  <2>2. row \in Ncr /\ n \in 1..MaxNcrs /\ ncrs \in Seq(Ncr)
    BY <2>1 DEF Handling, TypeOK
  <2>3. n \in 1..Len(ncrs)
    BY <2>1, <2>2, LenProperties
  <2> QED
    BY <2>2, <2>3, ElementOfSeq
<1>2. ncrs' = [ncrs EXCEPT ![n] = e] /\ view' = view /\ analyses' = analyses
  BY DEF Write, facts
<1> HIDE DEF n, row
<1>3. /\ e \in Ncr
      /\ e.defect = IF new.defect # row.defect THEN new.defect ELSE ncrs[n].defect
      /\ e.first = IF new.first # row.first THEN new.first ELSE ncrs[n].first
      /\ e.closed = IF new.closed # row.closed THEN new.closed ELSE ncrs[n].closed
      /\ e.version = IF new.version # row.version THEN new.version ELSE ncrs[n].version
  <2> HIDE DEF e
  <2> QED
    BY <1>1, EmitNcr DEF e
<1>4. /\ new.defect = row.defect /\ new.first = row.first /\ new.version = row.version
      /\ (row.closed => new.closed) /\ row.closed \in BOOLEAN /\ new.closed \in BOOLEAN
  BY <1>1 DEF row, Ncr
<1> HIDE DEF e
<1>5. /\ e.defect = ncrs[n].defect /\ e.first = ncrs[n].first
      /\ e.version = ncrs[n].version /\ (ncrs[n].closed => e.closed)
  <2>1. /\ e.defect = ncrs[n].defect /\ e.first = ncrs[n].first
        /\ e.version = ncrs[n].version
    BY <1>3, <1>4
  <2>2. CASE new.closed = row.closed
    BY <1>3, <2>1, <2>2, Zenon
  <2>3. CASE new.closed # row.closed
    <3>1. new.closed
      <4>1. \A a, b \in BOOLEAN : b # a /\ (a => b) => b
        OBVIOUS
      <4> QED
        BY <1>4, <2>3, <4>1, Zenon
    <3>2. e.closed = new.closed
      BY <1>3, <2>3, Zenon
    <3> QED
      BY <2>1, <3>1, <3>2, Zenon
  <2> QED
    BY <2>2, <2>3
<1>6. /\ ncrs' \in Seq(Ncr) /\ Len(ncrs') = Len(ncrs)
      /\ \A m \in 1..Len(ncrs) : ncrs'[m] = IF m = n THEN e ELSE ncrs[m]
  BY <1>1, <1>2, <1>3, ExceptSeq
<1> QED
  BY <1>2, <1>5, <1>6 DEF Closing

-----------------------------------------------------------------------------
(* Handlers. *)

\* What every request of a handler does, besides its reading.
Ends(h) ==
  /\ session' = [session EXCEPT ![h] = None] /\ lock' = lock /\ log' = log /\ Closing
  /\ decisions' \in Seq(Decision) /\ Len(decisions') <= MaxDecisions
  /\ exported' \subseteq 1..Len(decisions')

LEMMA HandlerHolds ==
  ASSUME TypeOK, SessionsOK, NEW h \in Handlers, session[h] # None
  PROVE  /\ session[h].row \in Ncr /\ session[h].ncr \in 1..MaxNcrs
         /\ session[h].ncr \in 1..Len(ncrs)
<1>1. session[h] \in Handling /\ session[h].ncr <= Len(ncrs)
  BY DEF SessionsOK
<1>2. session[h].row \in Ncr /\ session[h].ncr \in 1..MaxNcrs
  BY <1>1 DEF Handling
<1>3. Len(ncrs) \in Nat
  BY LenProperties DEF TypeOK
<1> QED
  BY <1>1, <1>2, <1>3

LEMMA DecidedIs ==
  ASSUME TypeOK, SessionsOK, NEW h \in Handlers, session[h] # None,
         NEW verdict \in Verdicts, NEW disposition \in Dispositions,
         Decided(h, verdict, disposition)
  PROVE  /\ decisions' \in Seq(Decision) /\ Len(decisions') = Len(decisions) + 1
         /\ Len(decisions) \in Nat /\ Len(decisions') <= MaxDecisions
         /\ decisions'[Len(decisions) + 1] =
              [ncr |-> session[h].ncr, verdict |-> verdict, disposition |-> disposition]
         /\ \A k \in 1..Len(decisions) : decisions'[k] = decisions[k]
         /\ exported \subseteq 1..Len(decisions)
<1> DEFINE d == [ncr |-> session[h].ncr, verdict |-> verdict, disposition |-> disposition]
<1>1. d \in Decision
  BY HandlerHolds DEF Decision
<1>2. decisions' = Append(decisions, d) /\ Len(decisions) < MaxDecisions
  BY DEF Decided
<1>3. decisions \in Seq(Decision) /\ Len(decisions) \in Nat
      /\ exported \subseteq 1..Len(decisions)
  BY LenProperties DEF TypeOK
<1> HIDE DEF d
<1>4. /\ decisions' \in Seq(Decision) /\ Len(decisions') = Len(decisions) + 1
      /\ decisions'[Len(decisions) + 1] = d
      /\ \A k \in 1..Len(decisions) : decisions'[k] = decisions[k]
  BY <1>1, <1>2, <1>3, AppendProperties
<1> QED
  BY <1>2, <1>3, <1>4, BoundsAssumption DEF d

LEMMA OneMoreExported ==
  ASSUME NEW n \in Nat, NEW old \in SUBSET (1..n), NEW new,
         new = old \/ new = old \cup {n + 1}
  PROVE  new \subseteq 1..(n + 1)
<1>1. \A x \in 1..n : x \in 1..(n + 1)
  OBVIOUS
<1>2. n + 1 \in 1..(n + 1)
  OBVIOUS
<1>3. \A x \in new : x \in old \/ x = n + 1
  OBVIOUS
<1> QED
  BY <1>1, <1>2, <1>3

LEMMA NothingCloses ==
  ASSUME TypeOK, ncrs' = ncrs, analyses' = analyses, view' = view
  PROVE  Closing
BY DEF TypeOK, Closing

LEMMA ReviewEnds ==
  ASSUME TypeOK, SessionsOK, NEW h \in Handlers, NEW v \in Verdicts, Review(h, v)
  PROVE  Ends(h)
<1> DEFINE new == [session[h].row EXCEPT !.verdict = v]
<1>1. session[h] # None /\ Write(h, new) /\ decisions' = decisions /\ exported' = exported
  BY DEF Review, human
<1>2. session[h].row \in Ncr
  BY <1>1, HandlerHolds
<1>3. /\ new \in Ncr /\ new.defect = session[h].row.defect
      /\ new.first = session[h].row.first /\ new.version = session[h].row.version
      /\ new.closed = session[h].row.closed
  BY <1>2 DEF Ncr
<1> HIDE DEF new
<1>4. Closing
  BY <1>1, <1>3, WriteCloses
<1> QED
  BY <1>1, <1>4 DEF Ends, Write, facts, TypeOK

LEMMA RequestEnds ==
  ASSUME TypeOK, SessionsOK, NEW h \in Handlers, RequestInspection(h)
  PROVE  Ends(h)
<1> DEFINE new == [session[h].row EXCEPT !.verdict = "needs_extra_check"]
<1>1. /\ session[h] # None /\ Write(h, new) /\ exported' = exported
      /\ Decided(h, "needs_extra_check", session[h].row.disposition)
  BY DEF RequestInspection
<1>2. session[h].row \in Ncr
  BY <1>1, HandlerHolds
<1>3. /\ new \in Ncr /\ new.defect = session[h].row.defect
      /\ new.first = session[h].row.first /\ new.version = session[h].row.version
      /\ new.closed = session[h].row.closed
  BY <1>2 DEF Ncr, Verdicts
<1> HIDE DEF new
<1>4. Closing
  BY <1>1, <1>3, WriteCloses
<1>5. "needs_extra_check" \in Verdicts /\ session[h].row.disposition \in Dispositions
  BY <1>2 DEF Ncr, Verdicts
<1>6. /\ decisions' \in Seq(Decision) /\ Len(decisions') = Len(decisions) + 1
      /\ Len(decisions) \in Nat /\ Len(decisions') <= MaxDecisions
      /\ exported \subseteq 1..Len(decisions)
  BY <1>1, <1>5, DecidedIs
<1>7. exported' \subseteq 1..Len(decisions')
  BY <1>1, <1>6
<1> QED
  BY <1>1, <1>4, <1>6, <1>7 DEF Ends, Write, facts

LEMMA DecideEnds ==
  ASSUME TypeOK, SessionsOK, NEW h \in Handlers, NEW r \in Requests, Decide(h, r)
  PROVE  Ends(h)
<1> DEFINE row == [session[h].row EXCEPT !.verdict = r.verdict,
                                         !.disposition = r.disposition]
<1>1. session[h] # None /\ Decided(h, r.verdict, r.disposition)
  BY DEF Decide
<1>2. \E new \in {row, Ordered(row), [row EXCEPT !.closed = TRUE]} :
        /\ Write(h, new)
        /\ exported' = exported \/ exported' = exported \cup {Len(decisions) + 1}
  BY DEF Decide
<1>3. session[h].row \in Ncr
  BY <1>1, HandlerHolds
<1>4. r.verdict \in Verdicts /\ r.disposition \in Dispositions
  BY RequestsAssumption DEF Request, Verdicts
<1>5. \A new \in {row, Ordered(row), [row EXCEPT !.closed = TRUE]} :
        /\ new \in Ncr /\ new.defect = session[h].row.defect
        /\ new.first = session[h].row.first /\ new.version = session[h].row.version
        /\ session[h].row.closed => new.closed
  <2>1. /\ row \in Ncr /\ row.defect = session[h].row.defect
        /\ row.first = session[h].row.first /\ row.version = session[h].row.version
        /\ row.closed = session[h].row.closed
    BY <1>3, <1>4 DEF Ncr
  <2> HIDE DEF row
  <2>2. /\ Ordered(row) \in Ncr /\ Ordered(row).defect = row.defect
        /\ Ordered(row).first = row.first /\ Ordered(row).version = row.version
        /\ Ordered(row).closed = row.closed
    BY <2>1 DEF Ncr, Ordered
  <2> DEFINE closed == [row EXCEPT !.closed = TRUE]
  <2>3. /\ closed \in Ncr /\ closed.defect = row.defect /\ closed.first = row.first
        /\ closed.version = row.version /\ closed.closed
    BY <2>1 DEF Ncr
  <2> HIDE DEF closed
  <2>4. \A new \in {row, Ordered(row), closed} :
          /\ new \in Ncr /\ new.defect = session[h].row.defect
          /\ new.first = session[h].row.first /\ new.version = session[h].row.version
          /\ session[h].row.closed => new.closed
    BY <2>1, <2>2, <2>3
  <2> QED
    BY <2>4 DEF closed
<1> HIDE DEF row
<1>6. PICK new \in {row, Ordered(row), [row EXCEPT !.closed = TRUE]} :
        /\ Write(h, new)
        /\ exported' = exported \/ exported' = exported \cup {Len(decisions) + 1}
  BY <1>2
<1>7. Closing
  BY <1>1, <1>5, <1>6, WriteCloses
<1>8. /\ decisions' \in Seq(Decision) /\ Len(decisions') = Len(decisions) + 1
      /\ Len(decisions) \in Nat /\ Len(decisions') <= MaxDecisions
      /\ exported \subseteq 1..Len(decisions)
  BY <1>1, <1>4, DecidedIs
<1>9. exported' \subseteq 1..Len(decisions')
  <2>1. exported' = exported \/ exported' = exported \cup {Len(decisions) + 1}
    BY <1>6
  <2>2. /\ exported \subseteq 1..Len(decisions) /\ Len(decisions) \in Nat
        /\ Len(decisions') = Len(decisions) + 1
    BY <1>8
  <2> QED
    BY <2>1, <2>2, OneMoreExported, Zenon
<1> QED
  BY <1>6, <1>7, <1>8, <1>9 DEF Ends, Write, facts

LEMMA VerifyEnds ==
  ASSUME TypeOK, SessionsOK, NEW h \in Handlers, NEW passed \in BOOLEAN,
         VerifyRework(h, passed)
  PROVE  Ends(h)
<1> DEFINE row == [session[h].row EXCEPT !.verified = Len(decisions) + 1]
           good == [row EXCEPT !.verification = "PASSED", !.resolution = "rework",
                               !.disposition = "RELEASED", !.closed = TRUE]
           bad == [row EXCEPT !.verification = "FAILED",
                              !.disposition = "REWORK_REQUIRED"]
<1>1. session[h] # None
  BY DEF VerifyRework
<1>2. \E new \in {good, bad}, d \in {"RELEASED", "REWORK_REQUIRED"} :
        /\ Write(h, new) /\ Decided(h, "confirmed", d)
        /\ exported' = exported \/ exported' = exported \cup {Len(decisions) + 1}
  BY DEF VerifyRework
<1>3. session[h].row \in Ncr
  BY <1>1, HandlerHolds
<1>4. Len(decisions) \in Nat /\ Len(decisions) < MaxDecisions /\ MaxDecisions \in Nat
  BY <1>2, LenProperties, BoundsAssumption DEF TypeOK, Decided
<1>5. \A new \in {good, bad} :
        /\ new \in Ncr /\ new.defect = session[h].row.defect
        /\ new.first = session[h].row.first /\ new.version = session[h].row.version
        /\ session[h].row.closed => new.closed
  <2>1. /\ row \in Ncr /\ row.defect = session[h].row.defect
        /\ row.first = session[h].row.first /\ row.version = session[h].row.version
        /\ row.closed = session[h].row.closed
    BY <1>3, <1>4 DEF Ncr
  <2> HIDE DEF row
  <2>2. /\ good \in Ncr /\ good.defect = row.defect /\ good.first = row.first
        /\ good.version = row.version /\ good.closed
    BY <2>1 DEF Ncr, Dispositions
  <2>3. /\ bad \in Ncr /\ bad.defect = row.defect /\ bad.first = row.first
        /\ bad.version = row.version /\ bad.closed = row.closed
    BY <2>1 DEF Ncr, Dispositions
  <2> HIDE DEF good, bad
  <2> QED
    BY <2>1, <2>2, <2>3
<1> HIDE DEF good, bad
<1>6. PICK new \in {good, bad}, d \in {"RELEASED", "REWORK_REQUIRED"} :
        /\ Write(h, new) /\ Decided(h, "confirmed", d)
        /\ exported' = exported \/ exported' = exported \cup {Len(decisions) + 1}
  BY <1>2
<1>7. Closing
  BY <1>1, <1>5, <1>6, WriteCloses
<1>8. "confirmed" \in Verdicts /\ d \in Dispositions
  BY DEF Verdicts, Dispositions
<1>9. /\ decisions' \in Seq(Decision) /\ Len(decisions') = Len(decisions) + 1
      /\ Len(decisions') <= MaxDecisions /\ exported \subseteq 1..Len(decisions)
  BY <1>1, <1>6, <1>8, DecidedIs
<1>10. exported' \subseteq 1..Len(decisions')
  <2>1. exported' = exported \/ exported' = exported \cup {Len(decisions) + 1}
    BY <1>6
  <2>2. Len(decisions) \in Nat /\ Len(decisions') = Len(decisions) + 1
    BY <1>4, <1>9
  <2>3. exported \subseteq 1..Len(decisions)
    BY <1>9
  <2> QED
    BY <2>1, <2>2, <2>3, OneMoreExported, Zenon
<1> QED
  BY <1>6, <1>7, <1>9, <1>10 DEF Ends, Write, facts

LEMMA RefuseEnds ==
  ASSUME TypeOK, NEW h \in Handlers, Refuse(h)
  PROVE  Ends(h)
<1>1. Closing
  BY NothingCloses DEF Refuse, facts
<1> QED
  BY <1>1 DEF Refuse, Ends, facts, human, TypeOK

-----------------------------------------------------------------------------
(* Steps. *)

LEMMA EndsKeeps ==
  ASSUME IInv, NEW h \in Handlers, Ends(h)
  PROVE  IInv'
<1>1. TypeOK /\ TablesOK /\ SessionsOK /\ LockOK /\ LoadedOK
  BY DEF IInv
<1>2. \A a \in Handlers \cup Replays : session'[a] = IF a = h THEN None ELSE session[a]
  BY <1>1 DEF Ends, SessionsOK
<1>3. \A r \in Replays : session'[r] = session[r]
  BY <1>2, RolesAssumption
<1>4. Len(ncrs') = Len(ncrs) /\ analyses' = analyses /\ lock' = lock /\ log' = log
      /\ view' = view /\ ncrs' \in Seq(Ncr)
  BY DEF Ends, Closing
<1>5. TypeOK'
  BY <1>1, <1>4 DEF TypeOK, Ends
<1>6. TablesOK'
  BY <1>1, ClosingKeepsTables DEF Ends
<1>7. SessionsOK'
  BY <1>1, <1>2, <1>3, <1>4 DEF SessionsOK, Ends
<1>8. LockOK'
  BY <1>1, <1>3, <1>4 DEF LockOK
<1>9. LoadedOK'
  BY <1>1, <1>3, ClosingKeepsLoaded DEF Ends
<1> QED
  BY <1>5, <1>6, <1>7, <1>8, <1>9 DEF IInv

\* A step that changes neither the tables nor what replays hold.
LEMMA StillKeeps ==
  ASSUME IInv, UNCHANGED <<view, ncrs, analyses, human, lock>>, log' \in Facts,
         SessionsOK', \A r \in Replays : session'[r] = session[r]
  PROVE  IInv'
<1>1. TypeOK /\ TablesOK /\ SessionsOK /\ LockOK /\ LoadedOK
  BY DEF IInv
<1>2. Closing
  BY <1>1, NothingCloses
<1>3. TypeOK'
  BY <1>1 DEF TypeOK, human
<1>4. TablesOK'
  BY <1>1, <1>2, ClosingKeepsTables
<1>5. LockOK'
  BY <1>1 DEF LockOK
<1>6. LoadedOK'
  BY <1>1, <1>2, ClosingKeepsLoaded
<1> QED
  BY <1>3, <1>4, <1>5, <1>6 DEF IInv

LEMMA JudgeKeeps ==
  ASSUME IInv, NEW o \in Observations, NEW t \in Trust, Judge(o, t)
  PROVE  IInv'
<1>1. UNCHANGED <<view, ncrs, analyses, human, lock, session>>
  BY DEF Judge
<1>2. log' \in Facts
  <2>1. log \in Facts
    BY DEF IInv, TypeOK
  <2> QED
    BY <2>1 DEF Judge, Facts
<1>3. SessionsOK'
  BY <1>1 DEF IInv, SessionsOK
<1> QED
  BY <1>1, <1>2, <1>3, StillKeeps

LEMMA ReworkKeeps ==
  ASSUME IInv, NEW n \in 1..Len(ncrs), NEW o \in ReworkEnds, FinishRework(n, o)
  PROVE  IInv'
<1>1. UNCHANGED <<view, ncrs, analyses, human, lock, session>>
  BY DEF FinishRework
<1>2. log' \in Facts
  <2>1. log \in Facts /\ Len(ncrs) \in Nat /\ Len(ncrs) <= MaxNcrs
    BY LenProperties DEF IInv, TypeOK
  <2>2. n \in 1..MaxNcrs /\ o \in 0..(NumObs + 1)
    BY <2>1, ObservationsAssumption, BoundsAssumption
  <2> QED
    BY <2>1, <2>2 DEF FinishRework, Facts
<1>3. SessionsOK'
  BY <1>1 DEF IInv, SessionsOK
<1> QED
  BY <1>1, <1>2, <1>3, StillKeeps

LEMMA OpenKeeps ==
  ASSUME IInv, NEW h \in Handlers, NEW n \in 1..Len(ncrs), NEW sound \in BOOLEAN,
         Open(h, n, sound)
  PROVE  IInv'
<1>1. TypeOK /\ SessionsOK
  BY DEF IInv
<1> DEFINE new == [ncr |-> n, row |-> ncrs[n], sound |-> sound,
                   reworked |-> view.rework[n] # 0,
                   good |-> \E g \in Observations : /\ view.trust[g] = "TRUSTED"
                                                    /\ DefectOf[g] = None
                                                    /\ g >= view.rework[n]]
<1>2. /\ session' = [session EXCEPT ![h] = new]
      /\ UNCHANGED <<facts, ncrs, analyses, human, lock>>
  BY Zenon DEF Open
<1>3. new \in Handling
  <2>1. ncrs[n] \in Ncr /\ n \in 1..MaxNcrs
    BY <1>1, ElementOfSeq, LenProperties, BoundsAssumption DEF TypeOK
  <2>2. \A b, c \in BOOLEAN :
          [ncr |-> n, row |-> ncrs[n], sound |-> sound, reworked |-> b, good |-> c]
            \in Handling
    BY <2>1 DEF Handling
  <2>3. (view.rework[n] # 0) \in BOOLEAN
        /\ (\E g \in Observations : /\ view.trust[g] = "TRUSTED"
                                    /\ DefectOf[g] = None
                                    /\ g >= view.rework[n]) \in BOOLEAN
    OBVIOUS
  <2> QED
    BY <2>2, <2>3, Zenon
<1>4. new.ncr = n
  OBVIOUS
<1> HIDE DEF new
<1>5. \A a \in Handlers \cup Replays : session'[a] = IF a = h THEN new ELSE session[a]
  BY <1>1, <1>2 DEF SessionsOK
<1>6. \A r \in Replays : session'[r] = session[r]
  BY <1>5, RolesAssumption
<1>7. SessionsOK'
  <2>1. DOMAIN session' = Handlers \cup Replays
    BY <1>1, <1>2 DEF SessionsOK
  <2>2. \A q \in Handlers : session'[q] \in Handling \cup {None}
    BY <1>1, <1>3, <1>5 DEF SessionsOK
  <2>3. \A q \in Handlers : session'[q] # None => session'[q].ncr <= Len(ncrs)
    <3> SUFFICES ASSUME NEW q \in Handlers, session'[q] # None
                 PROVE  session'[q].ncr <= Len(ncrs)
      OBVIOUS
    <3>1. CASE q = h
      <4>1. session'[q].ncr = n /\ Len(ncrs) \in Nat
        BY <1>1, <1>4, <1>5, <3>1, LenProperties DEF TypeOK
      <4> QED
        BY <4>1
    <3>2. CASE q # h
      BY <1>1, <1>5, <3>2 DEF SessionsOK
    <3> QED
      BY <3>1, <3>2
  <2>4. ncrs' = ncrs
    BY <1>2
  <2> QED
    BY <1>1, <1>6, <2>1, <2>2, <2>3, <2>4 DEF SessionsOK
<1>8. log' \in Facts
  BY <1>1, <1>2 DEF TypeOK, facts
<1> QED
  BY <1>2, <1>6, <1>7, <1>8, StillKeeps DEF facts

-----------------------------------------------------------------------------
(* Replays. *)

\* While the lock is free no replay is at work, and else only its holder.
LEMMA OneReplayAtWork ==
  ASSUME LockOK, NEW r \in Replays, session[r] # None
  PROVE  lock = r /\ \A q \in Replays : q # r => session[q] = None
BY DEF LockOK

LEMMA StartKeeps ==
  ASSUME IInv, NEW r \in Replays, StartReplay(r)
  PROVE  IInv'
<1>1. TypeOK /\ TablesOK /\ SessionsOK /\ LockOK /\ LoadedOK
  BY DEF IInv
<1>2. /\ lock = None /\ lock' = r /\ session' = [session EXCEPT ![r] = Reading]
      /\ UNCHANGED <<log, view, ncrs, analyses, decisions, exported>>
  BY DEF StartReplay, facts, human
<1>3. \A a \in Handlers \cup Replays : session'[a] = IF a = r THEN Reading ELSE session[a]
  BY <1>1, <1>2 DEF SessionsOK
<1>4. \A q \in Replays : session[q] = None
  BY <1>1, <1>2, RolesAssumption DEF LockOK
<1>5. Reading \in Replaying
  BY <1>1 DEF Reading, Replaying, TypeOK
<1>6. TypeOK'
  BY <1>1, <1>2 DEF TypeOK
<1>7. Closing
  BY <1>1, <1>2, NothingCloses
<1>8. TablesOK'
  BY <1>1, <1>7, ClosingKeepsTables
<1>9. SessionsOK'
  <2>1. \A h \in Handlers : session'[h] = session[h]
    BY <1>3, RolesAssumption
  <2> HIDE DEF Reading
  <2>2. \A q \in Replays : session'[q] \in Replaying \cup {None}
    BY <1>1, <1>3, <1>5 DEF SessionsOK
  <2> QED
    BY <1>1, <1>2, <2>1, <2>2 DEF SessionsOK
<1>10. LockOK'
  BY <1>2, <1>3, <1>4 DEF LockOK
<1>11. LoadedOK'
  <2> SUFFICES ASSUME NEW q \in Replays, session'[q] # None
               PROVE  LET w == [ncrs |-> session'[q].ncrs, analyses |-> session'[q].analyses] IN
                      /\ Sound(w)
                      /\ w.analyses = analyses' /\ Len(w.ncrs) = Len(ncrs')
                      /\ \A n \in 1..Len(ncrs') :
                           /\ w.ncrs[n].defect = ncrs'[n].defect
                           /\ w.ncrs[n].first = ncrs'[n].first
                           /\ w.ncrs[n].version = ncrs'[n].version
                           /\ w.ncrs[n].closed => ncrs'[n].closed
    BY DEF LoadedOK
  <2>1. q = r /\ session'[q] = Reading
    BY <1>3, <1>4
  <2>2. session'[q].ncrs = ncrs /\ session'[q].analyses = analyses
    BY <2>1 DEF Reading
  <2>3. [ncrs |-> session'[q].ncrs, analyses |-> session'[q].analyses] = Tables
    BY <2>2 DEF Tables
  <2>4. Sound(Tables) /\ Tables.ncrs = ncrs /\ Tables.analyses = analyses
    BY <1>1 DEF TablesOK, Tables
  <2>5. ncrs' = ncrs /\ analyses' = analyses
    BY <1>2
  <2> QED
    BY <2>3, <2>4, <2>5, Zenon
<1> QED
  BY <1>6, <1>8, <1>9, <1>10, <1>11 DEF IInv

\* When a replay ends, none is at work.
LEMMA ReplayEnds ==
  ASSUME SessionsOK, LockOK, NEW r \in Replays, session[r] # None,
         session' = [session EXCEPT ![r] = None]
  PROVE  /\ \A q \in Replays : session'[q] = None
         /\ \A h \in Handlers : session'[h] = session[h]
         /\ DOMAIN session' = Handlers \cup Replays /\ LockOK' /\ LoadedOK'
<1>1. \A q \in Replays : session'[q] = None
  BY OneReplayAtWork DEF SessionsOK
<1>2. \A h \in Handlers : session'[h] = session[h]
  BY RolesAssumption DEF SessionsOK
<1>3. LockOK'
  BY <1>1 DEF LockOK
<1>4. LoadedOK'
  BY <1>1, Zenon DEF LoadedOK
<1> QED
  BY <1>1, <1>2, <1>3, <1>4 DEF SessionsOK

LEMMA FailKeeps ==
  ASSUME IInv, NEW r \in Replays, FailReplay(r)
  PROVE  IInv'
<1>1. TypeOK /\ TablesOK /\ SessionsOK /\ LockOK /\ LoadedOK
  BY DEF IInv
<1>2. /\ lock' = None /\ session[r] # None /\ session' = [session EXCEPT ![r] = None]
      /\ UNCHANGED <<log, view, ncrs, analyses, decisions, exported>>
  BY DEF FailReplay, facts, human
<1>3. /\ \A q \in Replays : session'[q] = None
      /\ \A h \in Handlers : session'[h] = session[h]
      /\ DOMAIN session' = Handlers \cup Replays /\ LockOK' /\ LoadedOK'
  BY <1>1, <1>2, ReplayEnds
<1>4. TypeOK'
  BY <1>1, <1>2 DEF TypeOK
<1>5. TablesOK'
  BY <1>1, <1>2, NothingCloses, ClosingKeepsTables
<1>6. SessionsOK'
  BY <1>1, <1>2, <1>3 DEF SessionsOK
<1> QED
  BY <1>3, <1>4, <1>5, <1>6 DEF IInv

\* A table with the rows that a replay has added.
JoinOf(c, a, b, S) ==
  /\ a \in Seq(S) /\ b \in Seq(S) /\ Len(a) <= Len(b)
  /\ c = a \o Beyond(Len(a), b)

LEMMA Joined ==
  ASSUME NEW S, NEW a, NEW b, NEW c, JoinOf(c, a, b, S)
  PROVE  /\ c \in Seq(S) /\ Len(c) = Len(b)
         /\ \A n \in 1..Len(b) : c[n] = IF n <= Len(a) THEN a[n] ELSE b[n]
<1> DEFINE k == Len(a)
           l == Len(b)
           tail == SubSeq(b, k + 1, l)
<1>0. a \in Seq(S) /\ b \in Seq(S) /\ Len(a) <= Len(b)
      /\ c = a \o Beyond(Len(a), b)
  BY DEF JoinOf
<1>1. k \in Nat /\ l \in Nat /\ \A n \in 1..l : b[n] \in S
  BY <1>0, LenProperties, ElementOfSeq
<1>2. /\ tail \in Seq(S) /\ Len(tail) = l - k
      /\ \A n \in 1..(l - k) : tail[n] = b[k + n]
  <2>1. \A n \in (k + 1)..l : b[n] \in S
    BY <1>1
  <2>2. k + 1 \in Int /\ l \in Int
    BY <1>1
  <2> HIDE DEF k, l
  <2>3. /\ tail \in Seq(S) /\ Len(tail) = IF k + 1 <= l THEN l - (k + 1) + 1 ELSE 0
        /\ \A n \in 1..(l - (k + 1) + 1) : tail[n] = b[(k + 1) + n - 1]
    BY <2>1, <2>2, SubSeqProperties
  <2>4. k <= l
    BY <1>0 DEF k, l
  <2> HIDE DEF tail
  <2>5. \A n \in 1..(l - k) : n \in 1..(l - (k + 1) + 1) /\ (k + 1) + n - 1 = k + n
    BY <1>1
  <2>6. Len(tail) = l - k
    BY <1>1, <2>3, <2>4
  <2>7. \A n \in 1..(l - k) : tail[n] = b[k + n]
    BY <2>3, <2>5
  <2> QED
    BY <2>3, <2>6, <2>7
<1>3. c = a \o tail
  BY <1>0 DEF Beyond
<1> HIDE DEF tail
<1>4. /\ a \o tail \in Seq(S) /\ Len(a \o tail) = k + (l - k)
      /\ \A n \in 1..(k + (l - k)) :
           (a \o tail)[n] = IF n <= k THEN a[n] ELSE tail[n - k]
  BY <1>0, <1>2, ConcatProperties
<1>5. c \in Seq(S) /\ Len(c) = l
  BY <1>1, <1>3, <1>4
<1>6. \A n \in 1..l : c[n] = IF n <= k THEN a[n] ELSE b[n]
  <2> SUFFICES ASSUME NEW n \in 1..l PROVE c[n] = IF n <= k THEN a[n] ELSE b[n]
    OBVIOUS
  <2>1. n \in 1..(k + (l - k))
    BY <1>1
  <2>2. c[n] = IF n <= k THEN a[n] ELSE tail[n - k]
    BY <1>3, <1>4, <2>1
  <2> HIDE DEF k, l
  <2>3. CASE n <= k
    BY <2>2, <2>3
  <2>4. CASE ~(n <= k)
    <3>1. n - k \in 1..(l - k) /\ k + (n - k) = n
      BY <1>1, <2>4
    <3>2. tail[n - k] = b[n]
      BY <1>2, <3>1
    <3> QED
      BY <2>2, <2>4, <3>2
  <2> QED
    BY <2>3, <2>4
<1> QED
  BY <1>5, <1>6

\* A table rewritten row by row.
LEMMA RewrittenIsSeq ==
  ASSUME NEW S, NEW k \in Nat, NEW f, f = [n \in 1..k |-> f[n]],
         \A n \in 1..k : f[n] \in S
  PROVE  f \in Seq(S) /\ Len(f) = k
<1>1. f \in [1..k -> S]
  OBVIOUS
<1> QED
  BY <1>1

\* A step that leaves alone what only controllers write.
SameHuman(a, b) ==
  /\ a.resolution = b.resolution /\ a.verification = b.verification
  /\ a.verified = b.verified

Kept ==
  /\ Len(ncrs) <= Len(ncrs')
  /\ \A n \in 1..Len(ncrs) : SameHuman(ncrs'[n], ncrs[n])
  /\ \A n \in (Len(ncrs) + 1)..Len(ncrs') : ncrs'[n].resolution = "none"

\* The tables once a replay has committed: the rows w that it left, but closed
\* where a handler closed them in the meantime.
LEMMA CommitIs ==
  ASSUME IInv, NEW r \in Replays, CommitReplay(r),
         NEW w, w = Replayed(session[r].facts.trust,
                       [ncrs |-> session[r].ncrs, analyses |-> session[r].analyses])
  PROVE  /\ Sound(w) /\ Current(session[r].facts.trust, w, NumObs)
         /\ session[r].facts \in Facts
         /\ ncrs' \in Seq(Ncr) /\ Len(ncrs') = Len(w.ncrs) /\ Len(ncrs') <= MaxNcrs
         /\ Len(ncrs) <= Len(ncrs')
         /\ analyses' \in Seq(Seq(Window)) /\ Len(analyses') = Len(w.ncrs)
         /\ \A n \in 1..Len(w.ncrs) :
              /\ analyses'[n] = w.analyses[n] /\ ncrs'[n].defect = w.ncrs[n].defect
              /\ ncrs'[n].version = w.ncrs[n].version
              /\ w.ncrs[n].closed => ncrs'[n].closed
         /\ Kept
<1> DEFINE loaded == session[r].ncrs
           rows == [ncrs |-> loaded, analyses |-> session[r].analyses]
           trust == session[r].facts.trust
           old == Len(loaded)
           head == [n \in 1..Len(ncrs) |-> IF n <= old THEN Emit(ncrs[n], loaded[n], w.ncrs[n])
                                           ELSE ncrs[n]]
           part == [n \in 1..Len(ncrs) |-> IF n <= old THEN w.analyses[n] ELSE analyses[n]]
<1>1. TypeOK /\ SessionsOK /\ LoadedOK
  BY DEF IInv
<1>2. /\ session[r] # None
      /\ Len(ncrs) + Len(w.ncrs) - old <= MaxNcrs
      /\ \A n \in 1..Len(w.ncrs) : Len(w.analyses[n]) <= MaxVersions
      /\ ncrs' = head \o Beyond(old, w.ncrs)
      /\ analyses' = part \o Beyond(old, w.analyses)
  BY Zenon DEF CommitReplay
<1>3. session[r] \in Replaying
  BY <1>1, <1>2 DEF SessionsOK
<1>4. trust \in [Observations -> Trust] /\ session[r].facts \in Facts /\ loaded \in Seq(Ncr)
  BY <1>3 DEF Replaying, Facts
<1>5. /\ Sound(rows) /\ rows.ncrs = loaded /\ rows.analyses = analyses /\ old = Len(ncrs)
      /\ \A n \in 1..Len(ncrs) :
           /\ loaded[n].defect = ncrs[n].defect /\ loaded[n].first = ncrs[n].first
           /\ loaded[n].version = ncrs[n].version
           /\ loaded[n].closed => ncrs[n].closed
  BY <1>1, <1>2 DEF LoadedOK
<1>6. Sound(w) /\ Grown(rows, w) /\ Current(trust, w, NumObs)
  <2> HIDE DEF rows, trust
  <2>1. w = Replayed(trust, rows)
    BY DEF rows, trust
  <2> QED
    BY <2>1, <1>4, <1>5, ReplayIsGood
<1>7. /\ Len(ncrs) \in Nat /\ ncrs \in Seq(Ncr) /\ Len(w.ncrs) \in Nat
      /\ w.ncrs \in Seq(Draft) /\ w.analyses \in Seq(Seq(Window))
      /\ Len(w.analyses) = Len(w.ncrs)
  BY <1>1, <1>6, LenProperties DEF TypeOK, Sound, Rows
<1>8. /\ Len(ncrs) <= Len(w.ncrs)
      /\ \A n \in 1..Len(ncrs) : SameButVersion(loaded[n], w.ncrs[n])
  BY <1>5, <1>6 DEF Grown
<1>9. \A n \in 1..Len(w.ncrs) : w.ncrs[n] \in Ncr
  <2> SUFFICES ASSUME NEW n \in 1..Len(w.ncrs) PROVE w.ncrs[n] \in Ncr
    OBVIOUS
  <2>1. w.ncrs[n] \in Draft /\ w.ncrs[n].version = VersionOf(w.analyses[n])
    BY <1>6, <1>7, ElementOfSeq DEF Sound
  <2>2. Len(w.analyses[n]) <= MaxVersions
    BY <1>2
  <2>3. w.ncrs[n].version <= MaxVersions
    BY <2>1, <2>2, BoundsAssumption DEF VersionOf
  <2> QED
    BY <2>1, <2>3, DraftOrNcr
<1>10. w.ncrs \in Seq(Ncr)
  <2>1. w.ncrs \in [1..Len(w.ncrs) -> Draft]
    BY <1>7, LenProperties
  <2>2. w.ncrs = [n \in 1..Len(w.ncrs) |-> w.ncrs[n]]
    BY <2>1
  <2> QED
    BY <2>2, <1>7, <1>9, RewrittenIsSeq
<1> HIDE DEF rows, trust
<1>11. /\ \A n \in 1..Len(ncrs) : head[n] = Emit(ncrs[n], loaded[n], w.ncrs[n])
       /\ \A n \in 1..Len(ncrs) : part[n] = w.analyses[n]
       /\ head = [n \in 1..Len(ncrs) |-> head[n]]
       /\ part = [n \in 1..Len(ncrs) |-> part[n]]
  <2>1. \A n \in 1..Len(ncrs) : n <= old
    BY <1>5, <1>7
  <2> HIDE DEF old
  <2> QED
    BY <2>1
<1> HIDE DEF head, part
<1>12. \A n \in 1..Len(ncrs) :
         /\ head[n] \in Ncr /\ head[n].defect = w.ncrs[n].defect
         /\ head[n].version = w.ncrs[n].version
         /\ w.ncrs[n].closed => head[n].closed
         /\ SameHuman(head[n], ncrs[n])
  <2> SUFFICES ASSUME NEW n \in 1..Len(ncrs)
               PROVE  /\ head[n] \in Ncr /\ head[n].defect = w.ncrs[n].defect
                      /\ head[n].version = w.ncrs[n].version
                      /\ w.ncrs[n].closed => head[n].closed
                      /\ SameHuman(head[n], ncrs[n])
    OBVIOUS
  <2> DEFINE a == ncrs[n]
             l == loaded[n]
             b == w.ncrs[n]
             e == head[n]
  <2>1. a \in Ncr /\ l \in Ncr /\ b \in Ncr
    <3>1. n \in 1..Len(w.ncrs) /\ n \in 1..Len(loaded)
      BY <1>5, <1>7, <1>8
    <3> QED
      BY <3>1, <1>4, <1>7, <1>9, ElementOfSeq
  <2>2. e = Emit(a, l, b)
    BY <1>11
  <2>3. /\ l.defect = a.defect /\ l.version = a.version /\ (l.closed => a.closed)
        /\ l.defect = b.defect /\ l.closed = b.closed /\ l.resolution = b.resolution
        /\ l.verification = b.verification /\ l.verified = b.verified
    BY <1>5, <1>8 DEF SameButVersion
  <2> HIDE DEF a, l, b, e
  <2>4. /\ e \in Ncr
        /\ e.defect = IF b.defect # l.defect THEN b.defect ELSE a.defect
        /\ e.closed = IF b.closed # l.closed THEN b.closed ELSE a.closed
        /\ e.version = IF b.version # l.version THEN b.version ELSE a.version
        /\ e.resolution = IF b.resolution # l.resolution THEN b.resolution ELSE a.resolution
        /\ e.verification = IF b.verification # l.verification
                            THEN b.verification ELSE a.verification
        /\ e.verified = IF b.verified # l.verified THEN b.verified ELSE a.verified
    BY <2>1, <2>2, EmitNcr
  <2>5. e \in Ncr /\ e.defect = b.defect /\ e.version = b.version
        /\ e.resolution = a.resolution /\ e.verification = a.verification
        /\ e.verified = a.verified
    BY <2>3, <2>4
  <2>6. b.closed => e.closed
    BY <2>3, <2>4, Zenon
  <2>7. SameHuman(e, a)
    BY <2>5 DEF SameHuman
  <2> QED
    BY <2>5, <2>6, <2>7 DEF a, l, b, e
<1>13. head \in Seq(Ncr) /\ Len(head) = Len(ncrs)
  <2>1. \A n \in 1..Len(ncrs) : head[n] \in Ncr
    BY <1>12
  <2> QED
    BY <2>1, <1>7, <1>11, RewrittenIsSeq
<1>14. part \in Seq(Seq(Window)) /\ Len(part) = Len(ncrs)
  <2>1. \A n \in 1..Len(ncrs) : part[n] \in Seq(Window)
    <3>1. \A n \in 1..Len(w.ncrs) : w.analyses[n] \in Seq(Window)
      BY <1>7, ElementOfSeq
    <3> QED
      BY <3>1, <1>7, <1>8, <1>11
  <2> QED
    BY <2>1, <1>7, <1>11, RewrittenIsSeq
<1>15. /\ ncrs' \in Seq(Ncr) /\ Len(ncrs') = Len(w.ncrs)
       /\ \A n \in 1..Len(w.ncrs) :
            ncrs'[n] = IF n <= Len(ncrs) THEN head[n] ELSE w.ncrs[n]
  <2>1. ncrs' = head \o Beyond(Len(head), w.ncrs)
    BY <1>2, <1>5, <1>13
  <2>2. Len(head) <= Len(w.ncrs)
    BY <1>8, <1>13
  <2> DEFINE c == head \o Beyond(Len(head), w.ncrs)
  <2>3. /\ c \in Seq(Ncr) /\ Len(c) = Len(w.ncrs)
        /\ \A n \in 1..Len(w.ncrs) : c[n] = IF n <= Len(head) THEN head[n] ELSE w.ncrs[n]
    <3>1. JoinOf(c, head, w.ncrs, Ncr)
      BY <2>2, <1>10, <1>13, Zenon DEF JoinOf
    <3> HIDE DEF c
    <3> QED
      BY <3>1, Joined
  <2> HIDE DEF c
  <2>4. ncrs' = c /\ Len(head) = Len(ncrs)
    BY <2>1, <1>13 DEF c
  <2> QED
    BY <2>3, <2>4, Zenon
<1>16. /\ analyses' \in Seq(Seq(Window)) /\ Len(analyses') = Len(w.ncrs)
       /\ \A n \in 1..Len(w.ncrs) :
            analyses'[n] = IF n <= Len(ncrs) THEN part[n] ELSE w.analyses[n]
  <2>1. analyses' = part \o Beyond(Len(part), w.analyses)
    BY <1>2, <1>5, <1>14
  <2>2. Len(part) <= Len(w.analyses)
    BY <1>7, <1>8, <1>14
  <2> DEFINE c == part \o Beyond(Len(part), w.analyses)
  <2>3. /\ c \in Seq(Seq(Window)) /\ Len(c) = Len(w.analyses)
        /\ \A n \in 1..Len(w.analyses) :
             c[n] = IF n <= Len(part) THEN part[n] ELSE w.analyses[n]
    <3>1. JoinOf(c, part, w.analyses, Seq(Window))
      BY <2>2, <1>7, <1>14, Zenon DEF JoinOf
    <3> HIDE DEF c
    <3> QED
      BY <3>1, Joined
  <2> HIDE DEF c
  <2>4. analyses' = c /\ Len(part) = Len(ncrs) /\ Len(w.analyses) = Len(w.ncrs)
    BY <2>1, <1>7, <1>14 DEF c
  <2> QED
    BY <2>3, <2>4
<1>17. \A n \in 1..Len(w.ncrs) :
         /\ analyses'[n] = w.analyses[n] /\ ncrs'[n].defect = w.ncrs[n].defect
         /\ ncrs'[n].version = w.ncrs[n].version
         /\ w.ncrs[n].closed => ncrs'[n].closed
  <2> SUFFICES ASSUME NEW n \in 1..Len(w.ncrs)
               PROVE  /\ analyses'[n] = w.analyses[n]
                      /\ ncrs'[n].defect = w.ncrs[n].defect
                      /\ ncrs'[n].version = w.ncrs[n].version
                      /\ w.ncrs[n].closed => ncrs'[n].closed
    OBVIOUS
  <2>1. CASE n <= Len(ncrs)
    <3>1. n \in 1..Len(ncrs)
      BY <1>7, <2>1
    <3>2. ncrs'[n] = head[n] /\ analyses'[n] = part[n]
      BY <1>15, <1>16, <2>1
    <3> QED
      BY <3>1, <3>2, <1>11, <1>12
  <2>2. CASE ~(n <= Len(ncrs))
    BY <1>15, <1>16, <2>2
  <2> QED
    BY <2>1, <2>2
<1>18. Len(ncrs') <= MaxNcrs
  <2>1. Len(ncrs) + Len(w.ncrs) - Len(ncrs) <= MaxNcrs
    BY <1>2, <1>5
  <2>2. Len(ncrs) \in Nat /\ Len(w.ncrs) \in Nat /\ Len(ncrs') = Len(w.ncrs)
    BY <1>7, <1>15
  <2> QED
    BY <2>1, <2>2
<1>19. Kept
  <2>1. \A n \in 1..Len(ncrs) : n \in 1..Len(w.ncrs) /\ n <= Len(ncrs)
    BY <1>7, <1>8
  <2>2. \A n \in 1..Len(ncrs) : SameHuman(ncrs'[n], ncrs[n])
    BY <1>12, <1>15, <2>1
  <2>3. \A n \in (Len(ncrs) + 1)..Len(ncrs') : ncrs'[n].resolution = "none"
    <3> SUFFICES ASSUME NEW n \in (Len(ncrs) + 1)..Len(ncrs')
                 PROVE  ncrs'[n].resolution = "none"
      OBVIOUS
    <3>1. n \in 1..Len(w.ncrs) /\ ~(n <= Len(ncrs))
          /\ n \in (Len(rows.ncrs) + 1)..Len(w.ncrs)
      BY <1>5, <1>7, <1>15
    <3>2. w.ncrs[n].resolution = "none"
      BY <1>6, <3>1 DEF Grown
    <3> QED
      BY <1>15, <3>1, <3>2
  <2> QED
    BY <1>8, <1>15, <2>2, <2>3 DEF Kept
<1> QED
  BY <1>4, <1>6, <1>8, <1>15, <1>16, <1>17, <1>18, <1>19 DEF trust

LEMMA CommitKeeps ==
  ASSUME IInv, NEW r \in Replays, CommitReplay(r)
  PROVE  IInv'
<1> DEFINE w == Replayed(session[r].facts.trust,
                  [ncrs |-> session[r].ncrs, analyses |-> session[r].analyses])
<1>1. TypeOK /\ TablesOK /\ SessionsOK /\ LockOK /\ LoadedOK
  BY DEF IInv
<1>2. /\ session[r] # None /\ lock' = None /\ session' = [session EXCEPT ![r] = None]
      /\ view' = session[r].facts
      /\ UNCHANGED <<log, decisions, exported>>
  BY DEF CommitReplay, human
<1>3. /\ Sound(w) /\ Current(session[r].facts.trust, w, NumObs)
      /\ session[r].facts \in Facts
      /\ ncrs' \in Seq(Ncr) /\ Len(ncrs') = Len(w.ncrs) /\ Len(ncrs') <= MaxNcrs
      /\ Len(ncrs) <= Len(ncrs')
      /\ analyses' \in Seq(Seq(Window)) /\ Len(analyses') = Len(w.ncrs)
      /\ \A n \in 1..Len(w.ncrs) :
           /\ analyses'[n] = w.analyses[n] /\ ncrs'[n].defect = w.ncrs[n].defect
           /\ ncrs'[n].version = w.ncrs[n].version
           /\ w.ncrs[n].closed => ncrs'[n].closed
  BY CommitIs
<1> HIDE DEF w
<1>4. /\ \A q \in Replays : session'[q] = None
      /\ \A h \in Handlers : session'[h] = session[h]
      /\ DOMAIN session' = Handlers \cup Replays /\ LockOK' /\ LoadedOK'
  BY <1>1, <1>2, ReplayEnds
<1>5. TypeOK'
  BY <1>1, <1>2, <1>3 DEF TypeOK
<1>6. TablesOK'
  <2> DEFINE v == [ncrs |-> ncrs', analyses |-> analyses']
  <2>1. v.ncrs = ncrs' /\ v.analyses = analyses' /\ NumObs \in Nat
    BY ObservationsAssumption
  <2>2. v \in Rows
    <3>1. ncrs' \in Seq(Draft)
      BY <1>3, SeqMonotonic, DraftOrNcr
    <3> QED
      BY <3>1, <1>3, <2>1, RowsRecord
  <2> HIDE DEF v
  <2>3. Len(v.ncrs) = Len(w.ncrs) /\ Len(v.analyses) = Len(w.analyses)
    BY <1>3, <2>1 DEF Sound
  <2>4. \A n \in 1..Len(w.ncrs) :
          /\ v.analyses[n] = w.analyses[n] /\ v.ncrs[n].defect = w.ncrs[n].defect
          /\ v.ncrs[n].version = w.ncrs[n].version
          /\ w.ncrs[n].closed => v.ncrs[n].closed
    BY <1>3, <2>1
  <2>5. Sound(v) /\ Current(session[r].facts.trust, v, NumObs)
    BY <1>3, <2>1, <2>2, <2>3, <2>4, ClosedMore
  <2>6. Current(view'.trust, v, NumObs)
    BY <1>2, <2>5
  <2> QED
    BY <2>5, <2>6 DEF TablesOK, Tables, v
<1>7. SessionsOK'
  <2>1. \A h \in Handlers : session[h] # None => session[h].ncr <= Len(ncrs')
    <3> SUFFICES ASSUME NEW h \in Handlers, session[h] # None
                 PROVE  session[h].ncr <= Len(ncrs')
      OBVIOUS
    <3>1. session[h].ncr \in 1..Len(ncrs)
      BY <1>1, HandlerHolds
    <3>2. Len(ncrs) \in Nat /\ Len(ncrs') \in Nat
      BY <1>1, <1>3, LenProperties DEF TypeOK
    <3> QED
      BY <1>3, <3>1, <3>2
  <2> QED
    BY <1>1, <1>4, <2>1 DEF SessionsOK
<1> QED
  BY <1>4, <1>5, <1>6, <1>7 DEF IInv

-----------------------------------------------------------------------------
(* The theorems. *)

LEMMA InitOK == Init => IInv
<1> SUFFICES ASSUME Init PROVE IInv
  OBVIOUS
<1>1. /\ ncrs = <<>> /\ analyses = <<>> /\ decisions = <<>> /\ exported = {}
      /\ lock = None /\ log = NoFacts /\ view = NoFacts
      /\ DOMAIN session = Handlers \cup Replays
      /\ \A a \in Handlers \cup Replays : session[a] = None
  BY DEF Init
<1>2. NoFacts \in Facts
  <2>1. [o \in Observations |-> "ABSENT"] \in [Observations -> Trust]
    BY DEF Trust
  <2>2. [n \in 1..MaxNcrs |-> 0] \in [1..MaxNcrs -> 0..(NumObs + 1)]
    BY ObservationsAssumption
  <2> QED
    BY <2>1, <2>2 DEF NoFacts, Facts
<1>3. TypeOK
  <2>1. Len(<<>>) = 0 /\ <<>> \in Seq(Ncr) /\ <<>> \in Seq(Seq(Window))
        /\ <<>> \in Seq(Decision)
    OBVIOUS
  <2> QED
    BY <1>1, <1>2, <2>1, BoundsAssumption DEF TypeOK
<1>4. TablesOK
  <2>1. Tables.ncrs = <<>> /\ Tables.analyses = <<>>
        /\ Tables = [ncrs |-> Tables.ncrs, analyses |-> Tables.analyses]
    BY <1>1 DEF Tables
  <2>2. <<>> \in Seq(Draft) /\ <<>> \in Seq(Seq(Window)) /\ Len(<<>>) = 0 /\ 1..0 = {}
    OBVIOUS
  <2>3. Tables \in Rows
    BY <2>1, <2>2, RowsRecord
  <2>4. 1..Len(Tables.ncrs) = {}
    BY <2>1
  <2>5. Sound(Tables)
    BY <2>1, <2>3, <2>4 DEF Sound
  <2>6. Current(view.trust, Tables, NumObs)
    BY <2>4 DEF Current
  <2> QED
    BY <2>5, <2>6 DEF TablesOK
<1>5. SessionsOK /\ LockOK /\ LoadedOK
  BY <1>1, Zenon DEF SessionsOK, LockOK, LoadedOK
<1> QED
  BY <1>3, <1>4, <1>5 DEF IInv

LEMMA StepOK == IInv /\ [Next]_vars => IInv'
<1> SUFFICES ASSUME IInv, [Next]_vars PROVE IInv'
  OBVIOUS
<1>0. TypeOK /\ SessionsOK
  BY DEF IInv
<1>1. ASSUME NEW r \in Replays, StartReplay(r) PROVE IInv'
  BY <1>1, StartKeeps
<1>2. ASSUME NEW r \in Replays, CommitReplay(r) PROVE IInv'
  BY <1>2, CommitKeeps
<1>3. ASSUME NEW r \in Replays, FailReplay(r) PROVE IInv'
  BY <1>3, FailKeeps
<1>4. ASSUME NEW o \in Observations, NEW t \in Trust, Judge(o, t) PROVE IInv'
  BY <1>4, JudgeKeeps
<1>5. ASSUME NEW n \in 1..Len(ncrs), NEW o \in ReworkEnds, FinishRework(n, o) PROVE IInv'
  BY <1>5, ReworkKeeps
<1>6. ASSUME NEW h \in Handlers, NEW n \in 1..Len(ncrs), NEW sound \in BOOLEAN,
             Open(h, n, sound)
      PROVE  IInv'
  BY <1>6, OpenKeeps
<1>7. ASSUME NEW h \in Handlers, Refuse(h) PROVE IInv'
  BY <1>0, <1>7, RefuseEnds, EndsKeeps
<1>8. ASSUME NEW h \in Handlers, RequestInspection(h) PROVE IInv'
  BY <1>0, <1>8, RequestEnds, EndsKeeps
<1>9. ASSUME NEW h \in Handlers, NEW v \in Verdicts, Review(h, v) PROVE IInv'
  BY <1>0, <1>9, ReviewEnds, EndsKeeps
<1>10. ASSUME NEW h \in Controllers, NEW r \in Requests, Decide(h, r) PROVE IInv'
  BY <1>0, <1>10, DecideEnds, EndsKeeps, RolesAssumption
<1>11. ASSUME NEW h \in Controllers, NEW passed \in BOOLEAN, VerifyRework(h, passed)
       PROVE  IInv'
  BY <1>0, <1>11, VerifyEnds, EndsKeeps, RolesAssumption
<1>12. CASE UNCHANGED vars
  <2>1. UNCHANGED <<view, ncrs, analyses, human, lock>> /\ log' = log /\ session' = session
    BY <1>12 DEF vars, facts, human
  <2>2. SessionsOK'
    BY <1>0, <2>1 DEF SessionsOK
  <2>3. log' \in Facts
    BY <1>0, <2>1 DEF TypeOK
  <2> QED
    BY <2>1, <2>2, <2>3, StillKeeps
<1> QED
  BY <1>1, <1>2, <1>3, <1>4, <1>5, <1>6, <1>7, <1>8, <1>9, <1>10, <1>11, <1>12, Zenon
     DEF Next

\* The invariant holds throughout.
THEOREM Invariance == Spec => []IInv
BY InitOK, StepOK, PTL DEF Spec

\* The facts, the nonconformances, their analyses and the decisions keep their
\* types, whatever handlers and rebuild_item commit.
THEOREM TypeCorrect == Spec => []TypeOK
<1>1. IInv => TypeOK
  BY DEF IInv
<1> QED
  BY <1>1, Invariance, PTL

\* However many rebuilds and decisions overlap, a defect has one open
\* nonconformance (rebuild_item under the item's lock; decide_nonconformance).
THEOREM OneOpen == Spec => []OneOpenPerDefect
<1>1. IInv => OneOpenPerDefect
  <2> SUFFICES ASSUME IInv, NEW m \in 1..Len(ncrs), NEW n \in 1..Len(ncrs),
                      ~ncrs[m].closed, ~ncrs[n].closed, ncrs[m].defect = ncrs[n].defect
               PROVE  m = n
    BY DEF OneOpenPerDefect
  <2>1. Sound(Tables) /\ Tables.ncrs = ncrs
    BY DEF IInv, TablesOK, Tables
  <2>2. ncrs[m].defect \in Defects
    <3>1. ncrs[m] \in Ncr
      BY ElementOfSeq DEF IInv, TypeOK
    <3> QED
      BY <3>1 DEF Ncr
  <2>3. IsOpen(Tables, m, ncrs[m].defect) /\ IsOpen(Tables, n, ncrs[m].defect)
    BY <2>1 DEF IsOpen
  <2> QED
    BY <2>1, <2>2, <2>3 DEF Sound
<1> QED
  BY <1>1, Invariance, PTL

\* A nonconformance names the newest of its analysis versions, although handlers
\* commit rows they read before a rebuild added one.
THEOREM NewestNamed == Spec => []VersionIsLatest
<1>1. IInv => VersionIsLatest
  <2> SUFFICES ASSUME IInv, NEW n \in 1..Len(ncrs)
               PROVE  ncrs[n].version = IF analyses[n] = <<>> THEN 1 ELSE Len(analyses[n])
    BY DEF VersionIsLatest
  <2>1. Sound(Tables) /\ Tables.ncrs = ncrs /\ Tables.analyses = analyses
    BY DEF IInv, TablesOK, Tables
  <2> QED
    BY <2>1 DEF Sound, VersionOf
<1> QED
  BY <1>1, Invariance, PTL

\* The newest version of an open nonconformance is borne out by the trust of the
\* inspections as it is now, for any inspections in any state of trust, and
\* however often the item was rebuilt (calculate_birth_window, rebuild_item).
THEOREM NewestCurrent == Spec => []AnalysisIsCurrent
<1>1. IInv => AnalysisIsCurrent
  <2> SUFFICES ASSUME IInv
               PROVE  AnalysisIsCurrent
    OBVIOUS
  <2>1. /\ Current(view.trust, Tables, NumObs)
        /\ Tables.ncrs = ncrs /\ Tables.analyses = analyses
    BY DEF IInv, TablesOK, Tables
  <2>2. ASSUME NEW n \in 1..Len(ncrs), ~ncrs[n].closed,
               NEW p \in Observations, Shows(view.trust, ncrs[n].defect, p)
        PROVE  \E o \in Observations : /\ Shows(view.trust, ncrs[n].defect, o)
                                       /\ Names(view.trust, analyses[n], o)
    <3> DEFINE S == {o \in Observations : Shows(view.trust, ncrs[n].defect, o)}
    <3>1. S \in SUBSET (0..NumObs) /\ S # {} /\ NumObs \in Nat
      BY <2>2, ObservationsAssumption DEF Observations
    <3>2. PICK o \in S : \A q \in S : q <= o
      <4> HIDE DEF S
      <4> QED
        BY <3>1, MaximumExists
    <3>3. \A q \in (o + 1)..NumObs : ~Shows(view.trust, ncrs[n].defect, q)
      BY <3>2, ObservationsAssumption DEF Observations
    <3> QED
      BY <2>1, <2>2, <3>2, <3>3 DEF Current, Observations
  <2>3. ASSUME NEW n \in 1..Len(ncrs), NEW o \in Observations,
               Shows(view.trust, ncrs[n].defect, o), Names(view.trust, analyses[n], o),
               NEW w, w = analyses[n][Len(analyses[n])]
        PROVE  /\ analyses[n] # <<>>
               /\ IF w.right = 0
                    THEN DefectOf[o] = ncrs[n].defect /\ view.trust[o] = "INVALIDATED"
                    ELSE /\ w.right \in Observations /\ DefectOf[w.right] = ncrs[n].defect
                         /\ view.trust[w.right] = "TRUSTED"
                         /\ w.left # 0 => w.left < w.right /\ Good(view.trust, w.left)
                         /\ \A q \in (w.left + 1)..(w.right - 1) : ~Good(view.trust, q)
    BY <2>3, ObservationsAssumption DEF Observations, Names, Shows
  <2> QED
    BY <2>2, <2>3 DEF AnalysisIsCurrent, Shows, Good
<1> QED
  BY <1>1, Invariance, PTL

-----------------------------------------------------------------------------
(* Verified before export, where one controller decides. *)

OneDecides == \A c, d \in Controllers : c = d

\* A confirmed order to rework nonconformance n.
Order(d, n) ==
  d.ncr = n /\ d.verdict = "confirmed" /\ d.disposition = "REWORK_REQUIRED"

\* Decision v of ds is a verification that passed, after every order for n.
SealedBy(v, n, ds) ==
  /\ v \in 1..Len(ds) /\ ds[v].disposition = "RELEASED"
  /\ \A k \in 1..Len(ds) : Order(ds[k], n) => k < v

VerifiedOK ==
  \A n \in 1..Len(ncrs) :
    ncrs[n].resolution = "rework" /\ ncrs[n].verification = "PASSED" =>
      SealedBy(ncrs[n].verified, n, decisions)

\* The controller holds the columns that nobody else writes.
AgreeOK ==
  \A c \in Controllers : session[c] # None =>
    SameHuman(session[c].row, ncrs[session[c].ncr])

VInv == IInv /\ VerifiedOK /\ AgreeOK

\* One more decision, which orders no rework of n.
LEMMA StillSealed ==
  ASSUME NEW ds \in Seq(Decision), NEW more, Len(more) = Len(ds) + 1,
         \A k \in 1..Len(ds) : more[k] = ds[k],
         NEW n, ~Order(more[Len(ds) + 1], n), NEW v, SealedBy(v, n, ds)
  PROVE  SealedBy(v, n, more)
<1>1. Len(ds) \in Nat
  BY LenProperties
<1>2. v \in 1..Len(ds) /\ v \in 1..Len(more) /\ more[v].disposition = "RELEASED"
  BY <1>1 DEF SealedBy
<1>3. \A k \in 1..Len(more) : Order(more[k], n) => k < v
  <2> SUFFICES ASSUME NEW k \in 1..Len(more), Order(more[k], n) PROVE k < v
    OBVIOUS
  <2>1. k # Len(ds) + 1
    OBVIOUS
  <2>2. k \in 1..Len(ds)
    BY <1>1, <2>1
  <2> QED
    BY <2>2 DEF SealedBy
<1> QED
  BY <1>2, <1>3 DEF SealedBy

\* The decisions of a step: the same ones, or one more that orders no rework.
NoOrder ==
  \/ decisions' = decisions
  \/ /\ Len(decisions') = Len(decisions) + 1
     /\ \A k \in 1..Len(decisions) : decisions'[k] = decisions[k]
     /\ \A n : ~Order(decisions'[Len(decisions) + 1], n)

LEMMA NoOrderKeepsSealed ==
  ASSUME TypeOK, NoOrder, NEW n, NEW v, SealedBy(v, n, decisions)
  PROVE  SealedBy(v, n, decisions')
<1>1. decisions \in Seq(Decision)
  BY DEF TypeOK
<1>2. CASE decisions' = decisions
  BY <1>2
<1>3. CASE /\ Len(decisions') = Len(decisions) + 1
           /\ \A k \in 1..Len(decisions) : decisions'[k] = decisions[k]
           /\ \A m : ~Order(decisions'[Len(decisions) + 1], m)
  BY <1>1, <1>3, StillSealed
<1> QED
  BY <1>2, <1>3 DEF NoOrder

\* A step that writes none of those columns and orders no rework.
LEMMA KeptKeepsVerified ==
  ASSUME VInv, Kept, NoOrder
  PROVE  VerifiedOK'
<1> SUFFICES ASSUME NEW n \in 1..Len(ncrs'), ncrs'[n].resolution = "rework",
                    ncrs'[n].verification = "PASSED"
             PROVE  SealedBy(ncrs'[n].verified, n, decisions')
  BY DEF VerifiedOK
<1>1. TypeOK /\ VerifiedOK /\ Len(ncrs) \in Nat
  BY LenProperties DEF VInv, IInv, TypeOK
<1>2. n \in 1..Len(ncrs)
  <2> SUFFICES ASSUME n \notin 1..Len(ncrs) PROVE FALSE
    OBVIOUS
  <2>1. n \in (Len(ncrs) + 1)..Len(ncrs')
    BY <1>1
  <2> QED
    BY <2>1 DEF Kept
<1>3. SameHuman(ncrs'[n], ncrs[n])
  BY <1>2 DEF Kept
<1>4. SealedBy(ncrs[n].verified, n, decisions) /\ ncrs'[n].verified = ncrs[n].verified
  BY <1>1, <1>2, <1>3 DEF VerifiedOK, SameHuman
<1>5. SealedBy(ncrs[n].verified, n, decisions')
  BY <1>1, <1>4, NoOrderKeepsSealed
<1> QED
  BY <1>4, <1>5

LEMMA KeptKeepsAgreed ==
  ASSUME VInv, Kept, \A c \in Controllers : session'[c] \in {session[c], None}
  PROVE  AgreeOK'
<1> SUFFICES ASSUME NEW c \in Controllers, session'[c] # None
             PROVE  SameHuman(session'[c].row, ncrs'[session'[c].ncr])
  BY DEF AgreeOK
<1>1. session'[c] = session[c] /\ session[c] # None
  OBVIOUS
<1>2. SameHuman(session[c].row, ncrs[session[c].ncr])
  BY <1>1 DEF VInv, AgreeOK
<1>3. session[c].ncr \in 1..Len(ncrs)
  BY <1>1, HandlerHolds, RolesAssumption DEF VInv, IInv
<1>4. SameHuman(ncrs'[session[c].ncr], ncrs[session[c].ncr])
  BY <1>3 DEF Kept
<1> QED
  BY <1>1, <1>2, <1>4 DEF SameHuman

LEMMA SameRowsAreKept ==
  ASSUME TypeOK, ncrs' = ncrs
  PROVE  Kept
<1>1. Len(ncrs) \in Nat
  BY LenProperties DEF TypeOK
<1> QED
  BY <1>1 DEF Kept, SameHuman

\* What a handler's commit does to those columns.
LEMMA WriteIs ==
  ASSUME TypeOK, SessionsOK, NEW h \in Handlers, session[h] # None, NEW new \in Ncr,
         Write(h, new)
  PROVE  LET n == session[h].ncr
             row == session[h].row IN
         /\ Len(ncrs') = Len(ncrs)
         /\ \A m \in 1..Len(ncrs) : m # n => ncrs'[m] = ncrs[m]
         /\ ncrs'[n].resolution = IF new.resolution # row.resolution
                                  THEN new.resolution ELSE ncrs[n].resolution
         /\ ncrs'[n].verification = IF new.verification # row.verification
                                    THEN new.verification ELSE ncrs[n].verification
         /\ ncrs'[n].verified = IF new.verified # row.verified
                                THEN new.verified ELSE ncrs[n].verified
<1> DEFINE n == session[h].ncr
           row == session[h].row
           e == Emit(ncrs[n], row, new)
<1>1. row \in Ncr /\ n \in 1..Len(ncrs) /\ ncrs \in Seq(Ncr) /\ ncrs[n] \in Ncr
  BY HandlerHolds, ElementOfSeq DEF TypeOK
<1>2. ncrs' = [ncrs EXCEPT ![n] = e]
  BY DEF Write
<1> HIDE DEF n, row
<1>3. /\ e \in Ncr
      /\ e.resolution = IF new.resolution # row.resolution
                        THEN new.resolution ELSE ncrs[n].resolution
      /\ e.verification = IF new.verification # row.verification
                          THEN new.verification ELSE ncrs[n].verification
      /\ e.verified = IF new.verified # row.verified THEN new.verified ELSE ncrs[n].verified
  <2> HIDE DEF e
  <2> QED
    BY <1>1, EmitNcr DEF e
<1> HIDE DEF e
<1>4. /\ Len(ncrs') = Len(ncrs)
      /\ \A m \in 1..Len(ncrs) : ncrs'[m] = IF m = n THEN e ELSE ncrs[m]
  BY <1>1, <1>2, <1>3, ExceptSeq
<1>5. ncrs'[n] = e
  BY <1>1, <1>4
<1> QED
  BY <1>3, <1>4, <1>5 DEF n, row

\* A handler that leaves those columns as it read them does not write them.
LEMMA UnwrittenIsKept ==
  ASSUME TypeOK, SessionsOK, NEW h \in Handlers, session[h] # None, NEW new \in Ncr,
         Write(h, new), SameHuman(new, session[h].row)
  PROVE  Kept
<1>1. session[h].ncr \in 1..Len(ncrs) /\ Len(ncrs) \in Nat
  BY HandlerHolds, LenProperties DEF TypeOK
<1>2. /\ Len(ncrs') = Len(ncrs)
      /\ \A m \in 1..Len(ncrs) : m # session[h].ncr => ncrs'[m] = ncrs[m]
      /\ ncrs'[session[h].ncr].resolution = ncrs[session[h].ncr].resolution
      /\ ncrs'[session[h].ncr].verification = ncrs[session[h].ncr].verification
      /\ ncrs'[session[h].ncr].verified = ncrs[session[h].ncr].verified
  BY WriteIs DEF SameHuman
<1>3. \A m \in 1..Len(ncrs) : SameHuman(ncrs'[m], ncrs[m])
  BY <1>2 DEF SameHuman
<1> QED
  BY <1>1, <1>2, <1>3 DEF Kept

\* The controller writes what it leaves in its session.
LEMMA ControllerWrites ==
  ASSUME VInv, NEW h \in Controllers, session[h] # None, NEW new \in Ncr, Write(h, new)
  PROVE  /\ Len(ncrs') = Len(ncrs)
         /\ \A m \in 1..Len(ncrs) : m # session[h].ncr => ncrs'[m] = ncrs[m]
         /\ SameHuman(ncrs'[session[h].ncr], new)
<1>1. TypeOK /\ SessionsOK /\ h \in Handlers
  BY RolesAssumption DEF VInv, IInv
<1>2. SameHuman(session[h].row, ncrs[session[h].ncr])
  BY DEF VInv, AgreeOK
<1>3. /\ Len(ncrs') = Len(ncrs)
      /\ \A m \in 1..Len(ncrs) : m # session[h].ncr => ncrs'[m] = ncrs[m]
      /\ ncrs'[session[h].ncr].resolution = new.resolution
      /\ ncrs'[session[h].ncr].verification = new.verification
      /\ ncrs'[session[h].ncr].verified = new.verified
  BY <1>1, <1>2, WriteIs DEF SameHuman
<1> QED
  BY <1>3 DEF SameHuman

\* The step property of VerifiedBeforeExport.
ExportOK ==
  \A d \in exported' \ exported :
    LET n == decisions'[d].ncr
        v == ncrs'[n].verified
    IN  ncrs'[n].resolution = "rework" =>
          /\ v # 0 /\ decisions'[v].disposition = "RELEASED"
          /\ \A k \in 1..(d - 1) :
               /\ decisions[k].ncr = n /\ decisions[k].verdict = "confirmed"
               /\ decisions[k].disposition = "REWORK_REQUIRED"
               => v > k

StepIsGood == VerifiedOK' /\ AgreeOK' /\ ExportOK

LEMMA NothingExported ==
  ASSUME exported' = exported
  PROVE  ExportOK
BY DEF ExportOK

\* A step that decides nothing and writes none of those columns.
LEMMA IdleIsGood ==
  ASSUME VInv, Kept, decisions' = decisions, exported' = exported,
         \A c \in Controllers : session'[c] \in {session[c], None}
  PROVE  StepIsGood
<1>1. NoOrder
  BY DEF NoOrder
<1> QED
  BY <1>1, KeptKeepsVerified, KeptKeepsAgreed, NothingExported DEF StepIsGood

LEMMA HandlerLeaves ==
  ASSUME SessionsOK, NEW h \in Handlers, session' = [session EXCEPT ![h] = None]
  PROVE  \A c \in Controllers : /\ session'[c] \in {session[c], None}
                                /\ c = h => session'[c] = None
BY RolesAssumption DEF SessionsOK

LEMMA ReplayLeaves ==
  ASSUME SessionsOK, NEW r \in Replays, NEW x, session' = [session EXCEPT ![r] = x]
  PROVE  \A c \in Controllers : session'[c] \in {session[c], None}
BY RolesAssumption DEF SessionsOK

LEMMA OpenIsGood ==
  ASSUME VInv, NEW h \in Handlers, NEW n \in 1..Len(ncrs), NEW sound \in BOOLEAN,
         Open(h, n, sound)
  PROVE  StepIsGood
<1>1. TypeOK /\ SessionsOK /\ AgreeOK
  BY DEF VInv, IInv
<1>2. PICK new : /\ session' = [session EXCEPT ![h] = new]
                 /\ new.ncr = n /\ new.row = ncrs[n]
  <2> DEFINE x == [ncr |-> n, row |-> ncrs[n], sound |-> sound,
                   reworked |-> view.rework[n] # 0,
                   good |-> \E g \in Observations : /\ view.trust[g] = "TRUSTED"
                                                    /\ DefectOf[g] = None
                                                    /\ g >= view.rework[n]]
  <2>1. session' = [session EXCEPT ![h] = x]
    BY Zenon DEF Open
  <2>2. x.ncr = n /\ x.row = ncrs[n]
    OBVIOUS
  <2> HIDE DEF x
  <2> QED
    BY <2>1, <2>2
<1>3. ncrs' = ncrs /\ decisions' = decisions /\ exported' = exported
  BY DEF Open, human
<1>4. Kept /\ NoOrder
  BY <1>1, <1>3, SameRowsAreKept DEF NoOrder
<1>5. VerifiedOK'
  BY <1>4, KeptKeepsVerified
<1>6. AgreeOK'
  <2> SUFFICES ASSUME NEW c \in Controllers, session'[c] # None
               PROVE  SameHuman(session'[c].row, ncrs[session'[c].ncr])
    BY <1>3 DEF AgreeOK
  <2>1. session'[c] = IF c = h THEN new ELSE session[c]
    BY <1>1, <1>2, RolesAssumption DEF SessionsOK
  <2>2. CASE c = h
    BY <1>2, <2>1, <2>2 DEF SameHuman
  <2>3. CASE c # h
    BY <1>1, <2>1, <2>3 DEF AgreeOK
  <2> QED
    BY <2>2, <2>3
<1> QED
  BY <1>3, <1>5, <1>6, NothingExported DEF StepIsGood

LEMMA ReviewIsGood ==
  ASSUME VInv, NEW h \in Handlers, NEW v \in Verdicts, Review(h, v)
  PROVE  StepIsGood
<1> DEFINE new == [session[h].row EXCEPT !.verdict = v]
<1>1. /\ session[h] # None /\ Write(h, new) /\ decisions' = decisions
      /\ exported' = exported /\ session' = [session EXCEPT ![h] = None]
  BY DEF Review, human, Write
<1>2. TypeOK /\ SessionsOK
  BY DEF VInv, IInv
<1>3. session[h].row \in Ncr
  BY <1>1, <1>2, HandlerHolds
<1>4. new \in Ncr /\ SameHuman(new, session[h].row)
  BY <1>3 DEF Ncr, SameHuman
<1> HIDE DEF new
<1>5. Kept
  BY <1>1, <1>2, <1>4, UnwrittenIsKept
<1> QED
  BY <1>1, <1>2, <1>5, HandlerLeaves, IdleIsGood

LEMMA RequestIsGood ==
  ASSUME VInv, NEW h \in Handlers, RequestInspection(h)
  PROVE  StepIsGood
<1> DEFINE new == [session[h].row EXCEPT !.verdict = "needs_extra_check"]
<1>1. /\ session[h] # None /\ Write(h, new) /\ exported' = exported
      /\ Decided(h, "needs_extra_check", session[h].row.disposition)
      /\ session' = [session EXCEPT ![h] = None]
  BY DEF RequestInspection, Write
<1>2. TypeOK /\ SessionsOK
  BY DEF VInv, IInv
<1>3. session[h].row \in Ncr
  BY <1>1, <1>2, HandlerHolds
<1>4. new \in Ncr /\ SameHuman(new, session[h].row)
  BY <1>3 DEF Ncr, SameHuman, Verdicts
<1> HIDE DEF new
<1>5. Kept
  BY <1>1, <1>2, <1>4, UnwrittenIsKept
<1>6. "needs_extra_check" \in Verdicts /\ session[h].row.disposition \in Dispositions
  BY <1>3 DEF Ncr, Verdicts
<1>7. NoOrder
  <2>1. /\ Len(decisions') = Len(decisions) + 1
        /\ \A k \in 1..Len(decisions) : decisions'[k] = decisions[k]
        /\ decisions'[Len(decisions) + 1].verdict = "needs_extra_check"
    <3> DEFINE d == session[h].row.disposition
    <3>1. "needs_extra_check" \in Verdicts /\ d \in Dispositions
          /\ Decided(h, "needs_extra_check", d) /\ session[h] # None
      BY <1>1, <1>6
    <3> HIDE DEF d
    <3>2. /\ Len(decisions') = Len(decisions) + 1
          /\ decisions'[Len(decisions) + 1] =
               [ncr |-> session[h].ncr, verdict |-> "needs_extra_check", disposition |-> d]
          /\ \A k \in 1..Len(decisions) : decisions'[k] = decisions[k]
      BY <1>2, <3>1, DecidedIs
    <3> QED
      BY <3>2
  <2> QED
    BY <2>1 DEF NoOrder, Order
<1> QED
  BY <1>1, <1>2, <1>5, <1>7, HandlerLeaves, KeptKeepsVerified, KeptKeepsAgreed,
     NothingExported DEF StepIsGood

\* The controller ends a request, and holds nothing then.
LEMMA ControllerAgrees ==
  ASSUME OneDecides, SessionsOK, NEW h \in Controllers,
         session' = [session EXCEPT ![h] = None]
  PROVE  AgreeOK'
<1>1. \A c \in Controllers : session'[c] = None
  BY HandlerLeaves, RolesAssumption DEF OneDecides
<1> QED
  BY <1>1 DEF AgreeOK

\* A decision on nonconformance n that writes no other row.
LEMMA OneRowVerified ==
  ASSUME VInv, NEW n \in 1..Len(ncrs), Len(ncrs') = Len(ncrs),
         \A m \in 1..Len(ncrs) : m # n => ncrs'[m] = ncrs[m],
         Len(decisions') = Len(decisions) + 1,
         \A k \in 1..Len(decisions) : decisions'[k] = decisions[k],
         decisions'[Len(decisions) + 1].ncr = n,
         ncrs'[n].resolution = "rework" /\ ncrs'[n].verification = "PASSED" =>
           SealedBy(ncrs'[n].verified, n, decisions')
  PROVE  VerifiedOK'
<1> SUFFICES ASSUME NEW m \in 1..Len(ncrs), m # n, ncrs'[m].resolution = "rework",
                    ncrs'[m].verification = "PASSED"
             PROVE  SealedBy(ncrs'[m].verified, m, decisions')
  BY DEF VerifiedOK
<1>1. ncrs'[m] = ncrs[m]
  OBVIOUS
<1>2. SealedBy(ncrs[m].verified, m, decisions)
  BY <1>1 DEF VInv, VerifiedOK
<1>3. decisions \in Seq(Decision) /\ ~Order(decisions'[Len(decisions) + 1], m)
  BY DEF VInv, IInv, TypeOK, Order
<1>4. SealedBy(ncrs[m].verified, m, decisions')
  BY <1>2, <1>3, StillSealed
<1> QED
  BY <1>1, <1>4

\* A result is exported with decision d: it is vouched for if the verification
\* that the row names is sealed among the decisions up to this one.
LEMMA ExportIsVouched ==
  ASSUME TypeOK, NEW n, Len(decisions') = Len(decisions) + 1,
         \A k \in 1..Len(decisions) : decisions'[k] = decisions[k],
         decisions'[Len(decisions) + 1].ncr = n,
         exported' = exported \cup {Len(decisions) + 1},
         ncrs'[n].resolution = "rework" => SealedBy(ncrs'[n].verified, n, decisions')
  PROVE  ExportOK
<1> DEFINE d == Len(decisions) + 1
<1>1. Len(decisions) \in Nat
  BY LenProperties DEF TypeOK
<1> SUFFICES ASSUME ncrs'[n].resolution = "rework"
             PROVE  /\ ncrs'[n].verified # 0
                    /\ decisions'[ncrs'[n].verified].disposition = "RELEASED"
                    /\ \A k \in 1..(d - 1) :
                         /\ decisions[k].ncr = n /\ decisions[k].verdict = "confirmed"
                         /\ decisions[k].disposition = "REWORK_REQUIRED"
                         => ncrs'[n].verified > k
  BY Zenon DEF ExportOK
<1>2. SealedBy(ncrs'[n].verified, n, decisions')
  OBVIOUS
<1>3. /\ ncrs'[n].verified \in 1..Len(decisions')
      /\ decisions'[ncrs'[n].verified].disposition = "RELEASED"
      /\ \A k \in 1..Len(decisions') : Order(decisions'[k], n) => k < ncrs'[n].verified
  BY <1>2 DEF SealedBy
<1>4. \A k \in 1..(d - 1) : k \in 1..Len(decisions) /\ k \in 1..Len(decisions')
  BY <1>1
<1>5. \A k \in 1..(d - 1) : Order(decisions[k], n) => ncrs'[n].verified > k
  BY <1>1, <1>3, <1>4
<1> QED
  BY <1>3, <1>5 DEF Order

LEMMA DecideIsGood ==
  ASSUME VInv, OneDecides, NEW h \in Controllers, NEW r \in Requests, Decide(h, r)
  PROVE  StepIsGood
<1> DEFINE row == [session[h].row EXCEPT !.verdict = r.verdict,
                                         !.disposition = r.disposition]
           closed == [row EXCEPT !.closed = TRUE]
           n == session[h].ncr
           d == Len(decisions) + 1
<1>1. /\ session[h] # None /\ Decided(h, r.verdict, r.disposition)
      /\ \/ /\ r.disposition = "IN_PROCESS"
            /\ Write(h, row)
            /\ exported' = exported
         \/ /\ r.disposition = "REWORK_REQUIRED"
            /\ Write(h, Ordered(row))
            /\ exported' = exported
         \/ /\ r.disposition = "RELEASED" /\ Authorized(row)
            /\ exported' = exported \cup {d}
            /\ Write(h, closed)
  BY Zenon DEF Decide
<1>2. TypeOK /\ SessionsOK /\ VerifiedOK /\ h \in Handlers
  BY RolesAssumption DEF VInv, IInv
<1>3. session[h].row \in Ncr /\ n \in 1..Len(ncrs)
  BY <1>1, <1>2, HandlerHolds
<1>4. r.verdict \in Verdicts /\ r.disposition \in Dispositions
  BY RequestsAssumption DEF Request, Verdicts
<1>5. /\ row \in Ncr /\ SameHuman(row, session[h].row)
      /\ closed \in Ncr /\ SameHuman(closed, session[h].row)
      /\ Ordered(row) \in Ncr /\ Ordered(row).verification = "PENDING"
  BY <1>3, <1>4 DEF Ncr, SameHuman, Ordered
<1>6. /\ Len(decisions') = Len(decisions) + 1
      /\ \A k \in 1..Len(decisions) : decisions'[k] = decisions[k]
      /\ decisions'[d] = [ncr |-> n, verdict |-> r.verdict, disposition |-> r.disposition]
  BY <1>1, <1>2, <1>4, DecidedIs
<1>7. session' = [session EXCEPT ![h] = None]
  BY <1>1 DEF Write
<1>8. AgreeOK'
  BY <1>2, <1>7, ControllerAgrees
<1>9. SameHuman(session[h].row, ncrs[n])
  BY <1>1 DEF VInv, AgreeOK
<1>10. decisions'[d].ncr = n /\ decisions'[d].disposition = r.disposition
  BY <1>6
<1> HIDE DEF row, closed, n
<1>11. CASE r.disposition = "IN_PROCESS"
  <2>1. Write(h, row) /\ exported' = exported
    BY <1>1, <1>11
  <2>2. Kept
    BY <1>1, <1>2, <1>5, <2>1, UnwrittenIsKept
  <2>3. NoOrder
    BY <1>6, <1>10, <1>11 DEF NoOrder, Order
  <2> QED
    BY <1>8, <2>1, <2>2, <2>3, KeptKeepsVerified, NothingExported DEF StepIsGood
<1>12. CASE r.disposition = "REWORK_REQUIRED"
  <2>1. Write(h, Ordered(row)) /\ exported' = exported
    BY <1>1, <1>12
  <2>2. /\ Len(ncrs') = Len(ncrs)
        /\ \A m \in 1..Len(ncrs) : m # n => ncrs'[m] = ncrs[m]
        /\ SameHuman(ncrs'[n], Ordered(row))
    BY <1>1, <1>5, <2>1, ControllerWrites DEF n
  <2>3. ncrs'[n].verification # "PASSED"
    BY <1>5, <2>2 DEF SameHuman
  <2>4. VerifiedOK'
    BY <1>3, <1>6, <1>10, <2>2, <2>3, OneRowVerified
  <2> QED
    BY <1>8, <2>1, <2>4, NothingExported DEF StepIsGood
<1>13. CASE r.disposition = "RELEASED"
  <2>1. Write(h, closed) /\ exported' = exported \cup {d} /\ Authorized(row)
    BY <1>1, <1>13
  <2>2. Kept
    BY <1>1, <1>2, <1>5, <2>1, UnwrittenIsKept
  <2>3. NoOrder
    BY <1>6, <1>10, <1>13 DEF NoOrder, Order
  <2>4. SameHuman(ncrs'[n], ncrs[n])
    BY <1>3, <2>2 DEF Kept
  <2>5. ASSUME ncrs'[n].resolution = "rework"
        PROVE  SealedBy(ncrs'[n].verified, n, decisions')
    <3>1. row.resolution = "rework" /\ row.verification = ncrs[n].verification
          /\ ncrs[n].resolution = "rework" /\ ncrs'[n].verified = ncrs[n].verified
      BY <1>5, <1>9, <2>4, <2>5 DEF SameHuman
    <3>2. ncrs[n].verification = "PASSED"
      BY <2>1, <3>1 DEF Authorized
    <3>3. SealedBy(ncrs[n].verified, n, decisions)
      BY <1>2, <1>3, <3>1, <3>2 DEF VerifiedOK
    <3>4. SealedBy(ncrs[n].verified, n, decisions')
      BY <1>2, <2>3, <3>3, NoOrderKeepsSealed
    <3> QED
      BY <3>1, <3>4
  <2>6. ExportOK
    BY <1>2, <1>6, <1>10, <2>1, <2>5, ExportIsVouched
  <2> QED
    BY <1>8, <2>2, <2>3, <2>6, KeptKeepsVerified DEF StepIsGood
<1> QED
  BY <1>4, <1>11, <1>12, <1>13 DEF Dispositions

LEMMA VerifyIsGood ==
  ASSUME VInv, OneDecides, NEW h \in Controllers, NEW passed \in BOOLEAN,
         VerifyRework(h, passed)
  PROVE  StepIsGood
<1> DEFINE n == session[h].ncr
           d == Len(decisions) + 1
           row == [session[h].row EXCEPT !.verified = d]
           good == [row EXCEPT !.verification = "PASSED", !.resolution = "rework",
                               !.disposition = "RELEASED", !.closed = TRUE]
           bad == [row EXCEPT !.verification = "FAILED",
                              !.disposition = "REWORK_REQUIRED"]
<1>1. /\ session[h] # None
      /\ \/ /\ Decided(h, "confirmed", "RELEASED")
            /\ exported' = exported \cup {d}
            /\ Write(h, good)
         \/ /\ Decided(h, "confirmed", "REWORK_REQUIRED")
            /\ Write(h, bad)
            /\ exported' = exported
  BY Zenon DEF VerifyRework
<1>2. TypeOK /\ SessionsOK /\ VerifiedOK /\ h \in Handlers
  BY RolesAssumption DEF VInv, IInv
<1>3. session[h].row \in Ncr /\ n \in 1..Len(ncrs)
  BY <1>1, <1>2, HandlerHolds
<1>4. Len(decisions) \in Nat /\ Len(decisions) < MaxDecisions /\ MaxDecisions \in Nat
  BY <1>1, <1>2, LenProperties, BoundsAssumption DEF TypeOK, Decided
<1>5. /\ good \in Ncr /\ good.verified = d
      /\ bad \in Ncr /\ bad.verification = "FAILED"
  <2>1. row \in Ncr /\ row.verified = d
    BY <1>3, <1>4 DEF Ncr
  <2> HIDE DEF row
  <2> QED
    BY <2>1 DEF Ncr, Dispositions
<1>6. "confirmed" \in Verdicts /\ "RELEASED" \in Dispositions
      /\ "REWORK_REQUIRED" \in Dispositions
  BY DEF Verdicts, Dispositions
<1>7. session' = [session EXCEPT ![h] = None]
  BY <1>1 DEF Write
<1>8. AgreeOK'
  BY <1>2, <1>7, ControllerAgrees
<1> HIDE DEF n, row, good, bad
<1>9. CASE Decided(h, "confirmed", "RELEASED") /\ exported' = exported \cup {d}
           /\ Write(h, good)
  <2>1. /\ Len(decisions') = Len(decisions) + 1
        /\ \A k \in 1..Len(decisions) : decisions'[k] = decisions[k]
        /\ decisions'[d] = [ncr |-> n, verdict |-> "confirmed", disposition |-> "RELEASED"]
    BY <1>1, <1>2, <1>6, <1>9, DecidedIs DEF n
  <2>2. decisions'[d].ncr = n /\ decisions'[d].disposition = "RELEASED"
    BY <2>1
  <2>3. /\ Len(ncrs') = Len(ncrs)
        /\ \A m \in 1..Len(ncrs) : m # n => ncrs'[m] = ncrs[m]
        /\ SameHuman(ncrs'[n], good)
    BY <1>1, <1>5, <1>9, ControllerWrites DEF n
  <2>4. ncrs'[n].verified = d
    BY <1>5, <2>3 DEF SameHuman
  <2>5. SealedBy(d, n, decisions')
    <3>1. d \in 1..Len(decisions')
      BY <1>4, <2>1
    <3>2. \A k \in 1..Len(decisions') : Order(decisions'[k], n) => k < d
      <4>1. \A k \in 1..Len(decisions') : k # d => k < d
        BY <1>4, <2>1
      <4>2. ~Order(decisions'[d], n)
        BY <2>2 DEF Order
      <4> QED
        BY <4>1, <4>2
    <3> QED
      BY <2>2, <3>1, <3>2 DEF SealedBy
  <2>6. SealedBy(ncrs'[n].verified, n, decisions')
    BY <2>4, <2>5
  <2>7. VerifiedOK'
    BY <1>3, <2>1, <2>2, <2>3, <2>6, OneRowVerified
  <2>8. ExportOK
    BY <1>2, <1>9, <2>1, <2>2, <2>6, ExportIsVouched
  <2> QED
    BY <1>8, <2>7, <2>8 DEF StepIsGood
<1>10. CASE Decided(h, "confirmed", "REWORK_REQUIRED") /\ exported' = exported
            /\ Write(h, bad)
  <2>1. /\ Len(decisions') = Len(decisions) + 1
        /\ \A k \in 1..Len(decisions) : decisions'[k] = decisions[k]
        /\ decisions'[d] =
             [ncr |-> n, verdict |-> "confirmed", disposition |-> "REWORK_REQUIRED"]
    BY <1>1, <1>2, <1>6, <1>10, DecidedIs DEF n
  <2>2. decisions'[d].ncr = n
    BY <2>1
  <2>3. /\ Len(ncrs') = Len(ncrs)
        /\ \A m \in 1..Len(ncrs) : m # n => ncrs'[m] = ncrs[m]
        /\ SameHuman(ncrs'[n], bad)
    BY <1>1, <1>5, <1>10, ControllerWrites DEF n
  <2>4. ncrs'[n].verification # "PASSED"
    BY <1>5, <2>3 DEF SameHuman
  <2>5. VerifiedOK'
    BY <1>3, <2>1, <2>2, <2>3, <2>4, OneRowVerified
  <2> QED
    BY <1>8, <1>10, <2>5, NothingExported DEF StepIsGood
<1> QED
  BY <1>1, <1>9, <1>10


\* Rebuilds, facts and errors leave what a controller decides by.
LEMMA StillIsGood ==
  ASSUME VInv, ncrs' = ncrs, decisions' = decisions, exported' = exported,
         \A c \in Controllers : session'[c] \in {session[c], None}
  PROVE  StepIsGood
<1>1. Kept
  BY SameRowsAreKept DEF VInv, IInv
<1> QED
  BY <1>1, IdleIsGood

LEMMA ReplayIsIdle ==
  ASSUME VInv, NEW r \in Replays, StartReplay(r) \/ FailReplay(r)
  PROVE  StepIsGood
<1>1. SessionsOK
  BY DEF VInv, IInv
<1>2. ncrs' = ncrs /\ decisions' = decisions /\ exported' = exported
  BY DEF StartReplay, FailReplay, human
<1>3. \E x : session' = [session EXCEPT ![r] = x]
  BY Zenon DEF StartReplay, FailReplay
<1>4. \A c \in Controllers : session'[c] \in {session[c], None}
  BY <1>1, <1>3, ReplayLeaves
<1> QED
  BY <1>2, <1>4, StillIsGood

LEMMA CommitIsGood ==
  ASSUME VInv, NEW r \in Replays, CommitReplay(r)
  PROVE  StepIsGood
<1>1. IInv /\ SessionsOK
  BY DEF VInv, IInv
<1>2. /\ session' = [session EXCEPT ![r] = None]
      /\ decisions' = decisions /\ exported' = exported
  BY DEF CommitReplay, human
<1>3. Kept
  BY <1>1, CommitIs
<1>4. \A c \in Controllers : session'[c] \in {session[c], None}
  BY <1>1, <1>2, ReplayLeaves
<1> QED
  BY <1>2, <1>3, <1>4, IdleIsGood

LEMMA RefuseIsGood ==
  ASSUME VInv, NEW h \in Handlers, Refuse(h)
  PROVE  StepIsGood
<1>1. SessionsOK
  BY DEF VInv, IInv
<1>2. /\ session' = [session EXCEPT ![h] = None]
      /\ ncrs' = ncrs /\ decisions' = decisions /\ exported' = exported
  BY DEF Refuse, human
<1>3. \A c \in Controllers : session'[c] \in {session[c], None}
  BY <1>1, <1>2, HandlerLeaves
<1> QED
  BY <1>2, <1>3, StillIsGood

LEMMA InitVerified == Init => VInv
<1>1. Init => IInv
  BY InitOK
<1>2. Init => VerifiedOK
  BY DEF Init, VerifiedOK
<1>3. Init => AgreeOK
  BY RolesAssumption DEF Init, AgreeOK
<1> QED
  BY <1>1, <1>2, <1>3 DEF VInv

LEMMA StepVerified ==
  ASSUME OneDecides, VInv, [Next]_vars
  PROVE  VInv' /\ ExportOK
<1>1. ASSUME NEW r \in Replays, StartReplay(r) \/ FailReplay(r) PROVE StepIsGood
  BY <1>1, ReplayIsIdle
<1>2. ASSUME NEW r \in Replays, CommitReplay(r) PROVE StepIsGood
  BY <1>2, CommitIsGood
<1>3. ASSUME NEW o \in Observations, NEW t \in Trust, Judge(o, t) PROVE StepIsGood
  BY <1>3, StillIsGood DEF Judge, human
<1>4. ASSUME NEW n \in 1..Len(ncrs), NEW o \in ReworkEnds, FinishRework(n, o) PROVE StepIsGood
  BY <1>4, StillIsGood DEF FinishRework, human
<1>5. ASSUME NEW h \in Handlers, NEW n \in 1..Len(ncrs), NEW sound \in BOOLEAN,
             Open(h, n, sound)
      PROVE  StepIsGood
  BY <1>5, OpenIsGood
<1>6. ASSUME NEW h \in Handlers, Refuse(h) PROVE StepIsGood
  BY <1>6, RefuseIsGood
<1>7. ASSUME NEW h \in Handlers, RequestInspection(h) PROVE StepIsGood
  BY <1>7, RequestIsGood
<1>8. ASSUME NEW h \in Handlers, NEW v \in Verdicts, Review(h, v) PROVE StepIsGood
  BY <1>8, ReviewIsGood
<1>9. ASSUME NEW h \in Controllers, NEW r \in Requests, Decide(h, r) PROVE StepIsGood
  BY <1>9, DecideIsGood
<1>10. ASSUME NEW h \in Controllers, NEW passed \in BOOLEAN, VerifyRework(h, passed)
       PROVE  StepIsGood
  BY <1>10, VerifyIsGood
<1>11. ASSUME UNCHANGED vars PROVE StepIsGood
  BY <1>11, StillIsGood DEF vars, human
<1>12. StepIsGood
  BY <1>1, <1>2, <1>3, <1>4, <1>5, <1>6, <1>7, <1>8, <1>9, <1>10, <1>11, Zenon DEF Next
<1>13. IInv'
  BY StepOK DEF VInv
<1> QED
  BY <1>12, <1>13 DEF StepIsGood, VInv

\* Where one controller decides, a reworked nonconformance is exported only after a
\* verification that passed and that every confirmed order to rework it precedes,
\* whatever rebuilds, reviews and inspection requests commit in between
\* (OutboundReleasePolicy.authorize, decide_nonconformance, verify_rework).
THEOREM VerifiedFirst ==
  ASSUME OneDecides
  PROVE  Spec => VerifiedBeforeExport
<1>1. Init => VInv
  BY InitVerified
<1>2. VInv /\ [Next]_vars => VInv'
  BY StepVerified
<1>3. VInv /\ [Next]_vars => [ExportOK]_vars
  BY StepVerified
<1>4. Spec => [][ExportOK]_vars
  BY <1>1, <1>2, <1>3, PTL DEF Spec
<1> QED
  BY <1>4 DEF VerifiedBeforeExport, ExportOK
=============================================================================
