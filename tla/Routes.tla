-------------------------------- MODULE Routes --------------------------------
(***************************************************************************)
(* Routes and their revisions (api/routes.py), the trigger that protects   *)
(* an activated revision (migration 20260925_0002), and the revision an    *)
(* item is pinned to when it is registered (projections/rebuild.py).       *)
(*                                                                         *)
(* No handler locks a row.  It reads, one SELECT after the other, each of  *)
(* what is committed by then, and its commit writes the columns that       *)
(* differ from what it has read; unique keys and the trigger judge the     *)
(* rows as they are by then, and a refusal rolls everything back and is    *)
(* answered 500.  Revisions are named by the order of their commits.       *)
(* Steps are left out: they are checked before anything is written, and no *)
(* handler changes them.                                                   *)
(***************************************************************************)
EXTENDS Integers, Sequences, FiniteSets

CONSTANTS
  Codes,         \* route codes
  Seeded,        \* those that seed.py creates, with an active revision
  Items,
  RouteOf,       \* the route an item's registration names
  AskedOf,       \* the revision number it asks for, or 0
  Threads,       \* threads of the API and of the ingestion
  None,
  MaxRevisions   \* bound on revisions

ASSUME RoutesAssumption ==
  /\ Seeded \subseteq Codes /\ IsFiniteSet(Seeded)
  /\ RouteOf \in [Items -> Codes]
  /\ AskedOf \in [Items -> Nat]
  /\ MaxRevisions \in Nat /\ Cardinality(Seeded) <= MaxRevisions
  /\ None \notin Codes \cup Items

VARIABLES
  routes,     \* the row of each code, None without one
  revisions,  \* rows of route_revisions
  pins,       \* the revision of each item, None before it is registered
  jobs,       \* what each thread has read, None between requests
  loose       \* history: revisions of each route that became active while no
              \* other ceased to be

rows == <<routes, revisions, pins>>
vars == <<rows, jobs, loose>>

-----------------------------------------------------------------------------
(* Rows. *)

Revisions == 1..MaxRevisions

\* active: active_revision_id, 0 for NULL.
Route == [active : 0..MaxRevisions]

\* frozen: immutable_after is set.
Revision == [code : Codes, number : Revisions,
             status : {"draft", "active", "superseded"}, frozen : BOOLEAN]

\* route and number: the row and the maximal revision number that were read.
Add == [op : {"create", "revise", "import"}, code : Codes, route : Route \cup {None},
        number : 0..MaxRevisions, activate : BOOLEAN]

\* row, old: the revision, and the one its route named as active; None until
\* they are read, and old for ever if there was no other one.
Activate == [op : {"activate"}, code : Codes, route : Route, of : Revisions,
             row : Revision \cup {None}, old : Revision \cup {None}]
Pin == [op : {"pin"}, item : Items, revision : 0..MaxRevisions]

\* None is neither a row nor a request.
ASSUME NoneIsNoRow ==
  /\ None \notin Route /\ None \notin Revision
  /\ None \notin Add \cup Activate \cup Pin

RevisionsOf(c) == {k \in DOMAIN revisions : revisions[k].code = c}
ActiveOf(c) == {k \in RevisionsOf(c) : revisions[k].status = "active"}
NumbersOf(c) == {revisions[k].number : k \in RevisionsOf(c)}

\* func.max of the revision numbers, or 0.
LastNumber(c) ==
  CHOOSE n \in NumbersOf(c) \cup {0} : \A m \in NumbersOf(c) : m <= n

\* What a commit writes: the columns whose value differs from the one loaded.
Emit(row, loaded, new) ==
  [f \in DOMAIN row |-> IF new[f] # loaded[f] THEN new[f] ELSE row[f]]

Serves(p, op) == jobs[p] # None /\ jobs[p].op = op
Done(p) == jobs' = [jobs EXCEPT ![p] = None]

\* A unique key or the trigger refuses: 500, and nothing is written.
Refuse(p) == Done(p) /\ UNCHANGED <<rows, loose>>

-----------------------------------------------------------------------------
(* New revisions. *)

\* create_route and import_route look for the code, create_revision has the
\* route; _create_revision then reads the last number.
AddRead(p, c, op, activate) ==
  /\ jobs[p] = None
  /\ Len(revisions) < MaxRevisions
  /\ op = "create" => routes[c] = None
  /\ op = "revise" => routes[c] # None
  /\ activate => op = "import"
  /\ jobs' = [jobs EXCEPT ![p] =
       [op |-> op, code |-> c, route |-> routes[c], number |-> LastNumber(c),
        activate |-> activate]]
  /\ UNCHANGED <<rows, loose>>

\* A slip: no unique keys on the code and on (route, revision).
Fits_Always(j) == Len(revisions) < MaxRevisions

\* The unique keys: the code of a new route, and its (route, revision).
Fits(j) ==
  /\ j.route = None => routes[j.code] = None
  /\ j.number + 1 \notin NumbersOf(j.code)
  /\ Len(revisions) < MaxRevisions

\* The revision is a draft, or active and frozen if an import says so; that
\* supersedes nothing.
AddCommit(p) ==
  /\ \E op \in {"create", "revise", "import"} : Serves(p, op)
  /\ LET j == jobs[p]
         k == Len(revisions) + 1
         loaded == IF j.route = None THEN [active |-> 0] ELSE j.route
         row == IF routes[j.code] = None THEN loaded ELSE routes[j.code]
         new == IF j.activate THEN [loaded EXCEPT !.active = k] ELSE loaded
     IN  IF ~Fits(j)
           THEN Refuse(p)
           ELSE /\ revisions' = Append(revisions,
                     [code |-> j.code, number |-> j.number + 1, frozen |-> j.activate,
                      status |-> IF j.activate THEN "active" ELSE "draft"])
                /\ routes' = [routes EXCEPT ![j.code] = Emit(row, loaded, new)]
                /\ loose' = IF j.activate THEN [loose EXCEPT ![j.code] = @ + 1] ELSE loose
                /\ Done(p)
                /\ UNCHANGED pins

-----------------------------------------------------------------------------
(* Activation. *)

\* The route is read.
ActivateRead(p, k) ==
  /\ jobs[p] = None
  /\ LET c == revisions[k].code
     IN  jobs' = [jobs EXCEPT ![p] =
           [op |-> "activate", code |-> c, route |-> routes[c], of |-> k,
            row |-> None, old |-> None]]
  /\ UNCHANGED <<rows, loose>>

\* Then the revision to activate.
RevisionRead(p) ==
  /\ Serves(p, "activate") /\ jobs[p].row = None
  /\ jobs' = [jobs EXCEPT ![p].row = revisions[jobs[p].of]]
  /\ UNCHANGED <<rows, loose>>

\* The route that was read names another revision as active.
Former(j) == j.route.active \notin {0, j.of}

\* And that one: it may have been superseded since the route was read.
FormerRead(p) ==
  /\ Serves(p, "activate") /\ jobs[p].row # None
  /\ Former(jobs[p]) /\ jobs[p].old = None
  /\ jobs' = [jobs EXCEPT ![p].old = revisions[jobs[p].route.active]]
  /\ UNCHANGED <<rows, loose>>

\* A slip: no trigger.
Allowed_Always(row, new) == TRUE

\* trg_route_revision_immutable: a frozen row only goes from active to
\* superseded.
Allowed(row, new) ==
  row.frozen => row.status = "active" /\ new = [row EXCEPT !.status = "superseded"]

\* The UPDATE of a row that was read as loaded; it fires the trigger if it
\* writes anything.
Passes(row, loaded, new) == new = loaded \/ Allowed(row, Emit(row, loaded, new))

\* One more is active than before: the route named none, or the one it named
\* was read as superseded already, and is not written.
Loose(j) == \/ j.route.active = 0
            \/ Former(j) /\ j.old.status = "superseded"

ActivateCommit(p) ==
  /\ Serves(p, "activate") /\ jobs[p].row # None
  /\ Former(jobs[p]) => jobs[p].old # None
  /\ LET j == jobs[p]
         k == j.of
         o == j.route.active
         new == [j.row EXCEPT !.status = "active", !.frozen = TRUE]
         gone == [j.old EXCEPT !.status = "superseded"]
         fails == \/ ~Passes(revisions[k], j.row, new)
                  \/ Former(j) /\ ~Passes(revisions[o], j.old, gone)
     IN  IF fails
           THEN Refuse(p)
           ELSE /\ revisions' = [i \in DOMAIN revisions |->
                     IF i = k THEN Emit(revisions[i], j.row, new)
                     ELSE IF i = o THEN Emit(revisions[i], j.old, gone)
                     ELSE revisions[i]]
                /\ routes' = [routes EXCEPT ![j.code] =
                     Emit(@, j.route, [j.route EXCEPT !.active = k])]
                /\ loose' = IF Loose(j) THEN [loose EXCEPT ![j.code] = @ + 1] ELSE loose
                /\ Done(p)
                /\ UNCHANGED pins

-----------------------------------------------------------------------------
(* Registration. *)

\* A slip: the newest revision instead of the active one.
Resolved_Newest(i) ==
  LET c == RouteOf[i]
      asked == {k \in RevisionsOf(c) : revisions[k].number = AskedOf[i]}
  IN  IF routes[c] = None THEN 0
      ELSE IF AskedOf[i] # 0
        THEN IF asked = {} THEN 0 ELSE CHOOSE k \in asked : TRUE
      ELSE CHOOSE k \in RevisionsOf(c) : revisions[k].number = LastNumber(c)

\* A slip: the number that is asked for is taken as it is.
Resolved_Unchecked(i) ==
  IF routes[RouteOf[i]] = None THEN 0
  ELSE IF AskedOf[i] # 0 THEN AskedOf[i] ELSE routes[RouteOf[i]].active

\* The revision a registration resolves to: the one it asks for, or the one
\* that is active; 0 if there is none.
Resolved(i) ==
  LET c == RouteOf[i]
      asked == {k \in RevisionsOf(c) : revisions[k].number = AskedOf[i]}
  IN  IF routes[c] = None THEN 0
      ELSE IF AskedOf[i] # 0
        THEN IF asked = {} THEN 0 ELSE CHOOSE k \in asked : TRUE
      ELSE routes[c].active

\* A rebuild reads the routes; the item's lock keeps other rebuilds out.
PinRead(p, i) ==
  /\ jobs[p] = None
  /\ \A q \in Threads : Serves(q, "pin") => jobs[q].item # i
  /\ jobs' = [jobs EXCEPT ![p] =
       [op |-> "pin", item |-> i, revision |-> Resolved(i)]]
  /\ UNCHANGED <<rows, loose>>

\* An item that is registered keeps its revision, even if it has none.
Pinned(i, k) == IF pins[i] = None THEN k ELSE pins[i]

PinCommit(p) ==
  /\ Serves(p, "pin")
  /\ pins' = [pins EXCEPT ![jobs[p].item] = Pinned(jobs[p].item, jobs[p].revision)]
  /\ Done(p)
  /\ UNCHANGED <<routes, revisions, loose>>

\* The process dies, or the database fails.
Abort(p) == jobs[p] # None /\ Refuse(p)

-----------------------------------------------------------------------------
\* seed.py: a seeded route has one revision, number 1, active and frozen.
Init ==
  /\ \E seed \in [1..Cardinality(Seeded) -> Seeded] :
       /\ \A j, k \in DOMAIN seed : seed[j] = seed[k] => j = k
       /\ revisions = [k \in DOMAIN seed |->
            [code |-> seed[k], number |-> 1, status |-> "active", frozen |-> TRUE]]
       /\ routes = [c \in Codes |-> IF c \in Seeded
            THEN [active |-> CHOOSE k \in DOMAIN seed : seed[k] = c] ELSE None]
  /\ pins = [i \in Items |-> None]
  /\ jobs = [p \in Threads |-> None]
  /\ loose = [c \in Codes |-> IF c \in Seeded THEN 1 ELSE 0]

Next ==
  \/ \E p \in Threads, c \in Codes, op \in {"create", "revise", "import"},
       activate \in BOOLEAN : AddRead(p, c, op, activate)
  \/ \E p \in Threads, k \in DOMAIN revisions : ActivateRead(p, k)
  \/ \E p \in Threads, i \in Items : PinRead(p, i)
  \/ \E p \in Threads : RevisionRead(p) \/ FormerRead(p)
  \/ \E p \in Threads : AddCommit(p) \/ ActivateCommit(p) \/ PinCommit(p) \/ Abort(p)

Spec == Init /\ [][Next]_vars

-----------------------------------------------------------------------------
(* Properties. *)

\* Every variable keeps its type (models RouteDefinition, RouteRevision, Item).
TypeOK ==
  /\ routes \in [Codes -> [active : {0} \cup DOMAIN revisions] \cup {None}]
  /\ revisions \in Seq(Revision) /\ Len(revisions) <= MaxRevisions
  /\ pins \in [Items -> {None, 0} \cup DOMAIN revisions]
  /\ jobs \in [Threads -> Add \cup Activate \cup Pin \cup {None}]
  /\ loose \in [Codes -> Nat]

\* The revisions of a route are numbered 1, 2, ... without gap or repetition,
\* although _create_revision takes the number from an unlocked read.
NumbersDense ==
  \A c \in Codes :
    /\ NumbersOf(c) = 1..Cardinality(RevisionsOf(c))
    /\ routes[c] = None => RevisionsOf(c) = {}

\* An activation supersedes one revision for the one that it activates
\* (activate_revision): however activations overlap, a route has no more active
\* revisions than became so while none ceased to be, and while that is one at
\* most, the one it names is active and no other.  Two that read the same former
\* revision as active cannot both commit: the trigger refuses the second.  What
\* adds to the number is an import that activates, a first activation, and one
\* that another overtakes between its reads.
OneInOneOut ==
  \A c \in Codes :
    /\ Cardinality(ActiveOf(c)) <= loose[c]
    /\ routes[c] # None /\ loose[c] <= 1 => ActiveOf(c) = {routes[c].active} \ {0}

\* A superseded revision never comes back, and what was frozen stays frozen
\* (activate_revision of an earlier revision; the trigger).
SupersededStays ==
  [][\A k \in DOMAIN revisions :
       /\ revisions[k].status = "superseded" => revisions'[k].status = "superseded"
       /\ revisions[k].frozen => revisions'[k].frozen]_vars

\* An item that asks for no revision is pinned to one that had been activated,
\* however long ago it was read (docs/routes.md; rebuild_item).
DefaultPinIsFrozen ==
  \A i \in Items :
    pins[i] \notin {None, 0} /\ AskedOf[i] = 0 => revisions[pins[i]].frozen
=============================================================================
