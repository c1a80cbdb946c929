---------------------------- MODULE Nonconformance ----------------------------
(***************************************************************************)
(* Nonconformances of one item: the replay that opens and analyses them    *)
(* (projections/rebuild.py, quality/birth_window.py) and the handlers that *)
(* decide on them (api/nonconformances.py, quality/release.py).            *)
(*                                                                         *)
(* A handler reads a nonconformance without a lock, and its commit writes  *)
(* the columns that differ from what it read.  A replay holds the item's   *)
(* projection row and advisory lock, which no handler asks for.  An        *)
(* occurrence and its nonconformance are opened, and closed, together: one *)
(* row here.  Observations are numbered in business order.  SCRAPPED and   *)
(* USE_AS_IS are exported like RELEASED, which stands for all three.       *)
(* Containment, notes and reasons are left out.                            *)
(***************************************************************************)
EXTENDS Integers, Sequences

CONSTANTS
  Handlers,        \* threads of the API that serve requests on nonconformances
  Controllers,     \* those that may also serve decisions and rework verifications
  Replays,         \* event loops and threads that rebuild the item
  Defects,         \* defect keys: type and component
  NumObs,          \* number of inspections of the item
  DefectOf,        \* the defect an inspection detects, or None
  JudgedAs,        \* how a replay may come to judge each inspection
  ReworkEnds,      \* the inspections that a rework run may end right before
  Requests,        \* bodies of the decisions that controllers send
  None,
  MaxNcrs,         \* bound on nonconformances
  MaxVersions,     \* bound on analysis versions of a nonconformance
  MaxDecisions     \* bound on decisions

Observations == 1..NumObs

ASSUME RolesAssumption ==
  /\ Controllers \subseteq Handlers
  /\ Handlers \cap Replays = {}
  /\ None \notin Handlers \cup Replays \cup Defects

ASSUME ObservationsAssumption ==
  /\ NumObs \in Nat
  /\ DefectOf \in [Observations -> Defects \cup {None}]
  /\ ReworkEnds \subseteq 1..(NumObs + 1)
  /\ JudgedAs \in [Observations -> SUBSET {"TRUSTED", "DOUBTFUL", "INVALIDATED"}]

ASSUME BoundsAssumption ==
  /\ {MaxNcrs, MaxVersions, MaxDecisions} \subseteq Nat
  /\ MaxVersions >= 1

VARIABLES
  log,        \* committed facts: trust of the inspections, completed rework
  view,       \* the facts as the last replay projected them
  ncrs,       \* nonconformances, in the order they were opened
  analyses,   \* the analysis versions of each nonconformance
  decisions,  \* controller_decisions, in the order of their commits
  exported,   \* the decisions with a QualityResult and an OutboxMessage
  lock,       \* the replay that holds the item's lock
  session     \* what a handler or a replay has read, None between requests

facts == <<log, view>>
human == <<decisions, exported>>
vars  == <<facts, ncrs, analyses, human, lock, session>>

-----------------------------------------------------------------------------
(* Rows. *)

\* DOUBTFUL: UNTRUSTED, UNASSESSABLE or CONFLICTED.
Trust == {"ABSENT", "TRUSTED", "DOUBTFUL", "INVALIDATED"}
Verdicts == {"pending_review", "needs_extra_check", "confirmed", "rejected"}
Dispositions == {"IN_PROCESS", "REWORK_REQUIRED", "RELEASED"}

\* rework: for each nonconformance, 0 or the first inspection that does not
\* take place before the end of its last completed rework run.
Facts == [trust : [Observations -> Trust], rework : [1..MaxNcrs -> 0..(NumObs + 1)]]

\* first: the inspection that opened the row; verified: verification_decision_id.
Ncr == [defect : Defects, first : Observations, verdict : Verdicts,
        disposition : Dispositions, resolution : {"none", "rework"},
        verification : {"none", "PENDING", "PASSED", "FAILED"},
        verified : 0..MaxDecisions, closed : BOOLEAN, version : 1..MaxVersions]

\* left = 0: LEFT_OPEN.  right = 0: EVIDENCE_INVALIDATED.
Window == [left : 0..NumObs, right : 0..NumObs]

Request == [verdict : {"confirmed", "rejected"}, disposition : Dispositions]
Decision == [ncr : 1..MaxNcrs, verdict : Verdicts, disposition : Dispositions]

ASSUME RequestsAssumption == Requests \subseteq Request

\* A slip: the UPDATE writes every column of the loaded row.
Emit_AllColumns(row, loaded, new) == new

\* What a commit writes: the columns whose value differs from the one loaded.
Emit(row, loaded, new) ==
  [f \in DOMAIN row |-> IF new[f] # loaded[f] THEN new[f] ELSE row[f]]

-----------------------------------------------------------------------------
(* Replay. *)

\* calculate_birth_window: from the last trusted good inspection to the defect.
BirthWindow(trust, o) ==
  LET good == {g \in 1..(o - 1) : trust[g] = "TRUSTED" /\ DefectOf[g] = None}
  IN  [left |-> IF good = {} THEN 0 ELSE CHOOSE g \in good : \A h \in good : h <= g,
       right |-> o]

Invalidated == [left |-> 0, right |-> 0]

\* A slip: the version of a new row counts from zero.
Opened_FromZero(trust, o) ==
  [defect |-> DefectOf[o], first |-> o,
   verdict |-> IF trust[o] = "TRUSTED" THEN "pending_review" ELSE "needs_extra_check",
   disposition |-> "IN_PROCESS", resolution |-> "none", verification |-> "none",
   verified |-> 0, closed |-> FALSE, version |-> 0]

\* The nonconformance a replay opens for the defect of inspection o.
Opened(trust, o) ==
  [defect |-> DefectOf[o], first |-> o,
   verdict |-> IF trust[o] = "TRUSTED" THEN "pending_review" ELSE "needs_extra_check",
   disposition |-> "IN_PROCESS", resolution |-> "none", verification |-> "none",
   verified |-> 0, closed |-> FALSE, version |-> 1]

\* A slip: a window that any earlier version has is not added again.
NextVersion_AnyVersion(trust, o, versions) ==
  LET new == IF trust[o] = "TRUSTED" THEN BirthWindow(trust, o) ELSE Invalidated
      has == \E k \in DOMAIN versions : versions[k] = new
  IN  IF trust[o] = "DOUBTFUL" \/ has THEN versions ELSE Append(versions, new)

\* What a replay adds to the versions of a nonconformance for inspection o: the
\* window of a trusted defect unless the latest version has it already; a note
\* that the evidence is invalidated, unless that is the latest version.
NextVersion(trust, o, versions) ==
  LET new == IF trust[o] = "TRUSTED" THEN BirthWindow(trust, o) ELSE Invalidated
      has == versions # <<>> /\ versions[Len(versions)] = new
  IN  IF trust[o] = "DOUBTFUL" \/ has THEN versions ELSE Append(versions, new)

\* Inspection o in a replay that works on the rows w.
Inspect(trust, w, o) ==
  LET open == {n \in 1..Len(w.ncrs) :
                 w.ncrs[n].defect = DefectOf[o] /\ ~w.ncrs[n].closed}
      n == IF open = {} THEN Len(w.ncrs) + 1 ELSE CHOOSE m \in open : TRUE
      rows == IF open = {} THEN Append(w.ncrs, Opened(trust, o)) ELSE w.ncrs
      old == IF open = {} THEN Append(w.analyses, <<>>) ELSE w.analyses
      new == NextVersion(trust, o, old[n])
  IN  IF trust[o] = "ABSENT" \/ DefectOf[o] = None THEN w
      ELSE [ncrs |-> IF new = old[n] THEN rows
                     ELSE [rows EXCEPT ![n].version = Len(new)],
            analyses |-> [old EXCEPT ![n] = new]]

\* What a replay leaves of the rows that it has read.
Replayed(trust, rows) ==
  LET w[o \in 0..NumObs] ==
        IF o = 0 THEN rows ELSE Inspect(trust, w[o - 1], o)
  IN  w[NumObs]

Reading == [facts |-> log, ncrs |-> ncrs, analyses |-> analyses]

\* A slip: the rebuild does not wait for another one of the same item.
StartReplay_NoLock(r) ==
  /\ session[r] = None
  /\ session' = [session EXCEPT ![r] = Reading]
  /\ UNCHANGED <<facts, ncrs, analyses, human, lock>>

\* rebuild_item reads the events and the rows once it holds the item's locks.
StartReplay(r) ==
  /\ session[r] = None /\ lock = None
  /\ lock' = r
  /\ session' = [session EXCEPT ![r] = Reading]
  /\ UNCHANGED <<facts, ncrs, analyses, human>>

\* The rows of s that have no counterpart among the first n.
Beyond(n, s) == SubSeq(s, n + 1, Len(s))

\* Its commit replaces the projected tables, inserts nonconformances and versions,
\* and writes the columns of older rows that it changed.
CommitReplay(r) ==
  LET loaded == session[r].ncrs
      w == Replayed(session[r].facts.trust,
                    [ncrs |-> loaded, analyses |-> session[r].analyses])
      old == Len(loaded)
  IN
  /\ session[r] # None
  /\ Len(ncrs) + Len(w.ncrs) - old <= MaxNcrs
  /\ \A n \in 1..Len(w.ncrs) : Len(w.analyses[n]) <= MaxVersions
  /\ view' = session[r].facts
  /\ ncrs' = [n \in 1..Len(ncrs) |-> IF n <= old THEN Emit(ncrs[n], loaded[n], w.ncrs[n])
                                     ELSE ncrs[n]] \o Beyond(old, w.ncrs)
  /\ analyses' = [n \in 1..Len(ncrs) |-> IF n <= old THEN w.analyses[n]
                                         ELSE analyses[n]] \o Beyond(old, w.analyses)
  /\ lock' = None
  /\ session' = [session EXCEPT ![r] = None]
  /\ UNCHANGED <<log, human>>

\* Or it fails, and rolls back.
FailReplay(r) ==
  /\ session[r] # None
  /\ lock' = None
  /\ session' = [session EXCEPT ![r] = None]
  /\ UNCHANGED <<facts, ncrs, analyses, human>>

-----------------------------------------------------------------------------
(* Facts: accepted events and invalidations. *)

\* An inspection is accepted; later a conflicting one, or an invalidation of its
\* device, may change what a replay makes of it.
Judge(o, trust) ==
  /\ trust \in JudgedAs[o] /\ trust # log.trust[o]
  /\ trust = "TRUSTED" => log.trust[o] = "ABSENT"
  /\ log' = [log EXCEPT !.trust[o] = trust]
  /\ UNCHANGED <<view, ncrs, analyses, human, lock, session>>

\* A rework run of nonconformance n is completed, right before inspection o.
FinishRework(n, o) ==
  /\ log.rework[n] < o
  /\ log' = [log EXCEPT !.rework[n] = o]
  /\ UNCHANGED <<view, ncrs, analyses, human, lock, session>>

-----------------------------------------------------------------------------
(* Handlers. *)

\* _ncr_or_404, _ensure_evidence_integrity (sound: no stream with an event of the
\* item has failed its verification), and what verify_rework looks for: a completed
\* rework run, and a trusted good inspection after it.
Open(h, n, sound) ==
  /\ session[h] = None /\ Len(decisions) < MaxDecisions
  /\ session' = [session EXCEPT ![h] =
       [ncr |-> n, row |-> ncrs[n], sound |-> sound,
        reworked |-> view.rework[n] # 0,
        good |-> \E g \in Observations : /\ view.trust[g] = "TRUSTED"
                                         /\ DefectOf[g] = None
                                         /\ g >= view.rework[n]]]
  /\ UNCHANGED <<facts, ncrs, analyses, human, lock>>

\* An error answer: a failed stream, no completed rework run, a disposition that
\* is not authorised.  Nothing is written.
Refuse(h) ==
  /\ session[h] # None
  /\ \/ ~session[h].sound
     \/ h \in Controllers /\ ~session[h].reworked
     \/ h \in Controllers /\ session[h].row.resolution = "rework"
        /\ session[h].row.verification # "PASSED"
  /\ session' = [session EXCEPT ![h] = None]
  /\ UNCHANGED <<facts, ncrs, analyses, human, lock>>

\* The commit of a handler that leaves row new in its session.
Write(h, new) ==
  LET n == session[h].ncr IN
  /\ ncrs' = [ncrs EXCEPT ![n] = Emit(@, session[h].row, new)]
  /\ session' = [session EXCEPT ![h] = None]
  /\ UNCHANGED <<facts, analyses, lock>>

Decided(h, verdict, disposition) ==
  /\ Len(decisions) < MaxDecisions
  /\ decisions' = Append(decisions, [ncr |-> session[h].ncr, verdict |-> verdict,
                                     disposition |-> disposition])

\* review_nonconformance
Review(h, verdict) ==
  /\ session[h] # None /\ session[h].sound
  /\ verdict \in {"pending_review", "needs_extra_check"}
  /\ Write(h, [session[h].row EXCEPT !.verdict = verdict])
  /\ UNCHANGED human

\* request_inspection: a decision that repeats the disposition it read.
RequestInspection(h) ==
  /\ session[h] # None
  /\ Decided(h, "needs_extra_check", session[h].row.disposition)
  /\ Write(h, [session[h].row EXCEPT !.verdict = "needs_extra_check"])
  /\ UNCHANGED exported

\* A slip: a new order leaves the old verification.
Ordered_NoReset(row) == [row EXCEPT !.resolution = "rework"]

\* The row once rework is ordered: it needs a new verification.
Ordered(row) == [row EXCEPT !.resolution = "rework", !.verification = "PENDING"]

\* OutboundReleasePolicy.authorize
Authorized(row) == row.resolution = "rework" => row.verification = "PASSED"

\* decide_nonconformance
Decide(h, r) ==
  LET row == [session[h].row EXCEPT !.verdict = r.verdict,
                                    !.disposition = r.disposition]
  IN
  /\ session[h] # None /\ session[h].sound
  /\ ~(r.verdict = "rejected" /\ r.disposition = "REWORK_REQUIRED")
  /\ Decided(h, r.verdict, r.disposition)
  /\ \/ /\ r.disposition = "IN_PROCESS"
        /\ Write(h, row)
        /\ UNCHANGED exported
     \/ /\ r.disposition = "REWORK_REQUIRED"
        /\ Write(h, Ordered(row))
        /\ UNCHANGED exported
     \/ /\ r.disposition = "RELEASED" /\ Authorized(row)
        /\ exported' = exported \cup {Len(decisions) + 1}
        /\ Write(h, [row EXCEPT !.closed = TRUE])

\* verify_rework: it passes if the controller says so and a trusted good
\* inspection after the rework agrees.
VerifyRework(h, passed) ==
  LET ok == passed /\ session[h].good
      row == [session[h].row EXCEPT !.verified = Len(decisions) + 1]
  IN
  /\ session[h] # None /\ session[h].sound /\ session[h].reworked
  /\ \/ /\ ok
        /\ Decided(h, "confirmed", "RELEASED")
        /\ exported' = exported \cup {Len(decisions) + 1}
        /\ Write(h, [row EXCEPT !.verification = "PASSED", !.resolution = "rework",
                                !.disposition = "RELEASED", !.closed = TRUE])
     \/ /\ ~ok
        /\ Decided(h, "confirmed", "REWORK_REQUIRED")
        /\ Write(h, [row EXCEPT !.verification = "FAILED",
                                !.disposition = "REWORK_REQUIRED"])
        /\ UNCHANGED exported

-----------------------------------------------------------------------------

NoFacts == [trust |-> [o \in Observations |-> "ABSENT"],
            rework |-> [n \in 1..MaxNcrs |-> 0]]

Init ==
  /\ log = NoFacts /\ view = NoFacts
  /\ ncrs = <<>> /\ analyses = <<>>
  /\ decisions = <<>> /\ exported = {}
  /\ lock = None
  /\ session = [a \in Handlers \cup Replays |-> None]

Next ==
  \/ \E r \in Replays : StartReplay(r) \/ CommitReplay(r) \/ FailReplay(r)
  \/ \E o \in Observations, t \in Trust : Judge(o, t)
  \/ \E n \in 1..Len(ncrs), o \in ReworkEnds : FinishRework(n, o)
  \/ \E h \in Handlers :
       \/ \E n \in 1..Len(ncrs), sound \in BOOLEAN : Open(h, n, sound)
       \/ Refuse(h)
       \/ RequestInspection(h)
       \/ \E v \in Verdicts : Review(h, v)
  \/ \E h \in Controllers :
       \/ \E r \in Requests : Decide(h, r)
       \/ \E passed \in BOOLEAN : VerifyRework(h, passed)

Spec == Init /\ [][Next]_vars

-----------------------------------------------------------------------------
(* Type invariant. *)

\* Types of the facts, the tables and the lock; a nonconformance and its
\* versions are created together.
TypeOK ==
  /\ log \in Facts /\ view \in Facts
  /\ ncrs \in Seq(Ncr) /\ Len(ncrs) <= MaxNcrs
  /\ analyses \in Seq(Seq(Window)) /\ Len(analyses) = Len(ncrs)
  /\ decisions \in Seq(Decision) /\ Len(decisions) <= MaxDecisions
  /\ exported \subseteq 1..Len(decisions)
  /\ lock \in Replays \cup {None}

-----------------------------------------------------------------------------
(* Safety. *)

\* One open nonconformance per defect, although replays that read the rows before
\* each other's commits would each open one: this rests on the item's lock, and
\* no decision ever opens a closed row.
OneOpenPerDefect ==
  \A m, n \in 1..Len(ncrs) :
    ~ncrs[m].closed /\ ~ncrs[n].closed /\ ncrs[m].defect = ncrs[n].defect => m = n

\* current_analysis_version names the newest version, which is what a controller
\* is shown, although decisions that read the row before a replay added a
\* version commit after it.
VersionIsLatest ==
  \A n \in 1..Len(ncrs) :
    ncrs[n].version = IF analyses[n] = <<>> THEN 1 ELSE Len(analyses[n])

\* docs/quality-analysis.md:26: "Device invalidation changes derived trust ... and
\* recalculates the birth window": the newest version of an open nonconformance,
\* which a controller decides by, is borne out by the trust of the inspections as
\* it is now, whatever versions earlier replays have left.  Its window ends at an
\* inspection that is trusted to show the defect and begins at the last trusted
\* good one before it; only an invalidated device takes it away.  At which of
\* several trusted ones it ends, this leaves open: line 11 there says at the first,
\* and the code leaves that of the last.
AnalysisIsCurrent ==
  \A n \in 1..Len(ncrs) :
    LET w == analyses[n][Len(analyses[n])]
        Shown(trust) ==
          {p \in Observations : DefectOf[p] = ncrs[n].defect /\ view.trust[p] = trust}
        Good(p) == DefectOf[p] = None /\ view.trust[p] = "TRUSTED"
    IN
    ~ncrs[n].closed /\ Shown("TRUSTED") \cup Shown("INVALIDATED") # {} =>
      /\ analyses[n] # <<>>
      /\ IF w.right = 0 THEN Shown("INVALIDATED") # {}
         ELSE /\ w.right \in Shown("TRUSTED")
              /\ w.left # 0 => w.left < w.right /\ Good(w.left)
              /\ \A p \in (w.left + 1)..(w.right - 1) : ~Good(p)

\* "Successful controller verification is required" (quality/release.py:23): when
\* a result of a reworked nonconformance is exported, every confirmed order to
\* rework it is older than its last verification, and that one passed.  It holds
\* while one decision at a time is made on a nonconformance: two controllers, who
\* both read the row before either commits, break it.
VerifiedBeforeExport ==
  [][\A d \in exported' \ exported :
       LET n == decisions'[d].ncr
           v == ncrs'[n].verified
       IN  ncrs'[n].resolution = "rework" =>
             /\ v # 0 /\ decisions'[v].disposition = "RELEASED"
             /\ \A k \in 1..(d - 1) :
                  /\ decisions[k].ncr = n /\ decisions[k].verdict = "confirmed"
                  /\ decisions[k].disposition = "REWORK_REQUIRED"
                  => v > k]_vars

-----------------------------------------------------------------------------
(* What the documents say and the code does not keep. *)

\* docs/quality-analysis.md:26: "KPI counts DefectOccurrence rather than
\* observations; duplicates do not change KPI".  A replay after an occurrence was
\* closed finds no open one for the inspection that opened it, and opens another.
CountedOnce ==
  \A m, n \in 1..Len(ncrs) : ncrs[m].first = ncrs[n].first => m = n
=============================================================================
