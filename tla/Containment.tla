----------------------------- MODULE Containment -----------------------------
(***************************************************************************)
(* Containment: what a blast-radius query proposes and two people approve  *)
(* (api/risk.py), and what a technologist proposes for a nonconformance    *)
(* and a controller reviews (api/nonconformances.py).                      *)
(*                                                                         *)
(* No handler locks a row.  It reads, judges what it has read, and commits *)
(* the columns that differ from it; a list of approvals is one column.     *)
(* Approvals are told apart by their user.  Thread p serves one request at *)
(* a time, of any user: one person may have several requests under way.    *)
(* Of the audit rows, which are written with the rest, it is kept who      *)
(* approved and who rejected each proposal.  Rationales, reasons, notes    *)
(* and permissions are left out, and so is what an exposure says of an     *)
(* item beyond its name.                                                   *)
(***************************************************************************)
EXTENDS Integers, Sequences, FiniteSets

CONSTANTS
  Users,          \* people who may propose, approve and decide
  Threads,        \* threads of the API
  Ncrs,           \* nonconformances
  Containments,   \* what a nonconformance may be under
  Items,
  Factors,        \* factors that a query asks for
  MatchesOf,      \* the items whose runs or observations match a factor
  MassThreshold,  \* affected items that require a second approval
  None,
  MaxProposals    \* bound on proposals

ASSUME ContainmentAssumption ==
  /\ MatchesOf \in [Factors -> SUBSET Items]
  /\ IsFiniteSet(Items)
  /\ {"NONE", "REVIEW_REQUIRED"} \subseteq Containments
  /\ {MassThreshold, MaxProposals} \subseteq Nat
  /\ None \notin Users \cup Ncrs \cup Factors

VARIABLES
  proposals,  \* rows of containment_proposals, in the order of their commits
  exposures,  \* the items in the exposure rows of each proposal's query
  approvals,  \* the approval request of each proposal, None without one
  ncrs,       \* the containment of each nonconformance
  jobs,       \* what each thread has read, None between requests
  votes,      \* audit rows: the users who have approved each proposal
  refusals    \* audit rows: those who have rejected it

rows == <<proposals, exposures, approvals, ncrs>>
audit == <<votes, refusals>>
vars == <<rows, jobs, audit>>

-----------------------------------------------------------------------------
(* Rows. *)

\* Nobody proposes to lift a containment.
Proposed == Containments \ {"NONE"}

\* ncr = None: the proposal of a blast-radius query.
Proposal == [ncr : Ncrs \cup {None}, by : Users, containment : Proposed,
             status : {"pending", "approved", "rejected"}, reviewer : Users \cup {None}]

\* by: the users in the JSON list.
Approval == [requester : Users, required : {1, 2}, by : SUBSET Users,
             status : {"PENDING", "APPROVED"}]

\* What a request has read before it commits; ncr: the containment of the
\* nonconformance, None until it is read.
Approve == [op : {"approve"}, user : Users, of : 1..MaxProposals, saw : Approval,
            proposal : Proposal]
Review == [op : {"review"}, user : Users, of : 1..MaxProposals, saw : Proposal,
           ncr : Containments \cup {None}, yes : BOOLEAN]
Decide == [op : {"decide"}, user : Users, ncr : Ncrs, saw : Containments,
           containment : Containments]

\* None is neither a row nor a request.
ASSUME NoneIsNoRow ==
  /\ None \notin Approval
  /\ None \notin Approve \cup Review \cup Decide

\* A slip: the UPDATE writes every column of the loaded row.
Emit_AllColumns(row, loaded, new) == new

\* What a commit writes: the columns whose value differs from the one loaded.
Emit(row, loaded, new) ==
  [f \in DOMAIN row |-> IF new[f] # loaded[f] THEN new[f] ELSE row[f]]

EmitValue(value, loaded, new) == IF new # loaded THEN new ELSE value

Serves(p, op) == jobs[p] # None /\ jobs[p].op = op

Done(p) == jobs' = [jobs EXCEPT ![p] = None]

-----------------------------------------------------------------------------
(* Proposals. *)

\* A slip: one approval for each affected item.
Required_Each(affected) == Cardinality(affected)

\* approvals_required of blast_radius.
Required(affected) == IF Cardinality(affected) >= MassThreshold THEN 2 ELSE 1

\* A row that nobody has looked at.
Fresh(ncr, u, containment) ==
  [ncr |-> ncr, by |-> u, containment |-> containment, status |-> "pending",
   reviewer |-> None]

\* blast_radius: query, exposures, proposal and approval request in one commit.
BlastRadius(u, factor, containment) ==
  /\ Len(proposals) < MaxProposals
  /\ proposals' = Append(proposals, Fresh(None, u, containment))
  /\ exposures' = Append(exposures, MatchesOf[factor])
  /\ approvals' = Append(approvals,
       [requester |-> u, required |-> Required(MatchesOf[factor]), by |-> {},
        status |-> "PENDING"])
  /\ votes' = Append(votes, {})
  /\ refusals' = Append(refusals, {})
  /\ UNCHANGED <<ncrs, jobs>>

\* propose_containment.
Propose(u, n, containment) ==
  /\ Len(proposals) < MaxProposals
  /\ proposals' = Append(proposals, Fresh(n, u, containment))
  /\ exposures' = Append(exposures, {})
  /\ approvals' = Append(approvals, None)
  /\ votes' = Append(votes, {})
  /\ refusals' = Append(refusals, {})
  /\ UNCHANGED <<ncrs, jobs>>

-----------------------------------------------------------------------------
(* approve. *)

\* A slip: the requester may approve.
MayApprove_Requester(a, u) == a.status = "PENDING" /\ u \notin a.by

\* A user other than the requester who is not in the list, may approve.
MayApprove(a, u) ==
  /\ a.status = "PENDING"
  /\ u # a.requester
  /\ u \notin a.by

\* The request is read, and then the proposal: only an approval that completes
\* writes it, and sets both columns whatever it has read there.
ApproveRead(p, u, k) ==
  /\ jobs[p] = None
  /\ approvals[k] # None
  /\ MayApprove(approvals[k], u)
  /\ jobs' = [jobs EXCEPT ![p] =
       [op |-> "approve", user |-> u, of |-> k, saw |-> approvals[k],
        proposal |-> proposals[k]]]
  /\ UNCHANGED <<rows, audit>>

\* The user joins the list as it was read, and the last one required completes
\* the request and the proposal.  Nothing is done to any item.
ApproveCommit(p) ==
  /\ Serves(p, "approve")
  /\ LET j == jobs[p]
         k == j.of
         by == j.saw.by \cup {j.user}
         complete == Cardinality(by) >= j.saw.required
         new == [j.saw EXCEPT !.by = by, !.status = IF complete THEN "APPROVED" ELSE @]
     IN  /\ approvals' = [approvals EXCEPT ![k] = Emit(@, j.saw, new)]
         /\ proposals' = IF complete
              THEN [proposals EXCEPT ![k] = Emit(@, j.proposal,
                     [j.proposal EXCEPT !.status = "approved", !.reviewer = j.user])]
              ELSE proposals
         /\ votes' = [votes EXCEPT ![k] = @ \cup {j.user}]
  /\ Done(p)
  /\ UNCHANGED <<exposures, ncrs, refusals>>

-----------------------------------------------------------------------------
(* review_containment, and the decisions that set a containment. *)

\* A slip: a proposal that is settled may be reviewed again.
MayReview_Settled(row) == row.ncr # None

\* It is pending.  The proposer may review; the proposal of a query has no
\* nonconformance, and is answered 404.
MayReview(row) == row.status = "pending" /\ row.ncr # None

\* The proposal is read.
ReviewRead(p, u, k) ==
  /\ jobs[p] = None
  /\ MayReview(proposals[k])
  /\ \E yes \in BOOLEAN :
       jobs' = [jobs EXCEPT ![p] =
         [op |-> "review", user |-> u, of |-> k, saw |-> proposals[k], ncr |-> None,
          yes |-> yes]]
  /\ UNCHANGED <<rows, audit>>

\* Then its nonconformance.
NcrRead(p) ==
  /\ Serves(p, "review") /\ jobs[p].ncr = None
  /\ jobs' = [jobs EXCEPT ![p].ncr = ncrs[jobs[p].saw.ncr]]
  /\ UNCHANGED <<rows, audit>>

\* The proposal is settled, and the containment of an approved one applied.
ReviewCommit(p) ==
  /\ Serves(p, "review") /\ jobs[p].ncr # None
  /\ LET j == jobs[p]
         new == [j.saw EXCEPT !.status = IF j.yes THEN "approved" ELSE "rejected",
                              !.reviewer = j.user]
     IN  /\ proposals' = [proposals EXCEPT ![j.of] = Emit(@, j.saw, new)]
         /\ ncrs' = [ncrs EXCEPT ![j.saw.ncr] =
              EmitValue(@, j.ncr, IF j.yes THEN j.saw.containment ELSE j.ncr)]
         /\ votes' = [votes EXCEPT ![j.of] = IF j.yes THEN @ \cup {j.user} ELSE @]
         /\ refusals' = [refusals EXCEPT ![j.of] = IF j.yes THEN @ ELSE @ \cup {j.user}]
  /\ Done(p)
  /\ UNCHANGED <<exposures, approvals>>

\* decide_nonconformance, verify_rework and request_inspection set it directly.
DecideRead(p, u, n) ==
  /\ jobs[p] = None
  /\ \E c \in Containments :
       jobs' = [jobs EXCEPT ![p] =
         [op |-> "decide", user |-> u, ncr |-> n, saw |-> ncrs[n], containment |-> c]]
  /\ UNCHANGED <<rows, audit>>

DecideCommit(p) ==
  /\ Serves(p, "decide")
  /\ LET j == jobs[p] IN
     ncrs' = [ncrs EXCEPT ![j.ncr] = EmitValue(@, j.saw, j.containment)]
  /\ Done(p)
  /\ UNCHANGED <<proposals, exposures, approvals, audit>>

\* The process dies, or the database fails: the transaction is rolled back.
Abort(p) ==
  /\ jobs[p] # None
  /\ Done(p)
  /\ UNCHANGED <<rows, audit>>

-----------------------------------------------------------------------------
\* A nonconformance is opened for review; nothing else is stored yet.
Init ==
  /\ proposals = <<>>
  /\ exposures = <<>>
  /\ approvals = <<>>
  /\ ncrs = [n \in Ncrs |-> "REVIEW_REQUIRED"]
  /\ jobs = [p \in Threads |-> None]
  /\ votes = <<>>
  /\ refusals = <<>>

Next ==
  \/ \E u \in Users, c \in Proposed :
       \/ \E f \in Factors : BlastRadius(u, f, c)
       \/ \E n \in Ncrs : Propose(u, n, c)
  \/ \E p \in Threads, u \in Users :
       \/ \E k \in DOMAIN proposals : ApproveRead(p, u, k) \/ ReviewRead(p, u, k)
       \/ \E n \in Ncrs : DecideRead(p, u, n)
  \/ \E p \in Threads : NcrRead(p) \/ ReviewCommit(p)
  \/ \E p \in Threads : ApproveCommit(p) \/ DecideCommit(p) \/ Abort(p)

Spec == Init /\ [][Next]_vars

-----------------------------------------------------------------------------
(* Properties. *)

\* Every variable keeps its type (models ContainmentProposal, ApprovalRequest,
\* BlastRadiusExposure).
TypeOK ==
  /\ proposals \in Seq(Proposal) /\ Len(proposals) <= MaxProposals
  /\ exposures \in [DOMAIN proposals -> SUBSET Items]
  /\ approvals \in [DOMAIN proposals -> Approval \cup {None}]
  /\ ncrs \in [Ncrs -> Containments]
  /\ jobs \in [Threads -> Approve \cup Review \cup Decide \cup {None}]
  /\ votes \in [DOMAIN proposals -> SUBSET Users]
  /\ refusals \in [DOMAIN proposals -> SUBSET Users]

\* The proposal of a query is approved only when as many people as its size
\* calls for, the requester not among them, have approved it, although approve
\* counts a list that others may have rewritten since it was read.
EnoughApprovers ==
  \A k \in DOMAIN proposals :
    approvals[k] # None /\ "approved" = proposals[k].status =>
      /\ approvals[k].status = "APPROVED"
      /\ Cardinality(votes[k] \ {proposals[k].by}) >= Required(exposures[k])

\* An approval that is complete stays complete: one that was read before does
\* not take it back when it commits (approve).
ApprovalStands ==
  [][\A k \in DOMAIN proposals : approvals[k] # None =>
       /\ approvals[k].status = "APPROVED" => approvals'[k].status = "APPROVED"
       /\ proposals[k].status = "approved" => proposals'[k].status = "approved"]_vars

\* The reviewer that a settled proposal names gave the answer that it records,
\* and the audit log says so, although two people may answer one proposal
\* differently at the same time: who finds it pending writes both columns, and
\* who does not is refused (review_containment, approve).
ReviewerAnswered ==
  \A k \in DOMAIN proposals :
    /\ proposals[k].status = "approved" => proposals[k].reviewer \in votes[k]
    /\ proposals[k].status = "rejected" => proposals[k].reviewer \in refusals[k]
=============================================================================
