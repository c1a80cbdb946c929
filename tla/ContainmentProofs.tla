-------------------------- MODULE ContainmentProofs --------------------------
(***************************************************************************)
(* Proofs about Containment, for any people, threads, nonconformances,     *)
(* items and bounds: type correctness, that a query's proposal is approved *)
(* only by as many people as its size calls for, that an approval which is *)
(* complete stays so, and that the reviewer a settled proposal names gave  *)
(* the answer that it records.                                             *)
(***************************************************************************)
EXTENDS Containment, FiniteSetTheorems, SequenceTheorems, TLAPS

-----------------------------------------------------------------------------
(* The inductive invariant. *)

\* The users of the list have all voted, and the requester is not among them; a
\* request is approved by enough of them, and a proposal only with its request.
QueryOK(k) ==
  /\ proposals[k].ncr = None
  /\ approvals[k].requester = proposals[k].by
  /\ approvals[k].required = Required(exposures[k])
  /\ approvals[k].status = "APPROVED" =>
       Cardinality(votes[k] \ {approvals[k].requester}) >= approvals[k].required
  /\ proposals[k].status = "approved" => approvals[k].status = "APPROVED"
  /\ proposals[k].status # "rejected"

QueriesOK ==
  \A k \in DOMAIN proposals :
    /\ IsFiniteSet(votes[k])
    /\ approvals[k] # None => QueryOK(k)

\* What an approval has read: a list that has only grown since, of users who
\* may approve, what never changes of the request, and a proposal that nobody
\* had settled.
ApproveOK(j) ==
  /\ j.of \in DOMAIN proposals /\ approvals[j.of] # None
  /\ j.saw.requester = approvals[j.of].requester
  /\ j.saw.required = approvals[j.of].required
  /\ j.saw.status = "PENDING" /\ j.user # j.saw.requester
  /\ j.saw.by \subseteq votes[j.of] \ {j.saw.requester}
  /\ j.proposal.status = "pending" /\ j.proposal.reviewer = None

\* A review has read the proposal of a nonconformance, and nobody had settled it.
ReviewOK(j) ==
  /\ j.of \in DOMAIN proposals /\ approvals[j.of] = None
  /\ j.saw.ncr # None
  /\ j.saw.status = "pending" /\ j.saw.reviewer = None

JobsOK ==
  \A p \in Threads :
    /\ Serves(p, "approve") => ApproveOK(jobs[p])
    /\ Serves(p, "review") => ReviewOK(jobs[p])

\* Every list names people who have voted, none of them the requester.
ListsOK ==
  \A k \in DOMAIN proposals : approvals[k] # None =>
    approvals[k].by \subseteq votes[k] \ {approvals[k].requester}

\* A proposal of a nonconformance has no approval request.
PairsOK == \A k \in DOMAIN proposals : proposals[k].ncr # None => approvals[k] = None

\* A proposal that is pending names no reviewer.
PendingOK ==
  \A k \in DOMAIN proposals : proposals[k].status = "pending" => proposals[k].reviewer = None

IInv ==
  TypeOK /\ QueriesOK /\ JobsOK /\ ListsOK /\ PairsOK /\ PendingOK /\ ReviewerAnswered

-----------------------------------------------------------------------------
(* Rows and jobs. *)

\* What a commit writes to an approval request, column by column.
LEMMA EmitApproval ==
  ASSUME NEW row \in Approval, NEW loaded \in Approval, NEW new \in Approval
  PROVE  LET e == Emit(row, loaded, new) IN
         /\ e \in Approval
         /\ e.requester = IF new.requester # loaded.requester THEN new.requester ELSE row.requester
         /\ e.required = IF new.required # loaded.required THEN new.required ELSE row.required
         /\ e.by = IF new.by # loaded.by THEN new.by ELSE row.by
         /\ e.status = IF new.status # loaded.status THEN new.status ELSE row.status
<1>1. DOMAIN row = {"requester", "required", "by", "status"}
  BY DEF Approval
<1> QED
  BY <1>1 DEF Approval, Emit

\* What a commit writes to a proposal.
LEMMA EmitProposal ==
  ASSUME NEW row \in Proposal, NEW loaded \in Proposal, NEW new \in Proposal
  PROVE  LET e == Emit(row, loaded, new) IN
         /\ e \in Proposal
         /\ e.ncr = IF new.ncr # loaded.ncr THEN new.ncr ELSE row.ncr
         /\ e.by = IF new.by # loaded.by THEN new.by ELSE row.by
         /\ e.status = IF new.status # loaded.status THEN new.status ELSE row.status
         /\ e.reviewer = IF new.reviewer # loaded.reviewer THEN new.reviewer ELSE row.reviewer
<1>1. DOMAIN row = {"ncr", "by", "containment", "status", "reviewer"}
  BY DEF Proposal
<1> QED
  BY <1>1 DEF Proposal, Emit

\* The op tells the three kinds of request apart.
LEMMA Kinds ==
  ASSUME TypeOK, NEW p \in Threads
  PROVE  /\ Serves(p, "approve") => jobs[p] \in Approve
         /\ Serves(p, "review") => jobs[p] \in Review
         /\ Serves(p, "decide") => jobs[p] \in Decide
<1>1. jobs[p] \in Approve \cup Review \cup Decide \cup {None}
  BY DEF TypeOK
<1>2. \A j \in Approve : j.op = "approve"
  BY DEF Approve
<1>3. \A j \in Review : j.op = "review"
  BY DEF Review
<1>4. \A j \in Decide : j.op = "decide"
  BY DEF Decide
<1> QED
  BY <1>1, <1>2, <1>3, <1>4 DEF Serves

\* The rows are numbered from 1.
LEMMA Numbered ==
  ASSUME TypeOK
  PROVE  /\ Len(proposals) \in Nat /\ DOMAIN proposals = 1..Len(proposals)
         /\ proposals \in [1..Len(proposals) -> Proposal]
         /\ exposures \in [1..Len(proposals) -> SUBSET Items]
         /\ approvals \in [1..Len(proposals) -> Approval \cup {None}]
         /\ votes \in [1..Len(proposals) -> SUBSET Users]
         /\ refusals \in [1..Len(proposals) -> SUBSET Users]
BY LenProperties DEF TypeOK

\* A row at the end of a table.
LEMMA AppendRow ==
  ASSUME NEW S, NEW s \in Seq(S), NEW e \in S
  PROVE  /\ Append(s, e) \in [1..(Len(s) + 1) -> S]
         /\ \A k \in 1..Len(s) : Append(s, e)[k] = s[k]
         /\ Append(s, e)[Len(s) + 1] = e
<1>1. /\ Append(s, e) \in Seq(S) /\ Len(Append(s, e)) = Len(s) + 1
      /\ \A k \in 1..Len(s) : Append(s, e)[k] = s[k]
      /\ Append(s, e)[Len(s) + 1] = e
  BY AppendProperties
<1> QED
  BY <1>1, LenProperties

\* A table whose rows are numbered from 1 to n.
LEMMA Table ==
  ASSUME NEW S, NEW n \in Nat, NEW s \in [1..n -> S]
  PROVE  s \in Seq(S) /\ Len(s) = n
OBVIOUS

\* A request that one thread begins or ends leaves the other threads alone.
LEMMA OneJob ==
  ASSUME TypeOK, NEW p \in Threads,
         NEW job \in Approve \cup Review \cup Decide \cup {None},
         jobs' = [jobs EXCEPT ![p] = job]
  PROVE  /\ jobs' \in [Threads -> Approve \cup Review \cup Decide \cup {None}]
         /\ jobs'[p] = job
         /\ \A q \in Threads \ {p} : jobs'[q] = jobs[q]
         /\ \A q \in Threads : \A op :
              Serves(q, op)' <=> IF q = p THEN job # None /\ job.op = op ELSE Serves(q, op)
BY DEF TypeOK, Serves

\* Where no row changes, what the jobs have read stays true of the rows.
LEMMA SameRows ==
  ASSUME IInv, UNCHANGED <<rows, audit>>,
         NEW p \in Threads,
         NEW job \in Approve \cup Review \cup Decide \cup {None},
         jobs' = [jobs EXCEPT ![p] = job],
         job # None /\ job.op = "approve" => ApproveOK(job),
         job # None /\ job.op = "review" => ReviewOK(job)
  PROVE  IInv'
<1>1. /\ UNCHANGED <<proposals, exposures, approvals, ncrs, votes, refusals>>
      /\ TypeOK /\ QueriesOK /\ JobsOK /\ ListsOK /\ PairsOK /\ PendingOK /\ ReviewerAnswered
  BY DEF rows, audit, IInv
<1>2. TypeOK'
  BY <1>1, OneJob DEF TypeOK
<1>3. QueriesOK' /\ ListsOK' /\ PairsOK' /\ PendingOK' /\ ReviewerAnswered'
  BY <1>1 DEF QueriesOK, QueryOK, ListsOK, PairsOK, PendingOK, ReviewerAnswered
<1>4. JobsOK'
  <2>1. \A j : ApproveOK(j)' <=> ApproveOK(j)
    BY <1>1 DEF ApproveOK
  <2>2. \A j : ReviewOK(j)' <=> ReviewOK(j)
    BY <1>1 DEF ReviewOK
  <2>3. ASSUME NEW q \in Threads
        PROVE  /\ Serves(q, "approve")' => ApproveOK(jobs'[q])
               /\ Serves(q, "review")' => ReviewOK(jobs'[q])
    <3>1. CASE q = p
      <4>1. jobs'[q] = job
        BY <1>1, <3>1, OneJob
      <4>2. \A op : Serves(q, op)' <=> job # None /\ job.op = op
        BY <4>1, Zenon DEF Serves
      <4> QED
        BY <4>1, <4>2
    <3>2. CASE q # p
      <4>1. \A op : Serves(q, op)' <=> Serves(q, op)
        BY <1>1, <3>2, OneJob
      <4>2. jobs'[q] = jobs[q]
        BY <1>1, <3>2, OneJob
      <4> QED
        BY <1>1, <4>1, <4>2, Zenon DEF JobsOK
    <3> QED
      BY <3>1, <3>2
  <2> QED
    BY <2>1, <2>2, <2>3, Zenon DEF JobsOK
<1> QED
  BY <1>2, <1>3, <1>4 DEF IInv

-----------------------------------------------------------------------------
(* The steps: what is proposed, and what is read. *)

\* A proposal is stored with or without an approval request that nobody has
\* looked at.
LEMMA StoreSafe ==
  ASSUME IInv, NEW u \in Users, NEW c \in Proposed, NEW ncr \in Ncrs \cup {None},
         NEW exposed \in SUBSET Items,
         NEW approval \in Approval \cup {None},
         Len(proposals) < MaxProposals,
         proposals' = Append(proposals, Fresh(ncr, u, c)),
         exposures' = Append(exposures, exposed),
         approvals' = Append(approvals, approval),
         votes' = Append(votes, {}), refusals' = Append(refusals, {}),
         UNCHANGED <<ncrs, jobs>>,
         \/ ncr \in Ncrs /\ approval = None
         \/ /\ ncr = None /\ approval \in Approval
            /\ approval.requester = u /\ approval.required = Required(exposed)
            /\ approval.by = {} /\ approval.status = "PENDING"
  PROVE  IInv'
<1> DEFINE row == Fresh(ncr, u, c)
<1>0. PICK n : n = Len(proposals)
  OBVIOUS
<1>1. TypeOK /\ QueriesOK /\ JobsOK /\ ListsOK /\ PairsOK /\ PendingOK /\ ReviewerAnswered
  BY DEF IInv
<1>2. /\ row \in Proposal /\ row.ncr = ncr /\ row.by = u /\ row.status = "pending"
      /\ row.reviewer = None
  BY DEF Fresh, Proposal
<1>3. /\ n \in Nat /\ DOMAIN proposals = 1..n
      /\ proposals \in [1..n -> Proposal] /\ exposures \in [1..n -> SUBSET Items]
      /\ approvals \in [1..n -> Approval \cup {None}] /\ votes \in [1..n -> SUBSET Users]
      /\ refusals \in [1..n -> SUBSET Users]
  BY <1>0, <1>1, Numbered
<1>4. proposals' \in Seq(Proposal) /\ Len(proposals') = n + 1
  BY <1>0, <1>1, <1>2 DEF TypeOK
<1>a. /\ proposals' = Append(proposals, row) /\ exposures' = Append(exposures, exposed)
      /\ approvals' = Append(approvals, approval) /\ votes' = Append(votes, {})
      /\ refusals' = Append(refusals, {}) /\ {} \in SUBSET Users
  OBVIOUS
<1> HIDE DEF row
<1>5. /\ proposals' \in [1..(n + 1) -> Proposal] /\ proposals'[n + 1] = row
      /\ \A k \in 1..n : proposals'[k] = proposals[k]
  <2>1. proposals \in Seq(Proposal) /\ Len(proposals) = n /\ row \in Proposal
    BY <1>a, <1>2, <1>3, Table
  <2>2. /\ Append(proposals, row) \in [1..(n + 1) -> Proposal]
        /\ \A k \in 1..n : Append(proposals, row)[k] = proposals[k]
        /\ Append(proposals, row)[n + 1] = row
    BY <2>1, AppendRow
  <2> QED
    BY <1>a, <2>2
<1>6. /\ exposures' \in [1..(n + 1) -> SUBSET Items] /\ exposures'[n + 1] = exposed
      /\ \A k \in 1..n : exposures'[k] = exposures[k]
  <2> DEFINE S == SUBSET Items
  <2>1. exposures \in [1..n -> S] /\ exposed \in S
    BY <1>a, <1>2, <1>3
  <2> HIDE DEF S
  <2>2. exposures \in Seq(S) /\ Len(exposures) = n
    BY <1>3, <2>1, Table
  <2>3. /\ Append(exposures, exposed) \in [1..(n + 1) -> S]
        /\ \A k \in 1..n : Append(exposures, exposed)[k] = exposures[k]
        /\ Append(exposures, exposed)[n + 1] = exposed
    BY <2>1, <2>2, AppendRow
  <2> QED
    BY <1>a, <2>3 DEF S
<1>7. /\ approvals' \in [1..(n + 1) -> Approval \cup {None}] /\ approvals'[n + 1] = approval
      /\ \A k \in 1..n : approvals'[k] = approvals[k]
  <2> DEFINE S == Approval \cup {None}
  <2>1. approvals \in [1..n -> S] /\ approval \in S
    BY <1>a, <1>2, <1>3
  <2> HIDE DEF S
  <2>2. approvals \in Seq(S) /\ Len(approvals) = n
    BY <1>3, <2>1, Table
  <2>3. /\ Append(approvals, approval) \in [1..(n + 1) -> S]
        /\ \A k \in 1..n : Append(approvals, approval)[k] = approvals[k]
        /\ Append(approvals, approval)[n + 1] = approval
    BY <2>1, <2>2, AppendRow
  <2> QED
    BY <1>a, <2>3 DEF S
<1>8. /\ votes' \in [1..(n + 1) -> SUBSET Users] /\ votes'[n + 1] = {}
      /\ \A k \in 1..n : votes'[k] = votes[k]
  <2> DEFINE S == SUBSET Users
  <2>1. votes \in [1..n -> S] /\ {} \in S
    BY <1>a, <1>2, <1>3
  <2> HIDE DEF S
  <2>2. votes \in Seq(S) /\ Len(votes) = n
    BY <1>3, <2>1, Table
  <2>3. /\ Append(votes, {}) \in [1..(n + 1) -> S]
        /\ \A k \in 1..n : Append(votes, {})[k] = votes[k]
        /\ Append(votes, {})[n + 1] = {}
    BY <2>1, <2>2, AppendRow
  <2> QED
    BY <1>a, <2>3 DEF S
<1>b. /\ refusals' \in [1..(n + 1) -> SUBSET Users] /\ refusals'[n + 1] = {}
      /\ \A k \in 1..n : refusals'[k] = refusals[k]
  <2> DEFINE S == SUBSET Users
  <2>1. refusals \in [1..n -> S] /\ {} \in S
    BY <1>a, <1>2, <1>3
  <2> HIDE DEF S
  <2>2. refusals \in Seq(S) /\ Len(refusals) = n
    BY <1>3, <2>1, Table
  <2>3. /\ Append(refusals, {}) \in [1..(n + 1) -> S]
        /\ \A k \in 1..n : Append(refusals, {})[k] = refusals[k]
        /\ Append(refusals, {})[n + 1] = {}
    BY <2>1, <2>2, AppendRow
  <2> QED
    BY <1>a, <2>3 DEF S
<1>9. DOMAIN proposals' = 1..(n + 1) /\ 1..(n + 1) = 1..n \cup {n + 1}
  BY <1>3, <1>5
<1>10. TypeOK'
  <2>1. n + 1 <= MaxProposals
    BY <1>0, <1>3, ContainmentAssumption
  <2> QED
    BY <1>1, <1>4, <1>5, <1>6, <1>7, <1>8, <1>b, <1>9, <2>1 DEF TypeOK
<1>11. QueriesOK'
  <2>1. ASSUME NEW k \in 1..n
        PROVE  IsFiniteSet(votes'[k]) /\ (approvals'[k] # None => QueryOK(k)')
    <3>1. /\ proposals'[k] = proposals[k] /\ exposures'[k] = exposures[k]
          /\ approvals'[k] = approvals[k] /\ votes'[k] = votes[k]
      BY <1>5, <1>6, <1>7, <1>8
    <3>2. IsFiniteSet(votes[k]) /\ (approvals[k] # None => QueryOK(k))
      BY <1>1, <1>3 DEF QueriesOK
    <3> QED
      BY <3>1, <3>2 DEF QueryOK
  <2>2. IsFiniteSet(votes'[n + 1])
    BY <1>8, FS_EmptySet
  <2>3. ASSUME approval # None
        PROVE  QueryOK(n + 1)'
    <3>1. /\ ncr = None /\ approval.requester = u /\ approval.required = Required(exposed)
          /\ approval.status # "APPROVED"
      BY <2>3
    <3>2. /\ proposals'[n + 1].ncr = None /\ proposals'[n + 1].by = u
          /\ proposals'[n + 1].status = "pending" /\ approvals'[n + 1] = approval
          /\ exposures'[n + 1] = exposed
      BY <3>1, <1>2, <1>5, <1>6, <1>7
    <3>3. /\ approvals'[n + 1].requester = proposals'[n + 1].by
          /\ approvals'[n + 1].required = Required(exposures'[n + 1])
          /\ approvals'[n + 1].status # "APPROVED"
          /\ proposals'[n + 1].status # "approved" /\ proposals'[n + 1].status # "rejected"
      BY <3>1, <3>2
    <3> QED
      BY <3>2, <3>3, Zenon DEF QueryOK
  <2>4. ASSUME NEW k \in DOMAIN proposals'
        PROVE  IsFiniteSet(votes'[k]) /\ (approvals'[k] # None => QueryOK(k)')
    <3>1. CASE k \in 1..n
      BY <2>1, <3>1
    <3>2. CASE k = n + 1
      <4>1. approvals'[k] # None => approval # None
        BY <1>7, <3>2
      <4> QED
        BY <2>2, <2>3, <3>2, <4>1
    <3> QED
      BY <1>9, <2>4, <3>1, <3>2
  <2> QED
    BY <2>4, Zenon DEF QueriesOK
<1>12. ListsOK'
  BY <1>1, <1>3, <1>7, <1>8, <1>9 DEF ListsOK
<1>13. PairsOK'
  <2>1. \A k \in 1..n : proposals'[k].ncr # None => approvals'[k] = None
    BY <1>1, <1>3, <1>5, <1>7 DEF PairsOK
  <2>2. proposals'[n + 1].ncr # None => approvals'[n + 1] = None
    BY <1>2, <1>5, <1>7
  <2> QED
    BY <1>9, <2>1, <2>2 DEF PairsOK
<1>14. JobsOK'
  <2>1. ASSUME NEW j, ApproveOK(j)
        PROVE  ApproveOK(j)'
    <3>1. j.of \in 1..n
      BY <1>3, <2>1 DEF ApproveOK
    <3> QED
      BY <1>7, <1>8, <1>9, <2>1, <3>1 DEF ApproveOK
  <2>2. ASSUME NEW j, ReviewOK(j)
        PROVE  ReviewOK(j)'
    <3>1. j.of \in 1..n
      BY <1>3, <2>2 DEF ReviewOK
    <3> QED
      BY <1>7, <1>9, <2>2, <3>1 DEF ReviewOK
  <2> QED
    BY <1>1, <2>1, <2>2 DEF JobsOK, Serves
<1>15. PendingOK' /\ ReviewerAnswered'
  <2>1. ASSUME NEW k \in 1..n
        PROVE  /\ proposals'[k].status = "pending" => proposals'[k].reviewer = None
               /\ proposals'[k].status = "approved" => proposals'[k].reviewer \in votes'[k]
               /\ proposals'[k].status = "rejected" => proposals'[k].reviewer \in refusals'[k]
    <3>1. /\ proposals'[k] = proposals[k] /\ votes'[k] = votes[k]
          /\ refusals'[k] = refusals[k] /\ k \in DOMAIN proposals
      BY <1>3, <1>5, <1>8, <1>b, <2>1
    <3>2. /\ proposals[k].status = "pending" => proposals[k].reviewer = None
          /\ proposals[k].status = "approved" => proposals[k].reviewer \in votes[k]
          /\ proposals[k].status = "rejected" => proposals[k].reviewer \in refusals[k]
      BY <1>1, <3>1 DEF PendingOK, ReviewerAnswered
    <3> QED
      BY <3>1, <3>2
  <2>2. proposals'[n + 1].status = "pending" /\ proposals'[n + 1].reviewer = None
    BY <1>2, <1>5
  <2> QED
    BY <1>9, <2>1, <2>2 DEF PendingOK, ReviewerAnswered
<1> QED
  BY <1>10, <1>11, <1>12, <1>13, <1>14, <1>15 DEF IInv

LEMMA BlastRadiusSafe ==
  ASSUME IInv, NEW u \in Users, NEW f \in Factors, NEW c \in Proposed, BlastRadius(u, f, c)
  PROVE  IInv'
<1> DEFINE exposed == MatchesOf[f]
           approval == [requester |-> u, required |-> Required(exposed), by |-> {},
                        status |-> "PENDING"]
<1>1. exposed \in SUBSET Items
  BY ContainmentAssumption
<1>2. approval \in Approval
  BY DEF Approval, Required
<1>3. /\ approval.requester = u /\ approval.required = Required(exposed)
      /\ approval.by = {} /\ approval.status = "PENDING"
  OBVIOUS
<1>4. /\ Len(proposals) < MaxProposals
      /\ proposals' = Append(proposals, Fresh(None, u, c))
      /\ exposures' = Append(exposures, exposed)
      /\ approvals' = Append(approvals, approval)
      /\ votes' = Append(votes, {}) /\ refusals' = Append(refusals, {})
      /\ UNCHANGED <<ncrs, jobs>>
  BY DEF BlastRadius
<1> HIDE DEF approval, exposed
<1> QED
  BY <1>1, <1>2, <1>3, <1>4, StoreSafe

LEMMA ProposeSafe ==
  ASSUME IInv, NEW u \in Users, NEW n \in Ncrs, NEW c \in Proposed, Propose(u, n, c)
  PROVE  IInv'
<1>1. /\ Len(proposals) < MaxProposals
      /\ proposals' = Append(proposals, Fresh(n, u, c))
      /\ exposures' = Append(exposures, {})
      /\ approvals' = Append(approvals, None)
      /\ votes' = Append(votes, {}) /\ refusals' = Append(refusals, {})
      /\ UNCHANGED <<ncrs, jobs>>
  BY DEF Propose
<1> QED
  BY <1>1, StoreSafe

LEMMA ApproveReadSafe ==
  ASSUME IInv, NEW p \in Threads, NEW u \in Users, NEW k \in DOMAIN proposals,
         ApproveRead(p, u, k)
  PROVE  IInv'
<1> DEFINE job == [op |-> "approve", user |-> u, of |-> k, saw |-> approvals[k],
                   proposal |-> proposals[k]]
<1>1. /\ TypeOK /\ ListsOK /\ QueriesOK /\ PendingOK
      /\ jobs' = [jobs EXCEPT ![p] = job] /\ UNCHANGED <<rows, audit>>
      /\ approvals[k] # None /\ MayApprove(approvals[k], u)
  BY DEF ApproveRead, IInv
<1>2. approvals[k] \in Approval /\ proposals[k] \in Proposal /\ k \in 1..MaxProposals
  <2>1. k \in 1..Len(proposals) /\ Len(proposals) \in Nat /\ Len(proposals) <= MaxProposals
    BY <1>1, Numbered DEF TypeOK
  <2> QED
    BY <1>1, <2>1, Numbered, ContainmentAssumption
<1>3. job \in Approve
  BY <1>2 DEF Approve
<1>a. proposals[k].status = "pending" /\ proposals[k].reviewer = None
  <2>1. QueryOK(k) /\ approvals[k].status = "PENDING"
    BY <1>1 DEF QueriesOK, MayApprove
  <2>2. proposals[k].status \in {"pending", "approved", "rejected"}
    BY <1>2 DEF Proposal
  <2> QED
    BY <1>1, <2>1, <2>2 DEF QueryOK, PendingOK
<1>4. ApproveOK(job)
  BY <1>1, <1>a DEF ApproveOK, MayApprove, ListsOK
<1>5. job.op = "approve"
  OBVIOUS
<1> HIDE DEF job
<1> QED
  BY <1>1, <1>3, <1>4, <1>5, SameRows

LEMMA ReviewReadSafe ==
  ASSUME IInv, NEW p \in Threads, NEW u \in Users, NEW k \in DOMAIN proposals,
         ReviewRead(p, u, k)
  PROVE  IInv'
<1>1. PICK yes \in BOOLEAN :
        jobs' = [jobs EXCEPT ![p] =
          [op |-> "review", user |-> u, of |-> k, saw |-> proposals[k], ncr |-> None,
           yes |-> yes]]
  BY DEF ReviewRead
<1> DEFINE job == [op |-> "review", user |-> u, of |-> k, saw |-> proposals[k],
                   ncr |-> None, yes |-> yes]
<1>2. /\ TypeOK /\ PairsOK /\ PendingOK /\ UNCHANGED <<rows, audit>>
      /\ proposals[k].status = "pending" /\ proposals[k].ncr # None
  BY DEF ReviewRead, MayReview, IInv
<1>3. proposals[k] \in Proposal /\ k \in 1..MaxProposals
  <2>1. k \in 1..Len(proposals) /\ Len(proposals) \in Nat /\ Len(proposals) <= MaxProposals
    BY <1>2, Numbered DEF TypeOK
  <2> QED
    BY <1>2, <2>1, Numbered, ContainmentAssumption
<1>4. job \in Review
  BY <1>3 DEF Review
<1>5. ReviewOK(job) /\ job.op = "review"
  BY <1>2 DEF ReviewOK, PairsOK, PendingOK
<1>6. jobs' = [jobs EXCEPT ![p] = job]
  BY <1>1
<1> HIDE DEF job
<1> QED
  BY <1>2, <1>4, <1>5, <1>6, SameRows

LEMMA NcrReadSafe ==
  ASSUME IInv, NEW p \in Threads, NcrRead(p)
  PROVE  IInv'
<1>1. PICK j : j = jobs[p]
  OBVIOUS
<1>2. PICK c : c = ncrs[j.saw.ncr]
  OBVIOUS
<1>3. PICK job : job = [j EXCEPT !.ncr = c]
  OBVIOUS
<1>4. /\ TypeOK /\ JobsOK /\ UNCHANGED <<rows, audit>> /\ Serves(p, "review")
      /\ jobs' = [jobs EXCEPT ![p] = job]
  BY <1>1, <1>2, <1>3 DEF NcrRead, Serves, IInv
<1>5. j \in Review /\ ReviewOK(j)
  BY <1>1, <1>4, Kinds DEF JobsOK
<1>6. c \in Containments
  BY <1>2, <1>4, <1>5 DEF Review, ReviewOK, Proposal, TypeOK
<1>7. /\ job \in Review /\ job.op = "review" /\ job.of = j.of /\ job.saw = j.saw
  BY <1>3, <1>5, <1>6 DEF Review
<1>8. ReviewOK(job)
  BY <1>5, <1>7 DEF ReviewOK
<1> QED
  BY <1>4, <1>7, <1>8, SameRows

LEMMA DecideReadSafe ==
  ASSUME IInv, NEW p \in Threads, NEW u \in Users, NEW n \in Ncrs, DecideRead(p, u, n)
  PROVE  IInv'
<1>1. PICK c \in Containments : jobs' = [jobs EXCEPT ![p] =
         [op |-> "decide", user |-> u, ncr |-> n, saw |-> ncrs[n], containment |-> c]]
  BY DEF DecideRead
<1> DEFINE job == [op |-> "decide", user |-> u, ncr |-> n, saw |-> ncrs[n], containment |-> c]
<1>2. UNCHANGED <<rows, audit>>
  BY DEF DecideRead
<1>3. job \in Decide /\ job.op = "decide"
  BY DEF Decide, IInv, TypeOK
<1>4. jobs' = [jobs EXCEPT ![p] = job]
  BY <1>1
<1> HIDE DEF job
<1> QED
  BY <1>2, <1>3, <1>4, SameRows

LEMMA AbortSafe ==
  ASSUME IInv, NEW p \in Threads, Abort(p)
  PROVE  IInv'
<1>1. jobs' = [jobs EXCEPT ![p] = None] /\ UNCHANGED <<rows, audit>>
  BY DEF Abort, Done
<1> QED
  BY <1>1, SameRows

-----------------------------------------------------------------------------
(* The steps: what is committed. *)

\* The end of a request keeps what the other jobs have read true of the rows.
LEMMA JobsKept ==
  ASSUME TypeOK, JobsOK, NEW p \in Threads, jobs' = [jobs EXCEPT ![p] = None],
         DOMAIN proposals' = DOMAIN proposals,
         \A k \in DOMAIN proposals :
           /\ approvals[k] = None => approvals'[k] = None
           /\ approvals[k] # None =>
                /\ approvals'[k] # None
                /\ approvals'[k].requester = approvals[k].requester
                /\ approvals'[k].required = approvals[k].required
           /\ votes[k] \subseteq votes'[k]
  PROVE  JobsOK'
<1>1. ASSUME NEW j, ApproveOK(j)
      PROVE  ApproveOK(j)'
  BY <1>1 DEF ApproveOK
<1>2. ASSUME NEW j, ReviewOK(j)
      PROVE  ReviewOK(j)'
  BY <1>2 DEF ReviewOK
<1>3. ASSUME NEW q \in Threads
      PROVE  /\ Serves(q, "approve")' => Serves(q, "approve") /\ jobs'[q] = jobs[q]
             /\ Serves(q, "review")' => Serves(q, "review") /\ jobs'[q] = jobs[q]
  <2>1. CASE q = p
    BY <2>1, OneJob
  <2>2. CASE q # p
    BY <2>2, OneJob
  <2> QED
    BY <2>1, <2>2
<1> QED
  BY <1>1, <1>2, <1>3 DEF JobsOK

\* What the commit of an approval does to the rows of its proposal.
LEMMA ApproveRows ==
  ASSUME TypeOK, JobsOK, NEW p \in Threads, ApproveCommit(p)
  PROVE  LET k == jobs[p].of
             by == jobs[p].saw.by \cup {jobs[p].user}
             complete == Cardinality(by) >= jobs[p].saw.required
         IN
         /\ k \in DOMAIN proposals /\ approvals[k] \in Approval
         /\ \E a \in Approval :
              /\ approvals' = [approvals EXCEPT ![k] = a]
              /\ a.requester = approvals[k].requester
              /\ a.required = approvals[k].required
              /\ a.by \in {by, approvals[k].by}
              /\ a.status = IF complete THEN "APPROVED" ELSE approvals[k].status
         /\ \E r \in Proposal :
              /\ proposals' = [proposals EXCEPT ![k] = r]
              /\ r.ncr = proposals[k].ncr /\ r.by = proposals[k].by
              /\ IF complete THEN r.status = "approved" /\ r.reviewer = jobs[p].user
                 ELSE r = proposals[k]
         /\ votes' = [votes EXCEPT ![k] = votes[k] \cup {jobs[p].user}]
         /\ by \subseteq Users
         /\ jobs' = [jobs EXCEPT ![p] = None]
         /\ UNCHANGED <<exposures, ncrs, refusals>>
<1> DEFINE j == jobs[p]
           k == j.of
           by == j.saw.by \cup {j.user}
           complete == Cardinality(by) >= j.saw.required
           new == [j.saw EXCEPT !.by = by, !.status = IF complete THEN "APPROVED" ELSE @]
           settled == [j.proposal EXCEPT !.status = "approved", !.reviewer = j.user]
<1>1. /\ j \in Approve /\ ApproveOK(j)
      /\ approvals' = [approvals EXCEPT ![k] = Emit(approvals[k], j.saw, new)]
      /\ proposals' = IF complete
           THEN [proposals EXCEPT ![k] = Emit(proposals[k], j.proposal, settled)]
           ELSE proposals
      /\ votes' = [votes EXCEPT ![k] = votes[k] \cup {j.user}]
      /\ jobs' = [jobs EXCEPT ![p] = None]
      /\ UNCHANGED <<exposures, ncrs, refusals>>
  <2>1. j \in Approve /\ ApproveOK(j)
    BY Kinds DEF ApproveCommit, JobsOK
  <2> QED
    BY <2>1 DEF ApproveCommit, Done
<1>2. k \in DOMAIN proposals /\ approvals[k] \in Approval /\ proposals[k] \in Proposal
  BY <1>1, Numbered DEF ApproveOK
<1>3. /\ j.saw \in Approval /\ j.proposal \in Proposal /\ j.user \in Users
      /\ by \in SUBSET Users
  BY <1>1 DEF Approve, Approval
<1> HIDE DEF complete, by, j
<1>4. /\ new \in Approval /\ new.requester = j.saw.requester
      /\ new.required = j.saw.required /\ new.by = by
      /\ new.status = IF complete THEN "APPROVED" ELSE j.saw.status
  BY <1>3 DEF Approval
<1>5. /\ settled \in Proposal /\ settled.ncr = j.proposal.ncr
      /\ settled.by = j.proposal.by /\ settled.status = "approved"
      /\ settled.reviewer = j.user
  BY <1>3 DEF Proposal
<1>6. /\ j.saw.status = "PENDING" /\ j.proposal.status = "pending"
      /\ j.proposal.reviewer = None /\ j.user # None
  BY <1>1, <1>3, ContainmentAssumption DEF ApproveOK
<1> HIDE DEF new, settled, k
<1> DEFINE a == Emit(approvals[k], j.saw, new)
           r == IF complete THEN Emit(proposals[k], j.proposal, settled) ELSE proposals[k]
<1>7. /\ a \in Approval
      /\ a.requester = approvals[k].requester /\ a.required = approvals[k].required
      /\ a.by \in {by, approvals[k].by}
      /\ a.status = IF complete THEN "APPROVED" ELSE approvals[k].status
  BY <1>2, <1>3, <1>4, <1>6, EmitApproval
<1>8. /\ r \in Proposal /\ r.ncr = proposals[k].ncr /\ r.by = proposals[k].by
      /\ IF complete THEN r.status = "approved" /\ r.reviewer = j.user
         ELSE r = proposals[k]
  BY <1>2, <1>3, <1>5, <1>6, EmitProposal
<1>9. proposals' = [proposals EXCEPT ![k] = r]
  <2>1. CASE complete
    BY <1>1, <2>1 DEF r
  <2>2. CASE ~complete
    BY <1>1, <1>2, <2>2, Numbered DEF r
  <2> QED
    BY <2>1, <2>2
<1>10. approvals' = [approvals EXCEPT ![k] = a]
  BY <1>1
<1> HIDE DEF a, r
<1>11. \E x \in Approval :
         /\ approvals' = [approvals EXCEPT ![k] = x]
         /\ x.requester = approvals[k].requester /\ x.required = approvals[k].required
         /\ x.by \in {by, approvals[k].by}
         /\ x.status = IF complete THEN "APPROVED" ELSE approvals[k].status
  BY <1>7, <1>10
<1>12. \E x \in Proposal :
         /\ proposals' = [proposals EXCEPT ![k] = x]
         /\ x.ncr = proposals[k].ncr /\ x.by = proposals[k].by
         /\ IF complete THEN x.status = "approved" /\ x.reviewer = j.user
            ELSE x = proposals[k]
  BY <1>8, <1>9
<1> QED
  BY <1>1, <1>2, <1>3, <1>11, <1>12 DEF j, by, complete, k

LEMMA ApproveCommitSafe ==
  ASSUME IInv, NEW p \in Threads, ApproveCommit(p)
  PROVE  IInv'
<1>1. TypeOK /\ QueriesOK /\ JobsOK /\ ListsOK /\ PairsOK /\ PendingOK /\ ReviewerAnswered
  BY DEF IInv
<1>2. PICK j : j = jobs[p]
  OBVIOUS
<1>3. PICK k : k = j.of
  OBVIOUS
<1> DEFINE by == j.saw.by \cup {j.user}
           complete == Cardinality(by) >= j.saw.required
<1>4. /\ k \in DOMAIN proposals /\ approvals[k] \in Approval
      /\ votes' = [votes EXCEPT ![k] = votes[k] \cup {j.user}]
      /\ by \subseteq Users
      /\ jobs' = [jobs EXCEPT ![p] = None] /\ UNCHANGED <<exposures, ncrs, refusals>>
  BY <1>1, <1>2, <1>3, ApproveRows
<1>5. PICK a \in Approval :
        /\ approvals' = [approvals EXCEPT ![k] = a]
        /\ a.requester = approvals[k].requester /\ a.required = approvals[k].required
        /\ a.by \in {by, approvals[k].by}
        /\ a.status = IF complete THEN "APPROVED" ELSE approvals[k].status
  BY <1>1, <1>2, <1>3, ApproveRows
<1>6. PICK r \in Proposal :
        /\ proposals' = [proposals EXCEPT ![k] = r]
        /\ r.ncr = proposals[k].ncr /\ r.by = proposals[k].by
        /\ IF complete THEN r.status = "approved" /\ r.reviewer = j.user
           ELSE r = proposals[k]
  BY <1>1, <1>2, <1>3, ApproveRows
<1>7. ApproveOK(j) /\ j \in Approve
  BY <1>1, <1>2, Kinds DEF ApproveCommit, JobsOK
<1>8. approvals[k] # None /\ a # None
  BY <1>4, NoneIsNoRow
<1>9. /\ proposals' \in Seq(Proposal) /\ Len(proposals') = Len(proposals)
      /\ DOMAIN proposals' = DOMAIN proposals
      /\ proposals'[k] = r
      /\ \A i \in DOMAIN proposals : i # k => proposals'[i] = proposals[i]
  <2>1. k \in 1..Len(proposals) /\ proposals \in Seq(Proposal)
    BY <1>1, <1>4, LenProperties DEF TypeOK
  <2> QED
    BY <1>6, <2>1, ExceptSeq, LenProperties
<1>10. /\ approvals' \in [DOMAIN proposals -> Approval \cup {None}] /\ approvals'[k] = a
       /\ votes' \in [DOMAIN proposals -> SUBSET Users]
       /\ votes'[k] = votes[k] \cup {j.user}
       /\ \A i \in DOMAIN proposals :
            i # k => approvals'[i] = approvals[i] /\ votes'[i] = votes[i]
  <2>1. /\ approvals \in [DOMAIN proposals -> Approval \cup {None}]
        /\ votes \in [DOMAIN proposals -> SUBSET Users] /\ j.user \in Users
    BY <1>1, <1>4 DEF TypeOK
  <2>2. votes[k] \cup {j.user} \in SUBSET Users
    BY <1>4, <2>1
  <2> QED
    BY <1>4, <1>5, <2>1, <2>2
<1>11. TypeOK'
  BY <1>1, <1>4, <1>9, <1>10, OneJob DEF TypeOK
<1>12. \A i \in DOMAIN proposals : votes[i] \subseteq votes'[i]
  BY <1>10
<1> DEFINE voted == votes'[k] \ {a.requester}
<1>13. /\ IsFiniteSet(votes[k]) /\ QueryOK(k)
       /\ approvals[k].by \subseteq votes[k] \ {approvals[k].requester}
  BY <1>1, <1>4, <1>8 DEF QueriesOK, ListsOK
<1>14. IsFiniteSet(votes'[k]) /\ IsFiniteSet(voted)
  <2>1. IsFiniteSet(votes'[k])
    BY <1>10, <1>13, FS_AddElement
  <2> QED
    BY <2>1, FS_RemoveElement
<1>15. by \subseteq voted /\ a.by \subseteq voted
  <2>1. /\ j.saw.requester = a.requester /\ j.user # a.requester
        /\ j.saw.by \subseteq votes[k] \ {a.requester}
    BY <1>3, <1>5, <1>7 DEF ApproveOK
  <2>2. by \subseteq voted
    BY <1>10, <2>1
  <2> QED
    BY <1>5, <1>10, <1>13, <2>2
<1>16. QueryOK(k)'
  <2>1. j.saw.required = a.required /\ a.required \in Nat
    BY <1>3, <1>5, <1>7 DEF ApproveOK, Approval
  <2>2. ASSUME a.status = "APPROVED"
        PROVE  Cardinality(voted) >= a.required
    <3>1. CASE complete
      <4>1. Cardinality(by) <= Cardinality(voted) /\ IsFiniteSet(by)
        BY <1>14, <1>15, FS_Subset
      <4>2. Cardinality(by) \in Nat /\ Cardinality(voted) \in Nat
        BY <1>14, <4>1, FS_CardinalityType
      <4> HIDE DEF by, voted
      <4> QED
        BY <2>1, <3>1, <4>1, <4>2
    <3>2. CASE ~complete
      <4> DEFINE old == votes[k] \ {a.requester}
      <4>1. Cardinality(old) >= a.required
        <5>1. approvals[k].status = "APPROVED"
          BY <1>5, <2>2, <3>2
        <5> QED
          BY <1>5, <1>13, <5>1 DEF QueryOK
      <4>2. old \subseteq voted
        BY <1>10
      <4>3. Cardinality(old) <= Cardinality(voted) /\ IsFiniteSet(old)
        BY <1>14, <4>2, FS_Subset
      <4>4. Cardinality(old) \in Nat /\ Cardinality(voted) \in Nat
        BY <1>14, <4>3, FS_CardinalityType
      <4> HIDE DEF old, voted
      <4> QED
        BY <2>1, <4>1, <4>3, <4>4
    <3> QED
      BY <3>1, <3>2
  <2>3. r.status = "approved" => a.status = "APPROVED"
    BY <1>5, <1>6, <1>13 DEF QueryOK
  <2>5. r.status # "rejected"
    BY <1>6, <1>13 DEF QueryOK
  <2>4. r.ncr = None /\ a.requester = r.by /\ a.required = Required(exposures[k])
    BY <1>5, <1>6, <1>13 DEF QueryOK
  <2> QED
    BY <1>4, <1>9, <1>10, <2>2, <2>3, <2>4, <2>5 DEF QueryOK
<1>17. QueriesOK'
  <2>1. ASSUME NEW i \in DOMAIN proposals, i # k
        PROVE  IsFiniteSet(votes'[i]) /\ (approvals'[i] # None => QueryOK(i)')
    BY <1>1, <1>4, <1>9, <1>10, <2>1 DEF QueriesOK, QueryOK
  <2>2. \A i \in DOMAIN proposals' :
          IsFiniteSet(votes'[i]) /\ (approvals'[i] # None => QueryOK(i)')
    BY <1>9, <1>14, <1>16, <2>1
  <2> QED
    BY <2>2, Zenon DEF QueriesOK
<1>18. ListsOK'
  <2>1. ASSUME NEW i \in DOMAIN proposals, approvals'[i] # None
        PROVE  approvals'[i].by \subseteq votes'[i] \ {approvals'[i].requester}
    <3>1. CASE i = k
      BY <1>10, <1>15, <3>1
    <3>2. CASE i # k
      BY <1>1, <1>10, <2>1, <3>2 DEF ListsOK
    <3> QED
      BY <3>1, <3>2
  <2> QED
    BY <1>9, <2>1 DEF ListsOK
<1>19. PairsOK'
  <2>1. r.ncr = None
    BY <1>6, <1>13 DEF QueryOK
  <2> QED
    BY <1>1, <1>9, <1>10, <2>1 DEF PairsOK
<1>20. JobsOK'
  <2>1. ASSUME NEW i \in DOMAIN proposals
        PROVE  /\ approvals[i] = None => approvals'[i] = None
               /\ approvals[i] # None =>
                    /\ approvals'[i] # None
                    /\ approvals'[i].requester = approvals[i].requester
                    /\ approvals'[i].required = approvals[i].required
               /\ votes[i] \subseteq votes'[i]
    BY <1>5, <1>8, <1>10, <1>12
  <2> QED
    BY <1>1, <1>4, <1>9, <2>1, JobsKept
<1>21. PendingOK' /\ ReviewerAnswered'
  <2>1. /\ r.status = "pending" => r.reviewer = None
        /\ r.status = "approved" => r.reviewer \in votes'[k]
        /\ r.status = "rejected" => r.reviewer \in refusals'[k]
    <3>1. CASE complete
      BY <1>6, <1>10, <3>1
    <3>2. CASE ~complete
      BY <1>1, <1>4, <1>6, <1>10, <3>2 DEF PendingOK, ReviewerAnswered
    <3> QED
      BY <3>1, <3>2
  <2>2. \A i \in DOMAIN proposals : i # k =>
          proposals'[i] = proposals[i] /\ votes'[i] = votes[i] /\ refusals'[i] = refusals[i]
    BY <1>4, <1>9, <1>10
  <2> QED
    BY <1>1, <1>9, <2>1, <2>2 DEF PendingOK, ReviewerAnswered
<1> QED
  BY <1>11, <1>17, <1>18, <1>19, <1>20, <1>21 DEF IInv

\* What the commit of a review does.
LEMMA ReviewRows ==
  ASSUME TypeOK, JobsOK, NEW p \in Threads, ReviewCommit(p)
  PROVE  LET j == jobs[p]
             k == j.of
             n == j.saw.ncr
         IN
         /\ k \in DOMAIN proposals /\ approvals[k] = None /\ j.user \in Users
         /\ \E r \in Proposal :
              /\ proposals' = [proposals EXCEPT ![k] = r] /\ r.ncr = proposals[k].ncr
              /\ r.status = IF j.yes THEN "approved" ELSE "rejected"
              /\ r.reviewer = j.user
         /\ n \in Ncrs
         /\ \E c \in Containments : ncrs' = [ncrs EXCEPT ![n] = c]
         /\ votes' = [votes EXCEPT ![k] = IF j.yes THEN votes[k] \cup {j.user} ELSE votes[k]]
         /\ refusals' = [refusals EXCEPT ![k] =
              IF j.yes THEN refusals[k] ELSE refusals[k] \cup {j.user}]
         /\ jobs' = [jobs EXCEPT ![p] = None]
         /\ UNCHANGED <<exposures, approvals>>
<1> DEFINE j == jobs[p]
           k == j.of
           n == j.saw.ncr
           new == [j.saw EXCEPT !.status = IF j.yes THEN "approved" ELSE "rejected",
                                !.reviewer = j.user]
           r == Emit(proposals[k], j.saw, new)
           c == EmitValue(ncrs[n], j.ncr, IF j.yes THEN j.saw.containment ELSE j.ncr)
<1>1. j \in Review /\ ReviewOK(j)
  BY Kinds DEF ReviewCommit, JobsOK
<1>2. /\ proposals' = [proposals EXCEPT ![k] = r]
      /\ ncrs' = [ncrs EXCEPT ![n] = c]
      /\ votes' = [votes EXCEPT ![k] = IF j.yes THEN votes[k] \cup {j.user} ELSE votes[k]]
      /\ refusals' = [refusals EXCEPT ![k] =
           IF j.yes THEN refusals[k] ELSE refusals[k] \cup {j.user}]
      /\ jobs' = [jobs EXCEPT ![p] = None]
      /\ UNCHANGED <<exposures, approvals>> /\ j.ncr # None
  BY DEF ReviewCommit, Done
<1>3. /\ k \in DOMAIN proposals /\ approvals[k] = None /\ n # None
      /\ j.saw.status = "pending" /\ j.saw.reviewer = None
  BY <1>1 DEF ReviewOK
<1>4. /\ j.saw \in Proposal /\ j.user \in Users /\ j.ncr \in Containments
      /\ j.yes \in BOOLEAN /\ j.user # None
  BY <1>1, <1>2, ContainmentAssumption DEF Review
<1>5. n \in Ncrs /\ j.saw.containment \in Containments
  BY <1>3, <1>4 DEF Proposal, Proposed
<1> HIDE DEF j
<1>6. /\ new \in Proposal /\ new.ncr = j.saw.ncr /\ new.reviewer = j.user
      /\ new.status = IF j.yes THEN "approved" ELSE "rejected"
  BY <1>4 DEF Proposal
<1>7. /\ r \in Proposal /\ r.ncr = proposals[k].ncr /\ r.reviewer = j.user
      /\ r.status = IF j.yes THEN "approved" ELSE "rejected"
  <2>1. proposals[k] \in Proposal
    BY <1>3, Numbered
  <2> HIDE DEF new
  <2>2. new.status # j.saw.status /\ new.reviewer # j.saw.reviewer
    BY <1>3, <1>4, <1>6
  <2> QED
    BY <1>4, <1>6, <2>1, <2>2, EmitProposal
<1>8. c \in Containments
  <2>1. ncrs[n] \in Containments
    BY <1>5 DEF TypeOK
  <2> QED
    BY <1>4, <1>5, <2>1 DEF EmitValue
<1> HIDE DEF r, c, k, n
<1>9. \E x \in Proposal :
        /\ proposals' = [proposals EXCEPT ![k] = x] /\ x.ncr = proposals[k].ncr
        /\ x.status = IF j.yes THEN "approved" ELSE "rejected"
        /\ x.reviewer = j.user
  BY <1>2, <1>7
<1>10. \E x \in Containments : ncrs' = [ncrs EXCEPT ![n] = x]
  BY <1>2, <1>8
<1> QED
  BY <1>2, <1>3, <1>4, <1>5, <1>9, <1>10 DEF j, k, n

LEMMA ReviewCommitSafe ==
  ASSUME IInv, NEW p \in Threads, ReviewCommit(p)
  PROVE  IInv'
<1>1. TypeOK /\ QueriesOK /\ JobsOK /\ ListsOK /\ PairsOK /\ PendingOK /\ ReviewerAnswered
  BY DEF IInv
<1>2. PICK j : j = jobs[p]
  OBVIOUS
<1>3. PICK k : k = j.of
  OBVIOUS
<1>4. PICK n : n = j.saw.ncr
  OBVIOUS
<1>5. /\ k \in DOMAIN proposals /\ approvals[k] = None /\ j.user \in Users
      /\ n \in Ncrs
      /\ votes' = [votes EXCEPT ![k] = IF j.yes THEN votes[k] \cup {j.user} ELSE votes[k]]
      /\ refusals' = [refusals EXCEPT ![k] =
           IF j.yes THEN refusals[k] ELSE refusals[k] \cup {j.user}]
      /\ jobs' = [jobs EXCEPT ![p] = None]
      /\ UNCHANGED <<exposures, approvals>>
  BY <1>1, <1>2, <1>3, <1>4, ReviewRows
<1>6. PICK r \in Proposal :
        /\ proposals' = [proposals EXCEPT ![k] = r] /\ r.ncr = proposals[k].ncr
        /\ r.status = IF j.yes THEN "approved" ELSE "rejected"
        /\ r.reviewer = j.user
  BY <1>1, <1>2, <1>3, ReviewRows
<1>7. PICK c \in Containments : ncrs' = [ncrs EXCEPT ![n] = c]
  BY <1>1, <1>2, <1>4, ReviewRows
<1>8. /\ proposals' \in Seq(Proposal) /\ Len(proposals') = Len(proposals)
      /\ DOMAIN proposals' = DOMAIN proposals
      /\ proposals'[k] = r
      /\ \A i \in DOMAIN proposals : i # k => proposals'[i] = proposals[i]
  <2>1. k \in 1..Len(proposals) /\ proposals \in Seq(Proposal)
    BY <1>1, <1>5, LenProperties DEF TypeOK
  <2> QED
    BY <1>6, <2>1, ExceptSeq, LenProperties
<1>9. /\ votes' \in [DOMAIN proposals -> SUBSET Users]
      /\ refusals' \in [DOMAIN proposals -> SUBSET Users]
      /\ votes'[k] \in {votes[k], votes[k] \cup {j.user}}
      /\ j.yes => j.user \in votes'[k]
      /\ ~j.yes => j.user \in refusals'[k]
      /\ \A i \in DOMAIN proposals :
           i # k => votes'[i] = votes[i] /\ refusals'[i] = refusals[i]
  <2>1. /\ votes \in [DOMAIN proposals -> SUBSET Users]
        /\ refusals \in [DOMAIN proposals -> SUBSET Users]
    BY <1>1 DEF TypeOK
  <2>2. CASE j.yes
    <3>1. votes' = [votes EXCEPT ![k] = votes[k] \cup {j.user}]
      BY <1>5, <2>2
    <3>2. refusals' = [refusals EXCEPT ![k] = refusals[k]]
      BY <1>5, <2>2
    <3> QED
      BY <1>5, <2>1, <2>2, <3>1, <3>2
  <2>3. CASE ~j.yes
    <3>1. votes' = [votes EXCEPT ![k] = votes[k]]
      BY <1>5, <2>3
    <3>2. refusals' = [refusals EXCEPT ![k] = refusals[k] \cup {j.user}]
      BY <1>5, <2>3
    <3> QED
      BY <1>5, <2>1, <2>3, <3>1, <3>2
  <2> QED
    BY <2>2, <2>3
<1>10. TypeOK'
  <2>1. ncrs' \in [Ncrs -> Containments]
    BY <1>1, <1>7 DEF TypeOK
  <2>2. jobs' \in [Threads -> Approve \cup Review \cup Decide \cup {None}]
    BY <1>1, <1>5, OneJob
  <2> QED
    BY <1>1, <1>5, <1>8, <1>9, <2>1, <2>2 DEF TypeOK
<1>11. QueriesOK'
  <2>1. ASSUME NEW i \in DOMAIN proposals, approvals[i] # None
        PROVE  QueryOK(i)'
    <3>1. i # k /\ QueryOK(i)
      BY <1>1, <1>5, <2>1 DEF QueriesOK
    <3>2. votes'[i] = votes[i]
      BY <1>9, <3>1
    <3> QED
      BY <1>5, <1>8, <3>1, <3>2 DEF QueryOK
  <2>2. ASSUME NEW i \in DOMAIN proposals
        PROVE  IsFiniteSet(votes'[i])
    <3>1. IsFiniteSet(votes[i]) /\ IsFiniteSet(votes[i] \cup {j.user})
      BY <1>1, FS_AddElement DEF QueriesOK
    <3> QED
      BY <1>9, <3>1
  <2> QED
    BY <1>5, <1>8, <2>1, <2>2 DEF QueriesOK
<1>12. ListsOK'
  BY <1>1, <1>5, <1>8, <1>9 DEF ListsOK
<1>13. PairsOK'
  BY <1>1, <1>5, <1>6, <1>8 DEF PairsOK
<1>14. JobsOK'
  <2>1. \A i \in DOMAIN proposals : votes[i] \subseteq votes'[i]
    BY <1>9
  <2> QED
    BY <1>1, <1>5, <1>8, <2>1, JobsKept
<1>15. PendingOK' /\ ReviewerAnswered'
  <2>1. /\ proposals'[k].status # "pending"
        /\ proposals'[k].status = "approved" => proposals'[k].reviewer \in votes'[k]
        /\ proposals'[k].status = "rejected" => proposals'[k].reviewer \in refusals'[k]
    BY <1>6, <1>8, <1>9
  <2> QED
    BY <1>1, <1>8, <1>9, <2>1 DEF PendingOK, ReviewerAnswered
<1> QED
  BY <1>10, <1>11, <1>12, <1>13, <1>14, <1>15 DEF IInv

LEMMA DecideCommitSafe ==
  ASSUME IInv, NEW p \in Threads, DecideCommit(p)
  PROVE  IInv'
<1>1. TypeOK /\ QueriesOK /\ JobsOK /\ ListsOK /\ PairsOK /\ PendingOK /\ ReviewerAnswered
  BY DEF IInv
<1>2. PICK j : j = jobs[p]
  OBVIOUS
<1>3. j \in Decide
  BY <1>1, <1>2, Kinds DEF DecideCommit
<1>4. j.ncr \in Ncrs /\ j.containment \in Containments
  BY <1>3 DEF Decide
<1>5. /\ ncrs' = [ncrs EXCEPT ![j.ncr] = EmitValue(ncrs[j.ncr], j.saw, j.containment)]
      /\ jobs' = [jobs EXCEPT ![p] = None]
      /\ UNCHANGED <<proposals, exposures, approvals, votes, refusals>>
  BY <1>2 DEF DecideCommit, Done, audit
<1>6. ncrs' \in [Ncrs -> Containments]
  <2>1. EmitValue(ncrs[j.ncr], j.saw, j.containment) \in {ncrs[j.ncr], j.containment}
    BY DEF EmitValue
  <2> QED
    BY <1>1, <1>4, <1>5, <2>1 DEF TypeOK
<1>7. TypeOK'
  BY <1>1, <1>5, <1>6, OneJob DEF TypeOK
<1>8. QueriesOK' /\ ListsOK' /\ PairsOK' /\ PendingOK' /\ ReviewerAnswered'
  BY <1>1, <1>5 DEF QueriesOK, QueryOK, ListsOK, PairsOK, PendingOK, ReviewerAnswered
<1>9. JobsOK'
  BY <1>1, <1>5, JobsKept
<1> QED
  BY <1>7, <1>8, <1>9 DEF IInv

-----------------------------------------------------------------------------
(* The theorems. *)

LEMMA InitSafe == Init => IInv
<1> SUFFICES ASSUME Init
             PROVE  IInv
  OBVIOUS
<1>1. /\ proposals = <<>> /\ exposures = <<>> /\ approvals = <<>> /\ votes = <<>>
      /\ refusals = <<>>
      /\ ncrs = [n \in Ncrs |-> "REVIEW_REQUIRED"] /\ jobs = [p \in Threads |-> None]
  BY DEF Init
<1>2. DOMAIN proposals = {} /\ Len(proposals) = 0 /\ proposals \in Seq(Proposal)
  BY <1>1
<1>3. TypeOK
  BY <1>1, <1>2, ContainmentAssumption DEF TypeOK
<1>4. QueriesOK /\ ListsOK /\ PairsOK /\ PendingOK /\ ReviewerAnswered
  BY <1>2 DEF QueriesOK, ListsOK, PairsOK, PendingOK, ReviewerAnswered
<1>5. JobsOK
  BY <1>1 DEF JobsOK, Serves
<1> QED
  BY <1>3, <1>4, <1>5 DEF IInv

\* Every step, and every stutter, keeps the inductive invariant.
LEMMA NextSafe == IInv /\ [Next]_vars => IInv'
<1> SUFFICES ASSUME IInv, [Next]_vars
             PROVE  IInv'
  OBVIOUS
<1>1. ASSUME NEW u \in Users, NEW c \in Proposed,
             \/ \E f \in Factors : BlastRadius(u, f, c)
             \/ \E n \in Ncrs : Propose(u, n, c)
      PROVE  IInv'
  BY <1>1, BlastRadiusSafe, ProposeSafe
<1>2. ASSUME NEW p \in Threads, NEW u \in Users,
             \/ \E k \in DOMAIN proposals : ApproveRead(p, u, k) \/ ReviewRead(p, u, k)
             \/ \E n \in Ncrs : DecideRead(p, u, n)
      PROVE  IInv'
  BY <1>2, ApproveReadSafe, ReviewReadSafe, DecideReadSafe
<1>3. ASSUME NEW p \in Threads,
             \/ NcrRead(p) \/ ReviewCommit(p)
             \/ ApproveCommit(p) \/ DecideCommit(p) \/ Abort(p)
      PROVE  IInv'
  BY <1>3, NcrReadSafe, ReviewCommitSafe, ApproveCommitSafe, DecideCommitSafe, AbortSafe
<1>4. CASE UNCHANGED vars
  BY <1>4 DEF vars, rows, audit, IInv, TypeOK, QueriesOK, QueryOK, JobsOK, ApproveOK,
     ReviewOK, Serves, ListsOK, PairsOK, PendingOK, ReviewerAnswered
<1> QED
  BY <1>1, <1>2, <1>3, <1>4 DEF Next

\* The inductive invariant holds in every reachable state.
THEOREM Invariance == Spec => []IInv
BY InitSafe, NextSafe, PTL DEF Spec

\* Type correctness of the proposals, the approval requests and what the requests
\* under way have read.
THEOREM TypeCorrect == Spec => []TypeOK
<1>1. IInv => TypeOK
  BY DEF IInv
<1> QED
  BY <1>1, Invariance, PTL

\* Whatever approvals rewrite of one another's lists, a query's proposal is
\* approved only when as many people as its size calls for have approved it
\* (approve).
THEOREM ApprovedByEnough == Spec => []EnoughApprovers
<1>1. IInv => EnoughApprovers
  <2> SUFFICES ASSUME IInv, NEW k \in DOMAIN proposals,
                      approvals[k] # None, proposals[k].status = "approved"
               PROVE  /\ approvals[k].status = "APPROVED"
                      /\ Cardinality(votes[k] \ {proposals[k].by}) >= Required(exposures[k])
    BY DEF EnoughApprovers
  <2>1. QueryOK(k)
    BY DEF IInv, QueriesOK
  <2> QED
    BY <2>1 DEF QueryOK
<1> QED
  BY <1>1, Invariance, PTL

\* However the answers of two people to one proposal overlap, the reviewer that
\* it names gave the answer that it records (review_containment, approve).
THEOREM ReviewerNamed == Spec => []ReviewerAnswered
<1>1. IInv => ReviewerAnswered
  BY DEF IInv
<1> QED
  BY <1>1, Invariance, PTL

\* A step that changes a proposal or its request adds one, or commits an approval
\* or a review.
LEMMA RowStep ==
  ASSUME [Next]_vars
  PROVE  \/ UNCHANGED <<proposals, approvals>>
         \/ \E u \in Users, c \in Proposed :
              \/ \E f \in Factors : BlastRadius(u, f, c)
              \/ \E n \in Ncrs : Propose(u, n, c)
         \/ \E p \in Threads : ApproveCommit(p) \/ ReviewCommit(p)
<1>1. ASSUME NEW p \in Threads, NEW u \in Users, NEW k \in DOMAIN proposals,
             ApproveRead(p, u, k) \/ ReviewRead(p, u, k)
      PROVE  UNCHANGED <<proposals, approvals>>
  BY <1>1 DEF ApproveRead, ReviewRead, rows
<1>2. ASSUME NEW p \in Threads, NEW u \in Users, NEW n \in Ncrs, DecideRead(p, u, n)
      PROVE  UNCHANGED <<proposals, approvals>>
  BY <1>2 DEF DecideRead, rows
<1>3. ASSUME NEW p \in Threads, NcrRead(p) \/ DecideCommit(p) \/ Abort(p)
      PROVE  UNCHANGED <<proposals, approvals>>
  BY <1>3 DEF NcrRead, DecideCommit, Abort, rows
<1>4. CASE UNCHANGED vars
  BY <1>4 DEF vars, rows
<1> QED
  BY <1>1, <1>2, <1>3, <1>4, Zenon DEF Next

\* An approval that read the request before it was complete does not take the
\* completion back (approve writes only what differs from what it has read).
THEOREM CompletedStands == Spec => ApprovalStands
<1> DEFINE Stands == \A k \in DOMAIN proposals : approvals[k] # None =>
             /\ approvals[k].status = "APPROVED" => approvals'[k].status = "APPROVED"
             /\ proposals[k].status = "approved" => proposals'[k].status = "approved"
<1>1. ASSUME IInv, [Next]_vars
      PROVE  [Stands]_vars
  <2>1. CASE UNCHANGED <<proposals, approvals>>
    BY <2>1
  <2>2. CASE \E u \in Users, c \in Proposed :
               \/ \E f \in Factors : BlastRadius(u, f, c)
               \/ \E n \in Ncrs : Propose(u, n, c)
    <3>1. \E r, a : proposals' = Append(proposals, r) /\ approvals' = Append(approvals, a)
      BY <2>2 DEF BlastRadius, Propose
    <3>2. PICK r, a : proposals' = Append(proposals, r) /\ approvals' = Append(approvals, a)
      BY <3>1
    <3>3. /\ DOMAIN proposals = 1..Len(proposals) /\ Len(proposals) \in Nat
          /\ approvals \in [1..Len(proposals) -> Approval \cup {None}]
          /\ proposals \in [1..Len(proposals) -> Proposal]
      BY <1>1, Numbered DEF IInv
    <3>4. \A k \in DOMAIN proposals : proposals'[k] = proposals[k] /\ approvals'[k] = approvals[k]
      BY <3>2, <3>3
    <3> QED
      BY <3>4
  <2>3. ASSUME NEW p \in Threads, ApproveCommit(p)
        PROVE  Stands
    <3>1. PICK k : k = jobs[p].of
      OBVIOUS
    <3>2. TypeOK /\ JobsOK
      BY <1>1 DEF IInv
    <3>3. \E a \in Approval, complete \in BOOLEAN :
            /\ approvals' = [approvals EXCEPT ![k] = a]
            /\ a.status = IF complete THEN "APPROVED" ELSE approvals[k].status
      <4> DEFINE complete == Cardinality(jobs[p].saw.by \cup {jobs[p].user})
                               >= jobs[p].saw.required
      <4>1. complete \in BOOLEAN
        OBVIOUS
      <4>2. \E a \in Approval :
              /\ approvals' = [approvals EXCEPT ![k] = a]
              /\ a.status = IF complete THEN "APPROVED" ELSE approvals[k].status
        BY <2>3, <3>1, <3>2, ApproveRows
      <4> HIDE DEF complete
      <4> QED
        BY <4>1, <4>2
    <3>4. \E r \in Proposal :
            /\ proposals' = [proposals EXCEPT ![k] = r]
            /\ proposals[k].status = "approved" => r.status = "approved"
      <4> DEFINE complete == Cardinality(jobs[p].saw.by \cup {jobs[p].user})
                               >= jobs[p].saw.required
      <4>1. PICK r \in Proposal :
              /\ proposals' = [proposals EXCEPT ![k] = r]
              /\ IF complete THEN r.status = "approved" ELSE r = proposals[k]
        BY <2>3, <3>1, <3>2, ApproveRows
      <4>2. complete \/ ~complete
        OBVIOUS
      <4> HIDE DEF complete
      <4>3. proposals[k].status = "approved" => r.status = "approved"
        BY <4>1, <4>2
      <4> QED
        BY <4>1, <4>3
    <3> QED
      BY <3>2, <3>3, <3>4, Numbered
  <2>4. ASSUME NEW p \in Threads, ReviewCommit(p)
        PROVE  Stands
    <3>1. PICK k : k = jobs[p].of
      OBVIOUS
    <3>2. TypeOK /\ JobsOK
      BY <1>1 DEF IInv
    <3>3. approvals[k] = None /\ approvals' = approvals
          /\ \E r \in Proposal : proposals' = [proposals EXCEPT ![k] = r]
      BY <2>4, <3>1, <3>2, ReviewRows
    <3> QED
      BY <3>2, <3>3, Numbered
  <2> QED
    BY <1>1, <2>1, <2>2, <2>3, <2>4, RowStep
<1> QED
  BY <1>1, Invariance, PTL DEF Spec, ApprovalStands
=============================================================================
