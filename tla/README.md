# TraceQ: TLA+ models, checks and proofs

TraceQ collects signed or authenticated production events about items, replays
each item's events into a projection, opens nonconformances for detected
defects, lets controllers decide on them, and exports the decisions to an ERP
through an outbox. This directory holds TLA+ models of the parts of it where
state, concurrency and failure meet, the TLC runs that check them, and proofs
that TLAPS checks. `PROJECT.json` lists the components, the runs, the map from
definitions to source lines, the hazards, the findings and the theorems.

Run `tlc -config <run>.cfg <module>` or `tlapm <module>.tla` in this directory.

## 1. Inventory

| Component | State it keeps | Operations | What makes it correct |
|---|---|---|---|
| Event ingestion: `api/events.py`, `ingestion/service.py` | `event_sources`, `transport_nonces`, `raw_events`, `integrity_stream_states`, `projection_state`, invalidations | `POST /events`: authenticate, check scopes, deduplicate, chain, store, mark stale, rebuild | a stored event is never lost to the projection; the chain has no gap; answers tell the truth; a suspended source stores nothing |
| Item projection: `projections/rebuild.py`, `main.py` | `projection_state`, observations, runs, occurrences, nonconformances, analysis versions | `rebuild_item`, `mark_projection_failed`, `recover_stale_projections` at startup | rebuilds never undo one another; the row is truthful; one open nonconformance per defect; its newest version fits the projection |
| Administration: `api/admin.py` | `event_sources`, users | `patch_source`, `admin_rebuild`, listings | suspension takes effect; a rebuild by an admin is as safe as one by a delivery |
| Nonconformances: `api/nonconformances.py`, `quality/release.py` | nonconformances, `controller_decisions`, `quality_results`, `outbox_messages` | review, request inspection, decide, verify rework, notes, containment | nothing is exported without the decision and the verification it needs |
| Quality rules: `quality/*.py` | none | trust, birth window, defect key | the window starts at the last trusted good inspection |
| Outbox and worker: `worker/main.py`, `integrations/adapters.py`, `api/integrations.py` | `outbox_messages` | `process_one`, `retry_outbox` | one sender per message, bounded attempts, delivered only if booked, always settled |
| ERP emulator: `erp_emulator/app/main.py` | mode, `timeout_consumed`, ledger (in memory) | book a result, set mode, reset | a result is booked once per memory |
| Containment: `api/risk.py`, `api/nonconformances.py` | `containment_proposals`, `approval_requests`, exposures, a nonconformance's containment | blast radius, approve; propose, review; decisions that hold or free; invalidate device | a mass containment has the approvals its size calls for; one that is complete stays so; a settled proposal names who gave its answer |
| Routes: `api/routes.py`, migration 0002, `rebuild.py:318-347` | route definitions and revisions, the revision of an item | create, revise, import, activate; registration | dense numbers; an activation replaces one active revision by another; a superseded one never returns; items keep an activated revision |
| User sessions: `api/auth.py`, `security/auth.py`, `streamlit_app/api_client/client.py` | users, `auth_sessions`, `refresh_tokens`; the client's tokens | login, refresh, logout, admission of a request; disable a user | a token is exchanged once; a logout leaves nothing that renews the session; rotation strands nobody; a lock is earned; requests end |
| Integrity: `security/integrity.py`, `security/checkpoints.py` | alerts, stream status, checkpoints | verify, sign a checkpoint; tamper and reset in the demonstration | no false alarm, no missed change, a stored verdict, checkpoints that name what is on the chain |
| Contracts, product structure, read models, the pages of the UI | little or none | validation, one upsert, queries, display | covered by tests; not modelled |

How they interact. A delivery commits its event and then, in the same handler,
rebuilds its item and the items an invalidation affects. A rebuild opens
nonconformances. A decision that exports writes the nonconformance, a
`QualityResult` and an `OutboxMessage` in one transaction; the worker polls the
outbox and calls the ERP over HTTP. A rebuild that registers an item reads the
routes. The client of the interface keeps the tokens that the session endpoints
hand out and exchanges them when a request is answered 401. Components share only
PostgreSQL tables; the worker and the ERP, and the client and the API, share HTTP.

What is hard. (a) `receive_event` is an `async` handler that awaits nothing
after the body, so one API process (`compose.yaml:84`, `--workers 1`) serialises
deliveries with their rebuilds, but synchronous handlers (admin rebuild, source
patch, decisions, retry) run in threads beside it, and `docs/architecture.md:55`
allows replicas. (b) Sessions have `autoflush=False` and `expire_on_commit=False`
(`database.py:13`) on READ COMMITTED: `Session.get` is a snapshot without a
lock, and a commit writes the columns that differ from it. (c) Locks are taken
at unobvious places: the source row `FOR UPDATE` until the next commit (which
HMAC authentication brings forward), the projection row by the flush of
`rebuilding`, the outbox row for as long as the HTTP call, the row of a refresh
token, and none at all in approvals, reviews, routes and verification. (d)
Processes die between two commits; the ERP answers late, twice, wrongly or never;
a client gives up on a refresh whose commit goes through.

## 2. Modules

| Module | Models | Composed of |
|---|---|---|
| `EventProjection` | ingestion, rebuild, recovery, admin rebuild and source patch over one database | |
| `EventProjectionProofs` | its proofs: types, and what rebuilds and suspension keep | `EventProjection` |
| `EventLogProofs` | further proofs: chains, answers, what recovery and invalidations reach | `EventProjectionProofs` |
| `DeliveryContract` | what the outbox promises, abstractly | |
| `Outbox` | worker, manual retry, ERP emulator and the faults between them | `DeliveryContract` (refinement) |
| `OutboxProofs` | its proofs, refinement included | `Outbox` |
| `Nonconformance` | what replays and handlers do to nonconformances of one item | |
| `NonconformanceProofs` | its proofs | `Nonconformance` |
| `SessionContract` | what the session endpoints promise, abstractly | |
| `Sessions` | login, refresh, logout, the client that holds the tokens, the clock | `SessionContract` (refinement) |
| `SessionsProofs` | its proofs, refinement included | `Sessions` |
| `Containment` | proposals, approvals and reviews, by people who act at the same time | |
| `ContainmentProofs` | its proofs | `Containment` |
| `Routes` | route revisions, their activation and its trigger, the pinning of items | |
| `RoutesProofs` | its proofs | `Routes` |
| `IntegrityLog` | chains, verification, alerts, checkpoints, tampering and reset | |
| `IntegrityLogProofs` | its proofs | `IntegrityLog` |
| `MC*` | small instances | the module of that name |

### EventProjection

`source`, `nonces`, `raw`, `stream`, `proj`, `view` are tables (`view`: the
events that an item's projected rows come from, and which of them are
invalidated); `answers` is what senders were told; `nextSeq` the identity
sequence, which is drawn also by transactions that roll back. `srcLock` and
`rowLock` are PostgreSQL row locks. `phase` and `txn` are the handler's place
and session: what it has read, which is what it later compares with.

One action per database step of the handler: `Refuse`, `AdmitLegacy`,
`AdmitHmac` (authentication and scopes), `AnswerStored` or `ReadStream`,
`Insert`, `LoadRow`, `SelectAffected`, `CommitEvent`; then `OpenRow`,
`ClaimRow`, `ReadEvents`, `CommitRebuild` or `FailRebuild` and `MarkFailed`;
`NextItem` for the loop, `Boot` for startup recovery. `Emit` is the session's
rule for what an UPDATE contains. `Abort` is an unhandled error.

Two details that matter. The INSERT of the raw event is flushed outside the
`try` that catches `IntegrityError` (`service.py:289`), so a duplicate key there
is an error and not a `duplicate`. The advisory lock of a rebuild is asked for
only by who already holds the projection row, so the row lock models both.

Abstracted: policy is `open`, `narrowed` (scopes no longer cover the request) or
`revoked`; a MAC is the event it covers; alerts, attempts and audit rows are
left out; a NULL `last_source_sequence` is 0; `mark_projection_failed` is one
step.

### Outbox and DeliveryContract

`box` is `outbox_messages` (state, attempts, and `due` for `next_attempt_at <=
now`), `older` its `created_at` order, `lock` the row locks, `worker` the
transaction of `process_one`, `retry` what a manual retry has read; `mode`,
`consumed`, `ledger`, `asleep` are the emulator. `bookings` and `retries` count,
for the properties only. `Take` is the `SKIP LOCKED` select, `Handle`, `Wake`,
`Lose`, `Misanswer` the call, `Settle` the commit. A `TIMEOUT_ONCE` handler sleeps
12 s, longer than the worker's timeout, and books after the worker gave up on it.
`DeliveryContract` has a status per message and the set of booked messages.

### Nonconformance

`log` holds the committed facts (what a replay makes of each inspection,
completed rework), `view` the facts as last projected, `ncrs` the rows of
`nonconformities` with their occurrence, `analyses` their versions, `decisions`
and `exported` what controllers did. A replay reads facts and rows when it holds
the item's lock (`StartReplay`) and writes at its commit (`CommitReplay`, a fold of
`Inspect` over the inspections, as the loop in `rebuild.py:435-493`); a handler
reads in `Open` and writes in `Review`, `RequestInspection`, `Decide` or
`VerifyRework`. No handler asks for the item's lock.

Abstracted: one item; the reads of one handler are one step; an occurrence and
its nonconformance, which open and close together, are one row; inspections have
distinct times and full scope; the trust of an inspection is an input, limited
to what trust evaluation, conflict grouping and invalidation can turn it into;
integrity of the evidence is an input of `Open`; `RELEASED` stands for the three
exportable dispositions; containment (a module of its own), notes and reasons are
left out.

### Sessions and SessionContract

`users`, `sessions`, `tokens` are tables; `jobs` is the request that a thread
serves, with what it has read; `clients` what a browser tab keeps: its tokens, its
outstanding request, whether the answer to a refresh was lost, and the session it
was last told it has left; `strikes` counts failed logins, for the properties
only. `SendLogin`, `SendRefresh`, `SendLogout`, `GiveUp` are the client's calls;
`LoginRead` then `LoginFail` or `LoginCommit`; `RefreshLock`, `RefreshCommit`;
`LogoutLock`, `LogoutRead`, `LogoutCommit` are the database steps of the three
handlers, with the row lock of the token (`Locked`) where they ask for it.
`SetEnabled` is `patch_user`, and time passes in `LockLapses`, `AccessLapses`,
`SessionLapses`. `Abort` is a rollback with or without an answer.
`SessionContract` has a stage and a key per session: it opens once, its key is
exchanged for one nobody had before, and a closed session has no key. Left out:
passwords, roles, permissions, audit, and the freshness of the authentication.

### Containment

`proposals`, `approvals`, `exposures`, `ncrs` are rows, `jobs` what a request has
read; `votes` and `refusals` are the audit rows, of which it is kept who approved
and who rejected each proposal. `BlastRadius` and `Propose` insert;
`ApproveRead`/`ApproveCommit`, `ReviewRead`/`NcrRead`/`ReviewCommit` and
`DecideRead`/`DecideCommit` are the read-modify-writes, none of which locks. The
list of approvals is one JSON column, so a commit replaces it as a whole. A review
reads the proposal and then the nonconformance, and others may commit in between.
The two reads of an approval are one step: whatever the second one finds, an approval
that completes leaves the proposal approved, by one of those who approved it.
`DecideRead`/`DecideCommit` stand for all handlers that set a containment
(`decide_nonconformance`, `verify_rework`, `request_inspection`): any containment
may come out. `Containments` is a parameter; a proposal is for any but `NONE`.

### Routes

`AddRead`/`AddCommit` stand for create, revise and import (which differ in what
they look up and whether they activate). `activate_revision` reads in three steps, as it
sends three SELECTs: the route (`ActivateRead`), the revision (`RevisionRead`) and,
if the route names another one as active, that one (`FormerRead`); others may commit
before each, and before `ActivateCommit`. `PinRead`/`PinCommit` are what
`rebuild_item` does with the route of an item. `Fits` is the unique keys, `Allowed` the trigger of migration
0002, which judges the row as it is at the commit, and is not asked about a row
that the commit does not write. `loose` counts the revisions that became active while
no other ceased to be, for the property only: by an import, by a first activation, or
by an activation whose former revision was superseded between its reads. Steps are
left out.

### IntegrityLog

A MAC is a number that stands for its event, and a flipped ciphertext makes the
calculated one differ. `AppendRead`/`AppendCommit` extend a chain; `VerifyStart`,
`VerifyEvents`, `VerifyHead`, `VerifyCommit` are the reads and the commit of
`verify_integrity`; then `MakeCheckpoint`, `Tamper`, `Reset`. `EventProjection` has
the delivery in full and one MAC chain as an invariant; this module has what reads
the chain afterwards.

## 3. Runs

| Run | Instance | Shows |
|---|---|---|
| `ep_single` | one process, one admin thread, one shared-secret source, two events (one also with other content), a crash, suspension | `UnprojectedIsFlagged`, `ProjectedIsTruthful`, `StoredWhileAllowed`, `ViewMonotone`, `HighWaterHolds` |
| `ep_replicas` | two processes, one source that signs; repeated nonces, altered content | `UnprojectedIsFlagged`, `ChainIntact`, `AnswersFaithful` |
| `ep_recovery` | one process, an inspection and an invalidation without an item, two crashes | `InvalidationReflected`, and under fairness `StoredIsSettled` |
| `ob_safety` | two workers, two results, a retry, a crash, a mode change, a reset | `OneSender`, `BookedOnce`, `AttemptsBounded`, `Contract` |
| `ob_live` | one worker, two results, a crash, a mode change, a restart of the ERP | under fairness `EveryResultSettles` |
| `nc_core` | two replays, two handlers; a good inspection and the same defect twice, with invalidation and doubt | `TypeOK`, `OneOpenPerDefect`, `VersionIsLatest`, `AnalysisIsCurrent` |
| `nc_decide` | controller and reviewer beside a replay, three decisions of any kind | `VerifiedBeforeExport` |
| `nc_reopen` | as small as shows it | a counterexample, see section 5 |
| `se_core` | one user, one client, two API threads; three failed logins, two sessions, four tokens | `OneLiveToken`, `HolderIsLive`, `LoggedOutIsClosed`, `LockIsEarned`, `Contract`, and under fairness `EveryRequestEnds` |
| `ct_core` | three people, two threads, two proposals, one nonconformance; queries that match two, one and no items | `TypeOK`, `EnoughApprovers`, `ReviewerAnswered`, `ApprovalStands` |
| `rt_core` | a seeded and a new route, two threads, three revisions, an item that takes the active revision and one that asks for the second | `TypeOK`, `NumbersDense`, `OneInOneOut`, `DefaultPinIsFrozen`, `SupersededStays` |
| `iv_core` | two streams, two threads, two events | `TypeOK`, `NoFalseAlarm`, `CheckpointOnChain`, `AlarmIsRaised`, `VerdictIsStored` |

Bounds. `MaxSeq` stops new deliveries once that many sequence numbers are drawn:
two or three let two deliveries be in flight, one of them abort, and a rebuild
and a delivery overlap. Two actors of each kind are enough for every pairwise
race; the proofs of section 4 remove that bound for the properties they cover.
One crash at any step, two in `ep_recovery` so that recovery itself can be
interrupted. `MaxAttempts = 2` has a first, a last and, with a retry, an
additional attempt. `MaxNcrs = 2` lets a nonconformance be reopened,
`MaxVersions = 3` lets a window be replaced by an invalidation and another
window, three decisions are what it takes to verify, order again and release. A
step that would exceed a bound is disabled, and never altered.

In `se_core`, one client with two threads already has two requests of one token
under way, since it may give up on the first one and send the next; `LockAfter =
2` with three failures locks the account, lets the lock pass and counts on; four
tokens are two sessions with two exchanges between them. In `ct_core`,
`MassThreshold = 2` and the factors make one query need two approvals and the
others one; three people are a requester and two approvers, whose requests may
overlap; one containment that may be proposed, beside `NONE`, is enough for two people
who answer a proposal differently. Three revisions are the seeded one and two that
race for a number or an activation, which is what it takes for one activation to
overtake another between its reads (four pass as well, in some minutes). Two events in `iv_core` are enough for a race for one place, for a
chain of two, and for a second chain; two verifications may overlap.

The type invariants of `EventProjection`, `Outbox` and `Sessions` are proved
(section 4) and are therefore not checked again in a run.

Deadlock is checked in the `ep_`, `se_`, `ct_`, `rt_` and `iv_` runs. The `ob_`
and `nc_` runs switch it off: with every result delivered, or every inspection
projected, and the bounds used up, those instances rightly stop.

Symmetry is used where no liveness property is checked: workers and messages in
`ob_safety`, replays in `nc_core`, people and threads in `ct_core`, threads in
`rt_core`, threads and streams in `iv_core`.

Fairness. `EventProjection`: weak fairness of each process's handler and of
each rebuild, because a request once begun runs to its end or the process dies,
and `restart: unless-stopped` starts a process that died. No fairness for
senders, admins or crashes. `Outbox`: weak fairness of the worker's loop, of an
outcome for each request (httpx has a timeout) and of the passing of delays.
No fairness for mode changes or for the operator. `Sessions`: strong fairness of
each API thread, because a thread that waits for a row lock is granted it in the
order of the queue that PostgreSQL keeps, although others take and free the lock
in between. Nothing is assumed of the client, the administrator or the clock.

Each checked property has a variant of the code that breaks it (the definitions
commented "A slip", listed under `mutants`): a missing `FOR UPDATE`, a status set
but not flushed, an UPDATE of all columns, a missing unique key, an off-by-one
in the attempt limit, a verification that is not reset.

## 4. Proofs

For every set of processes, threads, people, sources, items, events and requests
and every bound, under the assumptions the modules name: `TopologyAssumption` (a
thread belongs to a process), `RolesAssumption` (controllers are handlers, and no
replay is one), `DomainAssumption`, `ObservationsAssumption` and
`RequestsAssumption` (typing of the constants), `NoneAssumption` and `NoneIsNoRow`
(`None` is not a value; in TLC it is a model value, which differs from everything),
and the assumptions on bounds (naturals; at least one attempt, one failure and one
analysis version are allowed; threads and seeded routes are finite in number).

`EventProjectionProofs`
- `TypeCorrect`: `TypeOK`, which says that no committed row is ever `rebuilding`.
- `ViewNeverShrinks`: `ViewMonotone`, rebuilds never lose each other's events.
- `NothingStoredAfterSuspension`: `StoredWhileAllowed`.
- `HighWaterNeverFalls`: `HighWaterHolds`.

They follow from the invariant `IInv == TypeOK /\ SessionOK /\ HistoryOK /\
ClaimOK /\ AdmittedOK`. `TypeOK` alone is not inductive: what a commit writes
comes from the session, so `SessionOK` types the session by the phase of its
handler; that a rebuild keeps the events already shown needs `ClaimOK` (who reads
the log holds the row, and has read at least what is shown, which in turn are
stored events, `HistoryOK`); and the two properties of shared-secret sources need
`AdmittedOK` (the delivery holds the source row, which is unchanged and open).
There is a lemma per action; `StepOfOne` reduces most of them to the one actor
that moves, since a step touches one session and frees only its own locks.

`OutboxProofs`
- `TypeCorrect`, `SenderIsUnique`, `BookedOnceHolds`, `AttemptsBoundedHolds`: the
  invariants of `ob_safety`.
- `OutboxImplementsContract`: `Spec => Contract`. Initial states map to initial
  states; each step maps to a step of `DeliveryContract` or a stutter. It needs
  `HoldersOK` (a busy worker holds an unsettled row) and `EffectsOK` (an
  acknowledged or delivered result was booked, a booked one was created).

`SessionsProofs`
- `TypeCorrect`: `TypeOK`.
- `OneLive`: `OneLiveToken`, a refresh token is exchanged at most once.
- `RevokedDead`: `RevokedIsDead`, a session that was logged out of has no live token.
- `LockEarned`: `LockIsEarned`.
- `KeepsContract`: `Spec => Contract`, the endpoints implement `SessionContract`.

Four invariants build on one another. `Shape` is `TypeOK` with `Linked` (tokens,
requests and clients name rows that exist) and `Counted` (rows and the requests
that may add some stay below the bounds, which is what keeps `TypeOK`). `Safe` is
`OneLiveToken`, `RevokedIsDead` and `LocksOK`: a token that is locked is live and
locked by one thread, so that the exchange of one thread cannot meet that of
another. `Earned` is `LockIsEarned` with `ReadsOK`: the user row that a login has
read does not run ahead of the failures, since what it commits is computed from
it. `SeenOK` says that what a logout has seen are tokens of its own session: with
it, what the logout revokes is the key of that session and of no other.

`HolderLive` and `LoggedOutClosed` rest on a fifth, `Owned`: a client waits for a
thread of its own, which serves it with the token that the client has (`CallsOK`);
nobody else has that token or sends it, and until an answer is lost it is live
(`HoldersOK`); the session that a client was told to have left is closed
(`LeftOK`).

`EventLogProofs`, on top of `EventProjectionProofs`
- `StreamsAreChains`: `ChainIntact`, and `AnswersStandUp`: `AnswersFaithful`, in any
  number of processes.
- `RowTellsTheTruth`: `ProjectedIsTruthful`.
- `NothingIsStranded`: `UnprojectedIsFlagged`, assuming `OneLine`.
- `InvalidationsAreReflected`: `InvalidationReflected`, assuming `Alone`.

`Log`: the tail that a delivery has read is the tail of its stream or older
(`TailOK`), and a row that is inserted has keys that no stored row and no other
inserted row has (`KeyOK`, `KeysApart`), so that it still is the tail when the row
is committed. `Rows`: a loaded projection row is not ahead of the row, and a rebuild
that found none is the only one to insert it (`SnapshotsOK`, `FirstRowOK`).
`OneLine` (one process, or one source for the events of an item) makes the numbers
of an item's events grow in the order of their commits; then `Ordered` says that a
delivery of an item carries a number above all that is stored, projected and
loaded, hence that the flag it sets is not lost. `Alone` (one actor, so one process
and no admin rebuild) gives `Reflected`: what the actor has read is what the tables
say. Neither hypothesis can be dropped: section 5 has what happens without them.

`NonconformanceProofs`
- `TypeCorrect`; `OneOpen`: `OneOpenPerDefect`; `NewestNamed`: `VersionIsLatest`;
  `NewestCurrent`: `AnalysisIsCurrent`.
- `VerifiedFirst`: `VerifiedBeforeExport`, assuming `OneDecides`.

`IInv == TypeOK /\ TablesOK /\ SessionsOK /\ LockOK /\ LoadedOK`. `TablesOK` says the
three properties of any rows and facts (`Sound`, `Current`), so that the same
predicate speaks of the tables and of what a replay works on. One inspection keeps
it (`InspectIsSound`, `InspectIsCurrent`), hence all of them do (`ReplayIsGood`):
an induction over the inspections, done with the set of the inspections up to
which the claim holds. `LoadedOK` is what makes the commit right: since
only the holder of the lock is at work (`LockOK`), and handlers never write a
version or open a row, what the replay has read differs from the tables in nothing
but decisions and rows closed since; columns that a replay leaves alone are not
written, so those survive its commit (`CommitIs`). `VInv` adds, for one controller,
that a rework marked `PASSED` names a verification later than every order
(`VerifiedOK`) and that the controller's session has the columns that only
controllers write as they are (`AgreeOK`): two controllers break exactly that.

`ContainmentProofs`
- `TypeCorrect`; `ApprovedByEnough`: `EnoughApprovers`; `ReviewerNamed`:
  `ReviewerAnswered`; `CompletedStands`: `ApprovalStands`.

Approvals overwrite one another's lists, so the list of a request proves little by
itself. The invariant ties it to the votes that were cast: every list, the one in
the table (`ListsOK`) and the one an approver has read (`ApproveOK`), is part of
them, and the requester is in none; an approved request counted enough of them
(`QueriesOK`). `PairsOK` keeps the two kinds of proposal apart. A commit writes the
columns that differ from the row as read, so that a reviewer who read a settled row
might change one of its columns and not the other; who answers has read a pending
one, which names nobody (`PendingOK`), and writes both.

`RoutesProofs`
- `TypeCorrect`; `NumberedWithoutGap`: `NumbersDense`; `ActiveOnesCounted`:
  `OneInOneOut`; `DefaultPinFrozen`: `DefaultPinIsFrozen`; `HistoryStands`:
  `SupersededStays`.

The three safety invariants are conjuncts of `IInv`. What an activation has read may
be out of date, each reading by itself, but rows move one way only, from draft to
active to superseded: `ActivateOK` says how far a reading may have moved on, and how
the later ones agree with the earlier. A step that keeps the count replaces one active
revision by one other (`OneForOne`), every other one raises `loose` (`OneIn`); and if
`loose` is one at most, what the route was read to name is active, or has been
superseded by what is active now. `AddOK` bounds the
number that a new revision takes, and the unique key does the rest. `RowsOK`
(frozen means no longer a draft) is what carries a default pin across an
activation in between. `SupersededStays` rests on the trigger.

`IntegrityLogProofs`
- `TypeCorrect`; `NothingFalse`: `NoFalseAlarm`; `CheckpointHolds`:
  `CheckpointOnChain`; `AlarmSounds`: `AlarmIsRaised`; `VerdictStands`:
  `VerdictIsStored`.

`ChainOK` and `HeadsOK` describe the chain, in which nothing but tampering flips an
event; `VerifyOK` splits what a
verification has to find into what it has found and what waits in streams it has
yet to read; `DeliveryOK` says that the tail a delivery has read is still a place
of the chain, so that the unique key decides whether it extends it.

The theorems are proved for the operators as TLC checks them. The library's
induction theorems take an operator as a parameter, which the provers here cannot
instantiate; where induction is needed (`WalkOn`, `WalkIs`, `MaximumExists`), it is
done with a set of numbers and `WFMin`, the least element of its complement.

Only model-checked: liveness (`StoredIsSettled`, `EveryResultSettles`,
`EveryRequestEnds`), which needs fairness and ENABLED, out of reach here. Every
other property of the runs that pass is stated by a theorem.

## 5. Where code and text disagree

Shown by a run:
- `nc_reopen`: after a release, the next replay opens a second occurrence for the
  observation that opened the first (`docs/quality-analysis.md:26`).

Met while modelling, without a run of their own:
- The first event of an item without a projection row hits `max(None, ...)` at
  `service.py:297`; the column default applies only at the flush. The tests expect
  200 (`test_postgres_integration.py:57`). `LoadRow` models the error.
- An invalidation looks for affected items among committed observations, an
  admin's rebuild reads committed invalidations; side by side neither sees the
  other (`docs/architecture.md:59`). `InvalidationReflected` is therefore checked
  without an admin's rebuild.
- A failed verification of rework that nobody ordered does not keep a `RELEASED`
  decision from being exported (`README.md:93`; `release.py:22` looks at
  `resolution_type` only).
- Two API processes and two sources (`docs/architecture.md:37`, `:55`): a delivery
  may commit `latest_raw_ingest_seq` computed from a row older than a rebuild's
  commit, and its event is neither projected nor flagged. `UnprojectedIsFlagged`
  is therefore claimed for one process, or for one source.
- `retry_outbox` checks for `DELIVERED` on an unlocked row
  (`integrations.py:134-138`); a worker's delivery in between is overwritten with
  `PENDING`. `DeliveryContract` has to allow reopening a delivered message.
- A connection closed without an answer (`httpx.RemoteProtocolError`) is neither
  counted nor delayed (`worker/main.py:122-125`, `docs/integrations.md:9`).
- Two controllers at once break `VerifiedBeforeExport`: no handler locks the
  nonconformance (`nonconformances.py:255`). It is checked for one controller.
- "For the first trusted defect D of a defect occurrence"
  (`docs/quality-analysis.md:11`): `rebuild.py:435-493` goes through all inspections
  that show the defect and appends a version for each whose window differs from the
  newest one. So the newest window ends at the last trusted one; if the last one was
  invalidated, the newest version is `EVIDENCE_INVALIDATED` although an earlier one is
  trusted; and with two trusted ones every replay appends two versions more.
  `AnalysisIsCurrent` holds of the code and would hold of what the document says: it
  leaves open which inspection of the defect the newest version is about, and claims
  that its window fits that one and the trust of the inspections as it is.
- Decisions on a closed nonconformance, and a second export for it, are not
  refused; a release sets the item's status while another nonconformance of it
  is open (`release.py:42`).
- "Activation ... supersedes the former active revision" (`docs/routes.md:11`):
  `import_route` with `activate` does not (`routes.py:198`), nor does a first
  activation that overlaps another, nor one that is overtaken between its reads: if
  another activation commits after the route is read (`routes.py:167`) and before the
  revision it names (`:172`), that one is read as superseded already, nothing is
  written to it and the trigger is not asked, and the revision activated in between
  stays active beside the new one. Where two are active, overlapping activations may
  then leave a route that names a superseded one. `OneInOneOut` counts these in
  `loose`, and claims one active revision, the one the route names, only where none of
  them happened.
- Failed logins that overlap are counted once, so five failures need not lock
  (`auth.py:90`, `docs/security.md:5`). `LockIsEarned` says only that no lock is
  unearned.
- A refresh moves `last_authenticated_at` as a login does, so that a session stays
  fresh for critical actions without a password (`auth.py:38-65`,
  `docs/security.md:29`). Freshness is not modelled.
- A client whose refresh was answered too late goes on with an exchanged token:
  it has to log in again, and its logout answers `logged_out` and revokes nothing.
  `HolderIsLive` and `LoggedOutIsClosed` exclude it.
- Two approvals that overlap may count as one (`risk.py:129`). Two reviews of one
  proposal may end `rejected` with its containment in force, or `approved` with a
  containment that never comes into force, since the commit does not write what equals
  the containment it has read; and a decision that has read an older containment may
  free what a review has held since (`nonconformances.py:468-477`). The properties
  claim none of it; `ReviewerAnswered` says what is left of a review under overlap.
- A proposal of a blast-radius query has no nonconformance, so the review endpoint
  answers 404 for it, and nothing is done to any item when it is approved.
- `invalidate_device` rebuilds the items it finds without marking them stale first
  (`risk.py:151-166`, `docs/recovery.md:30`).
- Of two verifications that overlap, the later commit wins: it may mark OK a
  stream that the other has found broken (`integrity.py:67-69`,
  `docs/security.md:13`). The alert stays. `VerdictIsStored` is about
  verifications that do not overlap.
- The reset of the demonstration keeps the checkpoints, which then name places on
  a chain that is gone (`demo.py:189`).

## 6. Not modelled, and why

Cryptography (keys, ciphertexts, HMAC and signature values): not a matter of
state. Payload validation, route steps and the JSON schemas: pure functions,
tested. Read models and the pages of the Streamlit client: they change nothing.
Scenarios, and the seed beyond its route: they drive the handlers modelled here or
insert rows when nothing else runs. Migrations and settings: constant at run time.
Passwords, roles and permissions: guards that depend on no other state. Product
structures: one upsert under a unique key. Heartbeats, health rows, audit rows:
written, never read by a decision. `invalidate_device`: not modelled yet; the
delivery of an invalidation event is.

## 7. Plan

Done: `EventProjection`, `Outbox` with `DeliveryContract`, `Sessions` with
`SessionContract`; `Nonconformance`, `Containment`, `Routes`, `IntegrityLog`; their
runs; the proofs of every safety and action property that the runs check.

1. Extend the models. `invalidate_device`, which commits in the middle of its loop,
   joined with the rebuilds of `EventProjection`. Trust evaluation and conflict
   grouping as operators checked against a reference definition, in place of the
   input `JudgedAs`. `Release`: the composition of `Nonconformance` and `Outbox`,
   a decision's export to its booking. The freshness of an authentication in
   `Sessions`.
2. Prove more, of what no run checks yet: that a replay's commit loses no decision
   (a step property of `Nonconformance`, half of which is the lemma `CommitIs`);
   that `UnprojectedIsFlagged` holds of any item whose own events are in line, in
   place of `OneLine` for all of them; and what `EveryRequestEnds` can be reduced to
   without ENABLED: that the locks of `Sessions` are taken in one order, so that no
   cycle of waiting threads exists.
