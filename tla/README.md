# Experiential gateway: TLA+ models, model checking and proofs

Experiential is an LLM gateway: callers address an alias, the gateway accepts
the request, routes it over the deployments ("rungs") the alias revision
authorizes, dispatches one or more physical provider attempts, and accounts
for each attempt against monthly hard limits. Python holds the control plane
(`exp/runtime/gateway/`), Rust the data plane (`exp/runtime/gateway/native/`),
and SQLite the truth. This directory models the part on which money and
exactly-once behaviour depend: the durable ledger, the thread that writes it,
the registry that owns every reservation until it is closed, the walk that
chooses which deployment is dialed, the two engines that run paid jobs outside a
request, batches and videos, and the store under which a simulation's sessions
buy model calls, and the queue that admits requests to a worker.

All paths below are relative to the repository; `gateway/` abbreviates
`exp/runtime/gateway/`.

## 1. Inventory

| Component | State it keeps | Operations | What makes it correct |
|---|---|---|---|
| attempt ledger (`gateway/ledger*.py`) | request and attempt rows | accept, start, finish attempt, finish request, late reconciliation, restart recovery | one effective execution per key, final outcomes, certificates that stay true, every attempt closes |
| monthly budgets (`gateway/budgets.py`) | limits, counters, one charge row per (limit, attempt) | set limit and backfill, reserve, settle, replace, operator assignment | counters equal the charge rows, hard caps hold at dispatch, the same attempts are charged whenever the limit was created |
| tiers and valuation (`gateway/ledger_service_tiers.py`, `ledger_valuation.py`, `cost.py`) | frozen rate cards and receipts on the attempt row | price, settle, hold | evidence is never contradicted, a waiver is permanent |
| group-commit writer (`gateway/group_commit.py`) | queue, batch, open transaction, futures | submit, drain, apply under savepoints, commit, resolve, close | write-through durability, commit order, nobody stranded |
| accounting registry (`gateway/native_accounting*.py`, `native_request_settlement.py`, `native_settlement_quote.py`) | in-flight entries, execution gates, retained writes, organization fence | start, settle, price, abandon, sweep, drain | every reservation has an owner and is closed, evidence is kept, the fence lifts |
| attempt guard (`gateway/native/src/settlement.rs`, `waterfall.rs`) | active attempt, decided settlement | rebind, decide, deliver, drop | no successor over an unsettled attempt, a cut delivery is repeated verbatim |
| deployment health, lanes (`gateway/health.py`, `lane_ejection.py`) | circuits, probes, throttle windows | claim, success, failure | a probe keeps others out only while its holder is alive, no permanent lockout |
| rung admission and failover (`gateway/native_execution.py`, `failover_pass.py`, `native_fallback_rules.py`, `native_rung_policy.py`, `lane_saturation.py`) | ordered candidates, sheds, attempt counts | claim, redial, fail over, shed, force | a rung that was left is not dialed again, every exit gives its claim back |
| batch jobs (`gateway/batch/`) | job rows, one-time dispatch claim, a reservation per line | submit, dispatch, poll, cancel, expire, settle | a provider batch is submitted once, every line is closed once, every job is settled |
| video jobs (`gateway/video/`) | job rows beside ledger rows, retained settlements | create over rungs, poll, settle, waive, recover | two separate writes converge, a request is rendered again only behind an error answer, evidence is never dropped |
| alias authority, lifecycle | current and retired generations | reload, expire | an admitted request keeps its revision |
| native data plane (`gateway/native/src/`: `permit_queue.rs`, `dispatch_capacity.rs`, relay, replay) | waiters, worker and binding permits | acquire, age, give up, release, drain | no starvation, no overtaking of a waiter that ranks first |
| routed-interaction journal (`exp/runtime/router/journal.py`) | append-only files | append, recover | torn tails lose nothing acknowledged |
| session store (`exp/runtime/sessions/`, driven by `exp/simulation/world_model/durable.py`) | session row, step rows, audit rows, dispatch slots | open, claim or replay, start, claim a slot, record, commit, reject, release, recover, drain | nothing is sent without a durable start and a slot, an operation is committed once or closed for good, no update is lost |
| guardrails, capture, provider clients, environments, optimizer, simulation, project store, CLI | content, files, processes | | data transformation and I/O |

Interactions. The Rust data plane calls the bridge, the bridge the accounting
registry, and the registry submits ledger operations to the group-commit
writer, which applies them to SQLite; admission also reads limits there.
Restart recovery (`gateway/lifecycle.py`) runs ledger reconciliation before
serving. Batch and video engines own durable jobs and settle through the same
ledger; each owns a poller thread, and owner calls run on threads of their own.
Health is in memory, shared by all requests of a worker, read by the
reservation walk of `start_attempt` and fed by attempt outcomes.

What is hard here: settlements replayed, late or after recovery; evidence
(meter, tier receipt, waiver, operator assignment) in any order; limits
created after the attempts they charge and across month boundaries; process
death between any two writes; failing BEGIN, savepoint and COMMIT under a
shared transaction; submissions racing the writer's exit; a client disconnect,
a deadline and a provider's answer racing for one request; probes claimed by
requests that then never dial; a job read before a provider call and saved
after it; a submission whose answer is lost; two engines settling one job in
two durable writes each; two workers on one session whose lock files differ, one
recovering the other's step while it is on the wire. `PROJECT.json` lists
these hazards at their lines, with the property that covers each.

## 2. Modules

| Module | Models | Role |
|---|---|---|
| `Ledger` | ledger and budgets | state machine and its properties |
| `MCLedger` | | instances of `Ledger` for TLC |
| `LedgerProofs` | | TLAPS: every safety property of `Ledger` |
| `WriteThrough` | what `group_commit.py` promises | abstract specification |
| `GroupCommit` | `group_commit.py` | state machine; implements `WriteThrough` |
| `GroupCommitProofs` | | TLAPS: the implementation and the drain on close |
| `Accounting` | registry, fence, sweep and attempt guard | state machine and its properties |
| `MCAccounting` | | instance of `Accounting` for TLC |
| `AccountingProofs` | | TLAPS: every safety property of `Accounting` |
| `PaidWork` | what a job engine promises about money and sending | abstract specification |
| `BatchJobs` | `batch/` | state machine; implements `PaidWork` per line |
| `MCBatchJobs` | | input files for `BatchJobs` |
| `BatchJobsProofs` | | TLAPS: one submission, closed lines, the implementation of `PaidWork` |
| `VideoJobs` | `video/`, with the ledger rows it writes | state machine; implements `PaidWork` per rung |
| `VideoJobsProofs` | | TLAPS: publication, one render, kept evidence, the implementation of `PaidWork` |
| `RouteHealth` | `health.py`, `lane_ejection.py` and the reservation walk | state machine and its properties |
| `MCRouteHealth` | | instance of `RouteHealth` for TLC |
| `RouteHealthProofs` | | TLAPS: probes have owners, ladders go forward |
| `PermitQueue` | `permit_queue.rs`, `dispatch_capacity.rs` | state machine and its properties |
| `MCPermitQueue` | | instance of `PermitQueue` for TLC |
| `PermitQueueProofs` | | TLAPS: nobody overtakes |
| `OperationLog` | what the session store promises about operations | abstract specification |
| `Sessions` | `sessions/store.py`, `sessions/dispatch_ledger.py`, `durable.py`, `admitted_transport.py` | state machine; implements `OperationLog` |
| `MCSessions` | | instance of `Sessions` for TLC |
| `SessionsProofs` | | TLAPS: purchases, the implementation of `OperationLog` |

### Ledger

The variables are the four tables: `request`, `attempt`, `budget` and `charge`,
with `NULL` for an absent row; a request's index is its rowid, which is how
`accept_request` finds the newest row of a key. `now` is the ledger clock.
`assigned` and `waived` are history variables: they record which charges an
operator settled by hand and which attempts were waived, and no action reads
them.

Every operation of the code is one `BEGIN IMMEDIATE` transaction, so each is one
action. A condition that raises rolls the transaction back and is a guard.

| Action | Code |
|---|---|
| `AcceptRequest` | `apply_accept_request`: newest prior row of the key decides (`PriorOf`, `Reenterable`) |
| `FinishRequest` | `apply_finish_request` with the no-effects certificate fence |
| `StartAttempt` | `apply_start_attempt` and `require_attempt_budget`: the attempt row and every reservation together |
| `FinishAttempt` | `apply_finish_attempt`: `SettleDispatched` for the first terminal write, and for a terminal row `WaiveTerminal`, `LateMeter`, `RetainTierReceipt` or `ReconcileTierReceipt` (`reconcile_terminal_attempt`); everything else is a no-op replay |
| `ReconcileDecisionLiability` | operator settlement of a decision attempt |
| `ReconcileUnknownCosts` | operator assignment of a limit's unknown costs |
| `CreateLimit`, `ReplaceLimit` | `set_limit` with `_backfill_budget` |
| `ReconcileCrashedRequests` | restart recovery |
| `Tick` | wall clock; `Period` gives the budget month |

Abstractions. A meter is one usage report and a rate card one element of
`Cards`; `Price[card][meter]` is what the pure pricing helpers return, `NULL`
where a card cannot price a meter. An authority is the record of fields later
transactions read. The chain-authority preflight and the scope checks of
operator calls only refuse calls.

### GroupCommit and WriteThrough

Each operation is a model value whose effect is to appear in the log `durable`.
Every point of the writer loop at which another thread can run is a separate
action: connect, blocking `get`, `get_nowait`, each preflight, `BEGIN`, each
savepoint, `COMMIT`, each resolved future, releasing handles, thread exit with
`_fail_pending`. Any of them may fail the way the code handles. `Crash` drops
all volatile state and turns every waiting caller's outcome into `lost`;
`Restart` starts a writer on the same disk.

`WriteThrough` knows only `outcome`, `submitted` and `durable`: a caller learns
success of a write that is on disk, failure of one that is not, and the log only
grows, in the order of submission. `GroupCommit` implements it with the identity
mapping on these variables.

### Accounting

One worker's registry with the threads that share it. For each request there is
a handler, which owns an `AttemptGuard`; its bridge calls run on the thread
`main`. When the handler is dropped (client disconnect, panic), the call it was
waiting for runs on, and the guard's `Drop` starts the thread `back`. The
recovery sweep is one more thread. A step is what runs between two points where
another thread can: a section under the registry lock, a durable write, taking
or releasing a request's `execution_lock`.

| Variable | Code |
|---|---|
| `entry` | `_inflight`: total and active attempt, `pending_settlement`, `pending_abandon`, the two write-failed flags, `refused_write` |
| `fence` | request ids held by `OrganizationFence` |
| `finish` | retained writes of `RequestSettlements`, with the last fault |
| `gate` | holder of `execution_lock` |
| `guard` | the `AttemptGuard`: phase of its handler, active attempt, decided settlement |
| `thread` | the call each thread is in: program counter, payload, retries left |
| `ledger` | the durable rows, reduced to dispatched, recovered or the evidence they hold |
| `clock`, `faults` | deadline and grace of each request; writes that have failed |

| Actions | Code |
|---|---|
| `Admit` | `require_clear`, acceptance and `register`; the reply may be lost |
| `StartEnter` ... `StartAfter` | `start_attempt` and `_start_attempt`: gate, checks, the refusals that raise and leave the request open, reservation, binding, exhaustion, the `finally` block |
| `SettleRetain`, `SettleGate`, `SettleWrite`, `SettleDone` | `_settle` and `_commit_settlement` |
| `QuoteCheck`, `QuoteRetain` | `quote_settlement` |
| `AbandonIntend`, `AbandonGate`, `AbandonWrite`, `AbandonDone` | `abandon` |
| `SweepRetry`, `SweepReplay`, `SweepClear`, `SweepExpired` | `recover_expired`, `settle_swept`, `RequestSettlements.retry` |
| `CallStart`, `Started`, `Decide`, `Delivered` | the waterfall loop, `decide`, `deliver` and `deliver_decided` |
| `DecidePriced`, `Quoted`, `SettlePriced` | `price_or_settle`, `settle_priced` |
| `GuardDrop`, `Redeliver` | `Drop` of the guard and the task it spawns |

Abstractions. A settlement carries one of three kinds of evidence, which the
ledger treats differently once an attempt was recovered: an exact meter upgrades
the row, a failure without usage is acknowledged, and a completion without a
complete meter is refused (`Conflicts`, from `reconcile_terminal_attempt`). A
durable write lands whole or raises; a raise is a storage error or a deliberate
refusal. The walk over the rungs of a route is reduced to its outcome: a
reservation, or exhaustion. Taking a lock and the check made right after it are
one step, and so are the fence check, the acceptance and the registration of an
admission: what `admit` does between them (input guardrails, routing), with the
requests it closes there without registering them, is left out.

### PaidWork

The promise both job engines make about a unit of paid work: it is reserved
before anything is sent, sent at most once and only while its reservation is
held, and closed at most once, by settlement (only of work that was sent) or by
release. A unit in `Waivable` may have its settled charge waived later, for
good. `BatchJobs` maps each accepted line to a unit, with no waiver; `VideoJobs`
maps each rung's attempt, where a free failure or a waiver is a release and a
recovered attempt without a meter still holds its reservation, as in the ledger.

### BatchJobs

One job; jobs meet only in the order of a poller's pass. A step is one call of
the host's job store, of the host's ledger or of the provider, since the
engine awaits or may be preempted there. `poller` and `caller[c]` hold the
copies of the job those threads read earlier, which is what makes stale saves
possible; `store` is the row.

| Actions | Code |
|---|---|
| `Submit`, `ReserveLine`, `ReservationRejected`, `CreateJob` | `submit`, `_validate_lines`, `_reserve` |
| `ListOpen` | `poll_once` over `open_jobs` |
| `ResumeSettlement`, `ExpireJob`, `CancelUndispatched`, `BeginDispatch`, `DispatchRefused`, `Reload`, `FailDispatch`, `SubmitAccepted`, `SubmitAmbiguous`, `SubmitRejected`, `CheckIntent`, `SaveIntent`, `RequestCancel`, `SaveOpen`, `Recancel`, `SkipCancel`, `Poll`, `PollFails`, `ApplySnapshot`, `FinalizePolled` | `_advance` and `_finalize`, branch by branch |
| `SettleUnlessSettled`, `FetchResults`, `ResultsRefused`, `ResultsLost`, `SettleLine`, `MarkSettled` | `_settle` |
| `LoadForCancel`, `MarkCancelling`, `CancelAtProvider`, `ClaimCancel`, `ReleaseCancelled`, `ReleasedAll`, `SaveCancel` | `cancel` |
| `ServeLine`, `CompleteRemote`, `EndRemote`, `CutRemote` | the provider, as its client reads it |
| `Elapse`, `CrashSubmit`, `CrashPoller`, `CrashCaller` | time and process death |

Abstractions. A raw line keeps what decides acceptance: id, validity by itself,
provider, connection, model. Counts keep only whether they are above zero.
`finalizing`, which no branch tells from `in_progress`, is folded into it. Line
results are a served or failed row; both settle. A rejected submission is one the
client reads off an error status, or off an answer without a batch id, so the
provider may have taken the batch; the job then fails and nothing is sent again.

### VideoJobs

One request, its rung walk on the engine `Home`, and engines of several
processes on the same database. `pend` is `_pending`, `gate` the job gate and
the point its holder has reached, `row` the job store, `att` and `request` the
ledger, reduced to what `finish_attempt` answers to a video event (`Answer`,
`Settled`, from `reconcile_terminal_attempt`). `age` counts the instants the
engine compares with: the submit grace, `settle_by`, the ledger's deadline.

| Actions | Code |
|---|---|
| `StartAttempt`, `StartRefused`, `RecordJob`, `RecordFails`, `SubmitRejected`, `SubmitAmbiguous`, `SubmitAccepted`, `SaveHandle`, `SaveHandleFails` | `create`, `_dispatch`, `_settle_created` |
| `Refresh`, `Retry` | `poll_open` and owner reads (`_refresh`), `_retry_settlements` |
| `CheckWinner`, `FinishAttempt`, `FinishRefused`, `FinishFails`, `Publish`, `PublishFails`, `AfterFailure` | `_deliver_settlement`, `_settled_job_winner`, `_recover_superseded` |
| `Close`, `Exit` | `close`, the poller's exit once `_recovery_drained` |
| `Sweep` | `reconcile_crashed_requests` when some process starts |
| `RemoteEnds`, `Forget`, `Tick`, `Die` | provider, time, process death |

A failed write may have landed (`FinishFails`, `PublishFails`): the engine then
does not know. Failed reads only retry and are left out, as is everything a
video carries besides its outcome.

A submission answered with any error status except 400, 413 and 422 fails over
(`rejection_failure`), a gateway's 502 or 504 included, behind which the provider
may have created the job. `MayCreate` keeps that: the job is then `denied`, a
render that no engine knows of, whose rung was settled at zero. `OneRender`
therefore says that a later rung renders only if every earlier one has nothing or
a denied job: a submission without an answer, or one that was accepted, is never
sent on.

### RouteHealth

The registry's records per health key (`health`) and per lane (`lane`), and for
each request the reservation walk (`req`): the place of each depth in the order
it fixed, the pass and the depths asked in it, the rung claimed and the probe
that claim took, the dispatch counts, the rungs shed and forced. Every method of the registry is one acquisition of its lock and
one step, so two walks interleave between any two claims. Instants are kept as
what remains of a window or as the age of a failure.

| Actions | Code |
|---|---|
| `Begin`, `Claim` | the first dial of `_start_attempt`, `claim_route_from`: claim, last-resort and forced pass over `order` |
| `Redial`, `RedialThrottled`, `Failover`, `EndLadder` | `next_route_candidate` |
| `Shed`, `Deny`, `Quit`, `Dispatch` | the loop of `_start_attempt` from the slot to the bound attempt, with every exit that releases the claim |
| `Overflow`, `ForcedTarget`, `GiveUp` | an exhausted walk: `overflow_target`, `forced_target`, refusal |
| `Succeeds`, `Fails`, `Retires`, `Abandon` | `record_attempt_health` of a settlement or of `abandon`, which may carry the failure of a settlement it took over; a failure may exhaust the plan of its deployment as well |
| `Tick` | the monotonic clock |

Abstractions. An outcome stands for the failure classes treated alike. Whether a
rung sheds, a budget refuses or a deadline ends a walk is a choice. A shed of a
forced overflow does not return to the same rung. The consecutive-failure count
stops at its threshold, the only value compared. The opened, failed and exhausted
reports of one settlement are applied in one step, as are a refused redial and
the order read after it. `failover_only_on` rules, a rung the caller selects,
sticky affinity, tool-search turns and reasoning repairs are left out.

### PermitQueue

`pc` is where each request is, `ahead` the registered waiters of a higher rank
than each, `before` the pending acquires in front of each in the worker's
semaphore (tokio serves them first come, first served, and its `try_acquire`
takes nothing they have a claim on).
`bound` and `classes` are the process's configuration, chosen in `Init`: with
execution bindings every request is scoped, without them none is.

A rank is class plus age in aging periods. All waiters age alike, so two of them
never change places and `ahead` changes only when one arrives or leaves; a rank
is only compared with the class of an arrival, for which its whole part
(`level`) up to the highest class is enough. Periods of different waiters end independently.

| Actions | Code |
|---|---|
| `ScopedArrives`, `TakeBoth` | `acquire_scoped`: register; the head takes both permits or neither |
| `PlainArrives`, `ClassArrives`, `SeesHead`, `Contend`, `Grant`, `LookAgain` | `acquire`: plain semaphore; free permit or registration; the head check, and the biased `select!` joined after it |
| `Expire`, `Refuse` | `timeout_at` or a dropped handler; the draining answer |
| `Release`, `ReleaseScope` | `Drop` of `ScopedPermit` or of the semaphore's permit |
| `Close` | the drain in `server.rs` |
| `Age` | the clock of `head` |

Notifications only shorten a wait that `REEVALUATE` ends anyway, so any waiter
may look again at any time. A head that was outranked between its check and
the semaphore, or while in line, is stale and may still be served, which the model
keeps. Poisoned mutexes are left out.

### OperationLog and Sessions

`OperationLog` knows a log of committed operations with their outcomes, the
version a caller reads, the operations closed without a commit and what callers
were told. `Sessions` maps the transitions of the session row to the log, the
step rows that are rejected, released or ambiguous to the closed operations, and
the answers of replays and of finished operations to what callers were told.

`session` is the sessions row (the published state kept as the steps it
contains), `steps` the step rows, `started` the audit rows of event
`provider_started`, `slots` the rows of the dispatch ledger, `worker` the local
state of the threads inside `step()`, with the version and the state each read
at its start. `sent` and `answered` are history. A step is one transaction of the
store, one claim of a slot or one exchange with the provider.

| Actions | Code |
|---|---|
| `Open` | `open_session`: insert the row or find it with the same binding |
| `ReadSession` | `step`: try the lock once, read version and state |
| `Replay`, `Claim`, `Refused` | `begin_step` |
| `Prepare`, `PreparationFails` | preparation and the rejection of a step that never left |
| `MarkProviderStarted`, `ReleaseStep` | `mark_provider_started`, with its budget, and `release_step` |
| `ClaimSlot`, `Send` | `AdmittedJsonTransport`: slot, deadline, request |
| `CompletionReturns`, `CompletionFails` | the model client's return, or any exception: `mark_ambiguous` |
| `RecordProposal`, `Reask`, `ProposalRefused` | `record_proposal`, the re-ask loop |
| `WriteFails` | any write of an operation that raises (store, slot, artifact): the exception leaves `step()` and the row stays as it is |
| `CompleteStep`, `DeadlineStopped`, `ClaimLost`, `Answer` | `complete_step`, its refusals, the answer |
| `Recover`, `SetDraining` | `recover`, `set_draining`, neither of which takes the lock |
| `DeadlinePasses`, `Crash` | time and process death |

Abstractions. The opener names the lock file, so two workers may hold different
ones: the instance gives each its own, and the store alone keeps them apart. A
claim token always matches, because a row is inserted once and only its claimer
presents one. The operation a caller asks for is named where it first matters,
at `begin_step`. A proposal is its presence; whether it parses is a choice
between commit and re-ask. A client call is any number of physical requests
followed by a return or a failure. Sessions share only the cap, and bindings
only refuse, so one of each suffices.

## 3. Runs

| Run | Checks | Shows |
|---|---|---|
| `ledger_budgets` | `CountersConserved`, `ChargesCoverScope`, `DispatchWithinLimits` | two attempts on a root and a child pool, a strict pool limit and a strict deployment limit at their cap over two months, with unknown costs |
| `ledger_tiers` | `TypeOK`, `ChargesFollowAttempt`, `WaiverPermanent`, `EvidenceImmutable` | one attempt, priced or not, under every sequence of reports and receipts, with restart, strict and default limits and operator assignment |
| `ledger_keys` | `OneExecutionPerOperation`, `CertificateSound`, `DeliveryImmutable`, `AttemptsClose` | three requests under one key with equal and different content; every dispatched attempt ends under fair restarts |
| `commit_writer` | `CloseDrains`, `NoStrandedCaller`, `WriteThroughSpec` | four writes, batches of two, every failure and one crash; a fair writer answers everyone and implements `WriteThrough` |
| `accounting_threads` | `ReservationsOwned`, `OneOpenAttempt`, `FenceExact`, `DrainSafe`, `PricedRetained`, `EvidenceKept`, `RequestsClose`, `FenceRecovers` | handler, dropped handler and sweep of one request interleaved at every lock and write, two failing writes; the sweep closes what handlers leave behind and releases fences |
| `batch_jobs` | `SubmitOnce`, `SettledMeansClosed`, `PaidWorkSpec`, `JobSettles` | one job on each provider, a canceller, lost answers, expiry, one death |
| `video_jobs` | `PublishedAfterLedger`, `OneRender`, `EvidenceAcknowledged`, `PaidWorkSpec`, `JobsSettle` | two engines, one or two rungs, a failed write, a death or shutdown |
| `route_health` | `ProbeOwned`, `LadderForward`, `CircuitRecovers`, `LaneRecovers` | two requests over two lanes that die, hang, throttle and retire connections |
| `permit_queue` | `NoOvertaking`, `WaitersServed` | four requests for two permits, in the four configurations of the queue, with giving up and draining |
| `sessions_steps` | `PurchasesAccounted`, `OperationLogSpec` | two workers without a common lock, three steps on a budget of two, recovery and draining at any time, one death |
| `ledger_terminalize` | `RequestsTerminalize` | violated, see findings |
| `batch_billing` | `ServedLinesSettle` | violated, see findings |

Each property of a passing run has a mutant: a plausible bug in one mapped
definition under which TLC reports that property violated.

Deadlock is checked in `route_health` and `sessions_steps`. Elsewhere a behaviour
may end: the ledger when its bounded clock and ids are used up, a closed writer, a
closed request, a settled job, a drained queue.

Bounds, and why they suffice. Two attempts are the least number for which a
reservation of one competes with a settlement of the other, and for failover
inside one request; the counters relate one limit to a set of charges, which
the proofs extend to any number. Amounts up to 3 nano-USD with limits 1 and 2
make both the cap and the column limit bite, and an unknown cost adopted by
backfill closes a strict limit until an operator assigns it; default limits
and estimated reports are in `ledger_tiers`, and the late upgrades of
`ledger_budgets` follow a restart. Two instants with a month of one
give dispatch in one month and settlement in the next. Three requests of a key
give a retry of a retry. In `ledger_tiers` the reports cover every combination
of markers that decides a branch; only one attempt is needed, since evidence
never crosses attempts. Two batches of two operations give a failing batch
followed by one on the same connection, and a preflight failing inside a
batch. `MaxRequests`, `MaxTime` and `MaxCrashes` are bounds of the model only.
`FitsClock` accepts a request only if its deadline and grace fit in the
bounded clock, so that liveness is not lost to the bound. Attempt ids
are symmetric; the runs with temporal liveness properties use no symmetry.
Requests meet in the registry only through the fence, whose index is exact for
each request by itself, so `accounting_threads` uses one request and spends its
states on its threads: two attempts for failover, two deliveries for a retry, two
failing writes so that a failure meets the failure of its recovery.
Its settlements carry an exact meter or none; the third kind, a failure
without usage, is taken like an exact meter by every branch of this module and
would only multiply states. `MaxAttempts`, `Tries` and
`MaxFaults` are bounds of the model; the code retries four times.

Two lines in `batch_jobs` separate a job that is partly settled from a settled
one; one canceller suffices because cancellers share nothing but the row and the
claim; one death reaches every step, since the poller, the canceller and the
submission each restart from the row. The input files cover an unusable line, a
second connection, a repeated id and two providers. In `video_jobs` two engines
give every race of two settlements; `MaxLoad` gives one failed write on a
route of one rung or a failover on a route of two, and `MaxStops` one death or
shutdown. In `route_health` two failures trip a circuit and one
failure or hang ejects a lane (longer streaks only delay the ejection), and windows of one unit still separate before, at and after
their end; three dispatches and a redial of each kind allow a failover after a
redial. In `permit_queue` one binding has a single permit for two requests and
the other as many as the worker, so either capacity can be the one that is
missing; requests come back for ever, which is what could starve a waiter; two
classes give a waiter that is outranked for ever until it ages. In `sessions_steps` two workers give
every race for one version; three steps on a budget of two, and two slots, let
each limit bite while another step is open; one re-ask gives a second purchase
under one start. Step ids and request digests are symmetric, and both properties
are safety properties.

Fairness. `FairSpec` of `Ledger` assumes weak fairness of `Tick` (time passes)
and of `ReconcileCrashedRequests`. The latter is run at every start of the
gateway, so it says the service keeps being restarted after the deadline and
grace of whatever was left; nothing is assumed of settlements, callers or
operators. `FairSpec` of `GroupCommit` assumes weak fairness of the writer
thread: it runs whenever one of its steps is possible, and each SQLite call
returns. Callers, `Close`, `Crash` and `Restart` are not fair.
`FairSpec` of `Accounting` assumes weak fairness of the steps of a call already
running on a worker thread (it runs to its end, and locks and writes return), of
`Expire` (time passes), and strong fairness of the sweep's visits to a request:
it wakes every five seconds and `RecoveryRotation` reaches every pending
identity, while another thread may hold the gate at any single visit. `MaxFaults`
bounds the failing writes, so storage recovers. Nothing is assumed of handlers.
`FairSpec` of `BatchJobs` assumes weak fairness of the poller (a loop with a
fixed interval), of the clock, and strong fairness of `FetchResults`: a result
file is not unreadable for ever. `FairSpec` of `VideoJobs` assumes that engines
keep polling and retrying and that time passes; nothing is assumed of the
provider, which is why a local timeout must settle the job. `FairSpec` of
`RouteHealth` assumes that time passes and that a reservation, once asked for,
runs to its end on its worker thread. Arrivals are not fair, and neither are
reports: a settlement the ledger always refuses never reports
(`gateway/native_accounting.py:822`). `CircuitRecovers` therefore has the reports
as a premise; `LaneRecovers` needs none, because a lane's probe expires.
`FairSpec` of `PermitQueue` assumes that waiters poll, that time passes and that
a running request ends, which its deadline and the bounded settlement retries
see to; waiters need not give up and arrivals need not stop.

## 4. Findings

1. **A request can stay open for ever** (`gateway/ledger.py:851`). A failover
   settles an attempt without finalizing the request. If the process dies before
   the next dispatch, the request has an attempt but no dispatched one; recovery
   closes only requests with no attempt and those with a dispatched one. Its
   key is then blocked. The architecture document
   (`docs/reference/gateway-architecture.md:561`) says the parent terminalizes
   once, crash reconciliation included. Run `ledger_terminalize`.
2. **A locally expired batch releases lines the provider served**
   (`gateway/batch/engine.py:500`). The completion window is measured from the
   submission to the gateway; when it ends, the job is finalized without
   polling or cancelling the provider's batch. A batch that still runs has no
   result file, so every line is released and the job is never listed again,
   although the provider bills what it served. The comment at `engine.py:642`
   says to release only the lines that produced nothing. Run `batch_billing`.

Further behaviour met while modelling, which no run is spent on:

* A fence that no replay lifts (`gateway/native_accounting.py:826`): while the
  deadline sweep's `abandon` writes an attempt as recovered, the data plane
  delivers a completion without a complete meter. The entry is kept for that
  evidence, the ledger refuses it on every replay
  (`gateway/ledger_reconciliation.py:199`), and the organization is refused until
  the process restarts. Request-only writes in the same situation are dropped
  (`permanently_refused`). `FenceRecovers` excludes this conflict and shows that
  in the checked instance it is the only way.
* A quote may succeed for a request that is gone
  (`gateway/native_settlement_quote.py:88`): if the sweep closes the request during
  the host's price call, the quote neither retains the settlement nor fails; the
  terminal is flushed and its meter is never written, against the docstring and
  `docs/reference/gateway-architecture.md:528`. It needs a host ledger that
  implements `SettlementPricer`. `PricedRetained` excludes this case and shows
  that a quoted settlement is retained in every other.
* A session can stay blocked: `recover()`
  (`exp/runtime/sessions/store.py:753`) has no caller outside the tests and
  nothing moves a step out of `ambiguous`, which counts as open for the next
  claim (`store.py:262`). A failed artifact save after `record_proposal`
  (`exp/simulation/world_model/durable.py:262`) leaves the step started in the
  same way.
* An operator's assignment of unknown costs is recognised by its amount
  (`gateway/ledger_reconciliation.py:326`): one equal to the automatic amount is
  moved by a late meter, against the docstring's "retaining manual overrides".
* `docs/reference/gateway-architecture.md:439` says any required unknown price
  makes a route ineligible while a hard limit applies; the code refuses only
  under a strict limit (`gateway/budgets.py:603`).
* A charge adopted by backfill stores no reservation, so a late tiered meter
  without a price returns it as an unknown cost, which blocks a strict limit
  (`gateway/ledger_reconciliation.py:331`).
* An exact meter delivered after the deadline sweep closed its request is
  acknowledged without a write (`gateway/native_accounting.py:776`).
* Any failure of a deployment clears its half-open probe, also one older than
  the probe (`gateway/health.py:292`); the registry's docstring speaks of one
  probe in flight. It weakens only the rationing of probes.
* A death between a batch's reservations and its row leaves reservations no job
  names (`gateway/batch/engine.py:187`); the host's ledger is not in this
  repository. A poller's save may also overwrite a cancel intent saved since
  its read (`gateway/batch/engine.py:577`); the batch then runs to its end.
* A video submission answered with a 5xx is failed over and its rung settled at
  zero (`gateway/video/providers.py:188`). If a gateway in front of the provider
  answered, a job may run there that nothing records, and the request is rendered
  again; the docstring of `VideoSubmitRejected` (`providers.py:114`) says the
  provider "answered a submit without creating a job". Only the provider could
  tell, so this is disclosed here and modelled by `MayCreate`.
* A video job the provider forgets after its ledger write and before its
  publication stays open: it now reads as a free failure, which the ledger
  refuses beside the meter (`gateway/video/engine.py:769`). `JobsSettle` excludes
  forgotten jobs for that reason.

## 5. Proofs

TLAPS proves every invariant, every action property and every implementation
that the passing runs check, each for all values of the constants: any number of
requests, attempts, limits, lines, rungs, engines, workers, crashes and failed
writes. The bounds of section 3 therefore limit only the liveness results. Each
`*Proofs` module has one lemma per action or group of actions and ends in the
theorems that `PROJECT.json` lists.

Assumptions, all evaluated by TLC in the runs. `Ledger`: `NullAssumption` (NULL
is not a number, a label, a card, a meter or a row), `BoundAssumption` (bounds
are naturals, a month has at least one instant, attempt ids are finite),
`InputAssumption` (inputs have the shape the code validates, scopes are of the
four kinds the schema admits, `Price` is NULL for a meter that is not complete).
`CommitAssumption`, `AccountingAssumption`, `BatchAssumption`, `VideoAssumption`,
`SessionsAssumption`: NULL, the sentinel and None are no identities or rows,
and limits are positive numbers. `RouteAssumption`: lanes and routes are over
declared keys, thresholds, windows and attempt limits are positive
(`request_policy.py` requires `ge=1` of the latter). `PermitAssumption`: finitely
many requests at a time, positive capacities.

**Ledger** (`LedgerProofs`).

* `TypeCorrect`: `Spec => []TypeOK`, the row types with every attempt under an
  existing request.
* `CountersCorrect`: `Spec => []CountersConserved`. Neither conjunct is
  inductive alone. A settlement subtracts a charge's reservation from a
  counter, so the counter is known to stay a natural number only because it is
  the sum of the charges; and a new attempt adds its charge to the sum only if
  no charge under its id existed before, which is the extra conjunct
  `ChargesOwned` (a charge exists only for an existing attempt under an
  existing limit). The invariant is
  `TypeOK /\ ChargesOwned /\ CountersConserved`. `Total` is the cardinality of
  a set of units rather than a recursive sum, so that changing one entry
  changes it by a disjoint union whose size the finite-set theorems give;
  `TotalIsSum` in `MCLedger` lets TLC compare it with a fold. The lemmas on
  `Total` come first, then one lemma per row update (reserve, settle, swap,
  assign, backfill), then one step per action.
* `DeliveryFinal` (`DeliveryImmutable`), `CertificatesHold` (`CertificateSound`)
  and `OneExecution` (`OneExecutionPerOperation`) follow from what one step may do
  to rows (`RowStep`: terminal attempt states and frozen columns stay, terminal
  requests stay, an attempt appears only under an open request, a certificate
  only with its conditions), proved action by action from `TypeOK`. For
  `OneExecution` the invariant `NewestKnown` adds that rowids are dense and each
  key has a newest row, which is the only one `accept_request` reads.
* `ChargesFollow`, `WaiversHold`, `EvidenceFinal` (`ChargesFollowAttempt`,
  `WaiverPermanent`, `EvidenceImmutable`) share `MoneyInv`. Its part per row,
  `RowSettled`, is what a settlement, a hold, a priced cost and a confirmed tier
  say about each other: a dispatched row has no settlement or evidence, an
  unsettled row no cost, a hold no price. So a late price replaces none, and a
  backfill adopts an unsettled row as held.
* `ScopeCovered` (`ChargesCoverScope`): the dispatch's SELECT and the backfill's
  predicate agree on columns that no step changes. `DispatchesBounded`
  (`DispatchWithinLimits`): caps hold at dispatch; with `CountersCorrect` they
  hold of the charges themselves.

**Group-commit writer** (`GroupCommitProofs`). `WriterImplementsWriteThrough` and
`CloseDrainsQueue`. The invariant says what each phase of the writer holds, that
the sentinel is last in the queue, that queue, batch, prepared operations and disk
are four consecutive stretches of the order of submission, and that a prepared
answer is true of the disk. The step that maps to the abstract commit is `COMMIT`;
all others map to an answer or a stutter.

**Accounting** (`AccountingProofs`). `ReservationsCorrect`,
`OneOpenAttemptCorrect`, `FenceCorrect`, `DrainCorrect`, `PricedCorrect` and
`EvidenceCorrect` all follow from `AccountingInvariant`. The copies of a
settlement (in the guard, on a thread, in the entry, in the ledger) can be
inspected at any moment by three threads, so the invariant is stated per request:
there is one decision, chosen once per attempt, that every copy agrees with, and
for each program counter what the thread there may rely on: who holds the gate,
whether the entry is live, which attempt is active, what the rows say.

**Batch jobs** (`BatchJobsProofs`). `SubmittedOnce`, `SettledJobsClosed`,
`BatchImplementsPaidWork`. Stale copies are the difficulty: the invariant says
that each copy of the job, in the store, the poller or a caller, is truthful (a
provider id only of a batch the provider has, settled only of closed lines),
that nobody is at the submission without the one-time claim, and that a thread
that settles holds a job whose row cannot be dispatched any more.

**Video jobs** (`VideoJobsProofs`). `PublicationFollowsLedger`, `RenderedOnce`,
`EvidenceNeverErased`, `VideoImplementsPaidWork`. The invariant says what the
ledger holds for each settlement that an engine retains, has written or has
published, whichever engine wrote it, and what the position of the create call
says of the rungs before and after it: before it, a rung has nothing or a job the
provider denied; at a rung, a job exists only if its submission was made.

**Route health** (`RouteHealthProofs`). `ProbesOwned` (`ProbeOwned`) and
`LaddersGoForward` (`LadderForward`). The invariant has one predicate per
request, `Sound`: what a walk may still ask, a ladder still hold and a shed list
still name has not been dialed, except the depth dialed last; and a request with a
walk in progress has a dial left. `LadderForward` is not inductive without it,
since a shed or skipped rung is dialed from lists made several steps before. Each
action is then one of four kinds of step (outside the registry, claim, release,
dispatch), and for each kind one lemma says what happens to the probe flags. The
number of dials is the cardinality of a set, as in `Ledger`.

**Permit queue** (`PermitQueueProofs`). `NobodyOvertakes` (`NoOvertaking`). Each
mode of the queue has its own reason, and so its own conjunct: a scoped head has
nobody of its binding ahead of it, because those ahead are of bindings without
room; a classed head has nobody ahead of it when it goes to the semaphore, and
owes nothing afterwards even if outranked; without classes the semaphore's line is
a total order, so whoever is before a request that is assigned a permit is
assigned one as well, and stays so when the request takes its own.

**Sessions** (`SessionsProofs`). `PurchasesCorrect` and `SessionsImplementLog`.
The invariant says that each working worker has a step row of its own with the
version it read; that the slots cover every request sent or about to be; that a
started step never returns to none, claimed or released; that the history holds
exactly the completed steps and the version counts them; that at most one step is
open; and that a worker that read the current version read the current history.

Only model-checked: the liveness properties `AttemptsClose`, `NoStrandedCaller`,
`RequestsClose`, `FenceRecovers`, `JobSettles`, `JobsSettle`, `CircuitRecovers`,
`LaneRecovers` and `WaitersServed`. Liveness under fairness is beyond this prover.
That `Total` is the sum that its name says is compared with a fold by TLC, since it
would need induction over data.

## 6. Not modelled

* Pricing arithmetic: pure functions over decimals with one result per input.
* The chain-authority preflight of a dispatch: it only refuses.
* A `BaseException` inside the writer loop, which ends the thread abnormally,
  and caller cancellation, which the code shields from the write.
* In `Accounting`: which rung a dispatch takes and the health effects of a
  settlement (both in `RouteHealth`), metrics, guardrail sessions, and process
  death (the ledger's restart recovery, in `Ledger`, owns what a dead process
  left).
* Rung load registries: whether a rung sheds is a choice in `RouteHealth`.
* Batch uploads and listings, video content, listing and deletion: they change
  no money and no state another step reads.
* In `Sessions`: replay of a request budget, online research, and the preflight
  receipt, which decide what is asked and not how often.
* Migration of rows written by earlier schema versions.
* Every component with status `not_modelled` in `PROJECT.json`, with its reason.

## 7. Plan

In order, the most important behaviour first:

1. `AliasReload`: generations, retention, in-flight authority.
2. `RouterJournal`: recovery from torn files.
3. A composition of `Ledger` operations submitted through `WriteThrough`, so
   that a caller whose answer was lost retries the same write.
4. Invariants behind the liveness properties: that a lane's and a circuit's
   records stay within their windows, and that a reservation can always take a
   step until it ends, which are the safety halves of `CircuitRecovers`,
   `LaneRecovers` and `RequestsClose`.
