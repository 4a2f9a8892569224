# A verification project for Phoenix

TLA+ models, TLC runs and TLAPS proofs for Phoenix: the services that read an L2
sequencer feed, search for profitable routes and liquidations, decide who may spend,
and sign and broadcast transactions from one wallet.

Paths such as `live-executor/src/store.rs` are relative to the repository's source
tree. `PROJECT.json` maps every definition to the lines it stands for.

1. [The system](#1-the-system)
2. [The modules](#2-the-modules)
3. [Properties and runs](#3-properties-and-runs)
4. [Proofs](#4-proofs)
5. [Where the code and its documents disagree](#5-where-the-code-and-its-documents-disagree)
6. [What is not modelled](#6-what-is-not-modelled)

## 1. The system

| Part | Where | What it does |
|---|---|---|
| recorder | `recorder/` | consumes the feed from NATS JetStream, stores relevant messages together with an outbox row, counts the others |
| shadow dispatcher | `recorder/src/engine_outbox.rs`, `engine_stream.rs` | publishes outbox rows to the engine's stream, under leases |
| engine | `phoenix-engine/` | consumes that stream; classifies each event, stores decisions and DEX candidates; enriches candidates with exact source state |
| hunter core | `phoenix-engine/src/hunter/` | route graph, exact swap arithmetic, choice of a size |
| RPC gateway | `rpc-gateway/` | the only way to the providers: budget, cache, coalescing, failover, two-provider agreement; the Aave reads and their sizing |
| fork sandbox, approval tool | `fork-sandbox/`, `live-executor/src/approval.rs` | simulates a plan on a local fork; an operator turns its result into a request |
| live executor | `live-executor/src/{main,engine,store}.rs` | one loop: materialize, execute or reconcile a direct attempt, then the Atlas lane |
| Atlas lane, materializer | `live-executor/src/{revenue,atlas,autonomous}.rs` | bids in liquidation auctions; turns candidates into approved requests |
| control tool, supervisor | `live-executor/src/autonomous_live_control_main.rs`, `economic_control.rs` | phases, sizes, epochs, arming, promotion, recovery |
| revenue hunter | `atlas-observer/internal/hunter` (Go) | finds liquidations, publishes requests, samples the provider |
| owner tools | `live-executor/src/{owner_bootstrap,executor_rotation}.rs` | configure, pause and replace the executor contract |

The parts share PostgreSQL rows and two JetStream streams. Hunter and engine publish
work; control tool and supervisor arm and disarm; the executor claims, broadcasts and
settles. The lanes (DEX, Aave direct, Atlas auction) share one wallet, so one row,
`global_revenue_submission_lock`, lets one request at a time be between its claim and
its end. A process may die at any await, and after a restart knows only what the rows
say.

## 2. The modules

### The revenue path

| Module | Models | State and actions |
|---|---|---|
| `RevenueStore` | `store.rs` and the schema | a variable per column that matters; an operator per transaction, its precondition as `Can...` |
| `Chain` | RPC node, network, Atlas gateway (external) | what became of each transaction and bid; the wallet's nonce; mining, eviction, foreign transactions |
| `LiveExecutor` | `engine.rs`, `main.rs` | `pc[p]` with one value per database or RPC call; the request, the status it read, the nonce it was told |
| `AtlasLane`, `Materializer` | `revenue.rs`, `atlas.rs`; `autonomous.rs` | further values of the same program counter |
| `RevenueControl` | control tool, supervisor, hunter, engine insert, midnight | one action per operation, reduced to what the executor can see |
| `SubmissionLock` | what the lock promises | a stage per request: waiting, held, flying, landed, settled |
| `RevenueExecution` | the composition | `Spec`, its properties, the refinement mapping to `SubmissionLock` |

A step of `LiveExecutor::step` is cut at every await, since other processes, the
control plane and the chain act in between. What happens in one database transaction
is one action. An RPC answer is an action of its own with a nondeterministic verdict,
constrained by `Chain` where the code relies on it: a receipt exists only for a mined
transaction; a pending nonce lies between the mined and the pooled transactions. An
error of a store call ends the process through `fatal`, where `main.rs` disarms and
exits; Atlas errors are logged and the next turn begins.

Data is abstracted as follows.

- A request and its attempt row carry the same status, written by the same
  transactions, so one variable stands for both.
- The economic phase has three values here: `live` (the DEX lane may execute),
  `evidence` (disarmed evidence at the reviewed size, which the provider-gated lanes
  need) and `closed`. `EconomicControl` has all of them.
- Timestamps are replaced by what queries do with them: `stale` holds the requests
  older than the evidence floor, `touched` says which rows moved into the current UTC
  day, deadlines may pass at any moment.
- Amounts are losses in units of the worst-case fee; no decision of the executor reads
  a profit except through losses.
- Query filters on size, deadline or schema version may always find no row.
- Two groups of neighbouring reads are one step each, finer than which no property was
  found to tell: the gate before a claim (`Gate`), and the day's losses with the pinned block
  before a send (`RecheckBudget`). Steps of others still come before and after each.
- The disarm of a start that fails (`main.rs:68`, `:76`) is followed by the exit of the
  process: an operator's disarm while the process is down.
- The auction gateway, when it takes a bid, answers in the form `validate_submit_response`
  (`atlas.rs:131`) accepts, so that a refused submission is a bid that is not live.
  `LockCoversInFlight` and `ImplementsLock` depend on this assumption: for a bid that was
  taken and answered in another form the code releases the lock.
- The hunter's authority query (`postgres_sink.go:602`) names an alias its FROM clause
  does not declare (section 5). It is modelled as it is meant, so that the two hunter
  lanes have work.

### The pipeline

| Module | Models | State and actions |
|---|---|---|
| `JetStream` | a work queue with one durable consumer (external) | messages by sequence number, deliveries up to `max_deliver`, acknowledgement, ack wait, duplicate window |
| `Recorder` | consumption, transaction, counters, flush, readiness, shutdown | the consumer's program counter and batch, the two tables, the daily counts in memory and in the row |
| `ShadowDispatcher` | claim, publish, mark, release, reconnect of any number of replicas | outbox rows with lease and attempts, the stream with its duplicate window, per replica its position |
| `EngineRuntime` | the consumer of `phoenix-engine/src/runtime.rs`, the monitors, the candidate insert | stream, classifications, attempts, decisions and candidates; per engine a position, its batch, the current delivery and what it read |
| `SourceEnrichment` | `source_enrichment.rs` and the reconstruction of the state after a transaction | the queue, attempts and results per identity; time in units of five seconds |

A route's evaluation is a nondeterministic verdict in `EngineRuntime`; what it computes
is the matter of the modules on algorithms. In `SourceEnrichment` the tracer is
external, of an account only the storage is modelled, and of the pools of a path one;
two engines stand for the old and the new one at a restart. Evidence over the size limit
is evidence without traces; a state diff that does not apply fails the request. The
progress acknowledgements of a failed batch count towards the recorder's acknowledgement
health, whichever of them fail; that they postpone the ack wait is left to its timing.

### The gateway

| Module | Models | State and actions |
|---|---|---|
| `ProviderPool` | `providers.rs` | circuit, cooldown and quarantine of each provider |
| `ShadowGateway` | shadow, source, hunter and probe requests of `runtime.rs` | each provider's chain as block hashes, caches, single flights, budget; per request a position; a timeout may drop a request at any await |
| `AaveGateway` | the Aave screens, tail, Exact reads, simulations and batches | the provider's branch, call budget, permits, operation lock, context cache |
| `AaveLiquidation` | the sizing of a liquidation and the verdict on its simulation | one input per behaviour, the variants it yields |

`AaveGateway` has at most one change of branch. A refusal by the request budget changes
nothing and is left out; a provider cooldown is a fault. Screens and single simulations
give no execution authority, and a single simulation checks its pin only at its start,
so `AnswersAreOneState` speaks of Exact reads and batches. In `AaveLiquidation` 256-bit
and 128-bit overflow, zero prices (an integrity error in the code), quotes of unsupported
assets and requests in `atlas_mode` are left out. The tail's logs are of final blocks, which
every node behind an endpoint is taken to have: the answer to a filter is complete.

### Control and operations

| Module | Models | State and actions |
|---|---|---|
| `EconomicControl` | phases, sizes, epochs, ledger, activation requests, runner and script, promotion, cooldown | one action per command, per step of the runner, per pass of the supervisor |
| `ProviderAuthority` | the hunter's samples, failure reports and restarts; the supervisor's pass; arm, disarm, recovery | the durable provider row and the hunter's memory beside it |
| `ControlRows` | the order in which the executor, the tools and the hunter lock and read the control rows | per actor an open transaction with its locks and what it has read |
| `OwnerBootstrap` | `owner-configure`, `owner-unpause`, `owner-pause`, preflights | contract, wallet with pending transactions, the command's position |
| `ExecutorRotation` | deployment, configuration, drain, cutover, reconciliation, rollback, adoption | journal, contracts, consumers, rows of the old executor |
| `ForkPlanner`, `ForkEvidence` | the planner's checks in order; the sandbox's run; approval; materialization | the facts, the fork (external), stored results, requests; time in half seconds |

Abstractions: `EconomicControl` lets image, policy and release checks fail as one
`RejectRequest`, leaves Atlas losses out of the daily loss, assumes that the commands of
a compensation succeed and that a killed script runs none. `ProviderAuthority` fixes
sizes at `MAX_REVIEWED`; active attempts, a held lock and the loss budget are one fault
of the recovery; no two events fall into one microsecond; it starts in the armed state,
owner-paused or not. The wallet's other sender in `OwnerBootstrap` and the executor that
finishes requests in `ExecutorRotation` are the live executor, reduced to a sent transaction
and a closed row. In `ForkEvidence` the fork is static, since Anvil runs with
`--no-mining`, and addresses, hashes and calldata are abstracted; of the contract only its profit floor
and the gas decide, since the time it compares with the deadline is that of the pinned
block, which is earlier than the detection.

### Algorithms

| Module | Models | Reference it is checked against |
|---|---|---|
| `PoolSwap` | `simulate_pool_exact_input` over the ticks the gateway reads | the liquidity the positions give at each price, and the spot price |
| `RouteGraph` | enumeration, binding, index, and the way of an event through them | all simple cycles, by set comprehension |
| `RouteSizing` | `optimize_route` and the candidate's costs | the best size of the whole range |

In `PoolSwap` prices are multiples of 1/Q and the square-root ratios a table; a step to
a word boundary is left out, and the price exactly at an initialized tick above fails
closed as in the code. In `RouteGraph` sorted order is abstracted to some fixed order,
evaluations have any outcome; production uses `process_selected_route`, replay and the
end-to-end tests `process_event`. `RouteSizing`'s guarantees need a profit with one
hill and room for refinement (0 < refinements < probes; the default is 8 of 32).

## 3. Properties and runs

Runs of the revenue path extend `RevenueExecution`. The others put several small
instances of several components under one specification: the variable `at` says which
instance a behaviour belongs to, only that one moves, and the others rest in an initial
state. So one run asks one question ("is what is acknowledged kept?") of every component
it concerns, and its property names, instance by instance, the properties of the
component modules. Each instance has the constants that make its own case happen; the
comment above it in the MC module says which case.

| Run | What it shows |
|---|---|
| `dex` (`MCDex`) | two approved DEX requests, from the moment the route is live; one process with a crash or fault and a foreign transaction, or two processes that overlap: `NonceUsedOnce`, `LockMatchesWork`, `AttemptsOnlyAdvance`; for one process `OneKeepsTrack` |
| `lanes` (`MCLanes`) | a DEX and an Aave request, or an Aave request and an auction, one process, one fault: `OwnAuthority`, `BroadcastNeverForgotten`, `LockCoversInFlight`, `DailyLossBounded`, `NoNonceGap`, `CandidateTellsTheTruth`, and the refinement `ImplementsLock` |
| `live` (`MCLive`) | one DEX request or one auction under fair scheduling: `SettledInTheEnd`, a mined transaction is confirmed or reverted as it ended and an ended bid settled, with the lock given back |
| `gateway` (`MCGateway`) | `AnswersAreTrue`, `AdmittedSequenceCompletes`, `TailHasNoGap`, `FailoverMovesOn` under reorganizations, faults and shared budgets |
| `pipeline` (`MCPipeline`) | recorder, dispatcher, engine and enrichment with crashes, redelivery, lost replies and overlapping processes: `AckedIsKept`, `PublishedIsDelivered`, `CopiesBounded`, `ReadyIsHonest`, `LeaseHonoured`, `RemovedIsClassified`, `DecidedOnce`, `EvidenceIsExact` |
| `control` (`MCControl`) | `LiveIsAligned`, `SizedByEvidence`, `ReadyIsEvidenced`, `AuthorityIsBound`, `CommitsOnCurrentRows`, whoever commits first |
| `operations` (`MCOperations`) | owner commands, rotation, fork sandbox with approvals: `ConfiguredBeforeUse`, `OneExecutor`, `RequestsAreGrounded`, `DecisionsStand` |
| `algorithms` (`MCAlgorithms`) | `LiquidationsFit`, `SwapIsExact`, `RoutesAreComplete`, `SizeIsBest` against reference definitions |
| `progress` (`MCProgress`) | `DeliveredInTheEnd`, `FinishedInTheEnd` |
| `waiting` (`MCWaiting`) | `NobodyWaitsForEver` |
| `overlap` (`MCDex`) | violation: two overlapping processes have two submissions at once |
| `hunter_terminates` (`ControlRows`) | violation: the hunter exits on an error that is none of corruption, identity or integrity |

What the properties of the revenue path say:

- `NonceUsedOnce`, `LockMatchesWork`, `AttemptsOnlyAdvance` survive any number of
  overlapping processes: no nonce leaves the executor twice, at most one request is in
  progress and the lock names it, no closed attempt is opened again.
- `BroadcastNeverForgotten`: whatever crashes follow, an attempt whose transaction may be
  on the network is never closed as failed.
- `NoNonceGap`: a transaction that can still be mined carries the wallet's next nonce;
  rollbacks and crashes leave no gap below it.
- `DailyLossBounded`: the losses and the committed exposure of a UTC day stay within the
  limit. What counts is what the executor itself committed; a second insert by the hunter
  moves `updated_at`, and with it the day a closed row is charged to, but commits nothing.
- `CandidateTellsTheTruth`: the candidate row agrees with the chain, although every disarm
  rewrites candidates behind the executor's back.
- `OwnAuthority`: the second look at the controls accepts either authority, yet whenever it
  is satisfied it is by the authority of the attempt's own lane.
- `LockCoversInFlight`, `ImplementsLock`: the lock is held as long as a transaction or a bid
  can still take effect, and the rows move through the stages of `SubmissionLock` in order.

All of these but the first three and `OwnAuthority` are properties of one process, because
`overlap` shows that the lock does not protect against a second one; the compose file
starts a single container.

- `SettledInTheEnd`: once the chain has decided, the attempt is closed as the transaction
  ended and the lock is free. The exception is a transaction that is mined after the process
  found it gone and its nonce used, and before it has written so: `Replaced` is final
  (section 5).

Two others that need a word: `FailoverMovesOn` says that within one request the failover
never asks a provider again that has failed for it, whatever other requests do to the
shared circuit state meanwhile. The last clause of `DecisionsStand` says that a candidate
whose newest result is good is not closed as a mismatch, also when an older result of the
same event, planned under another threshold, is bad.

`TypeOK` of the revenue path and of the recorder are theorems (section 4).

### Bounds

- `MaxFaults`, `MaxCrashes`: one is enough to stop at any await once and resume. After a
  restart a process has no memory, so a second fault starts from rows a single one can
  also leave. Two or more are allowed where repetition is the question (enrichment
  attempts, lasting provider failures, the tail's lost answers).
- `MaxForeign`: one foreign transaction makes a nonce disappear under an attempt.
- Two requests, rows, events, identities or clients are the least that can collide on a
  nonce, a lock, a lease, a route or a budget. The pairs of lanes that share authority or
  the loss limit meet in `lanes`.
- `WorstCaseFee`, `MaximumDailyLoss`, `GlobalLossLimit`, `SolverExposure`: one loss fits, a
  second, or a loss with an exposure, does not.
- `dex` starts at the moment the route is live with both requests approved (`InitLive`),
  which `Activate` and the materializer lead to; `lanes` starts from the beginning. With two
  processes `dex` leaves out faults and all control actions but `Activate`.
- In `gateway` the exact lane does not run beside `AdmittedSequenceCompletes` (section 5). In
  `control` the clock ends before the readiness gate could open a second time after it
  closed; a restart of the hunter is within the bound.
- `operations` has two instances of the fork sandbox: one run of a plan with faults and
  every fact varied (`Approval`), and two runs of one event under two thresholds
  (`Thresholds`).
- Three releases and eight commands let a contract be adopted, rolled back from and adopted
  again (`operations`).
- `MaxDeliver` is small enough to be reached, `MaxExpiries` and `MaxWindows` let one lease,
  ack wait or duplicate window pass at the worst moment.
- In `progress` an event reaches the engine's stream once: a second copy would only be a
  second chance to be delivered.
- The provider's clock starts at three and runs to six where a recovery is asked for: a
  failure, then the three later samples the recovery needs (`control`, `progress`). The
  recovery from a failed acceptance, at either end, has an instance of its own with the two
  or three commands that lead to it.
- The inputs of the algorithms and the facts of a simulation are chosen around the limits
  rather than as a product of all values: pool positions end at the last tick of a bitmap
  word or the first of the next, and at most one status of the facts differs from the base
  case when the second opinion does.
- Times, sizes, prices and percentages of the algorithms are scaled so that every rounding,
  threshold and limit lies inside the range, on both sides.
- Symmetry is used in `dex` only, where no liveness is checked.

Runs whose bounds or whose components come to rest say `CHECK_DEADLOCK FALSE`; `dex`,
`lanes` and `live`, whose loop never ends, check for deadlock.

### Fairness

- The executor (`live`): weak fairness of each process's steps, because the loop of
  `main.rs` runs on and the container restarts (`restart: unless-stopped`,
  `compose.live-autonomous.yml:342`); strong fairness of `ReceiptFound` and
  `AtlasReconcile`, because a query that can be answered does not fail for ever. Nothing is
  assumed of the chain, the control plane or faults, so both halves of `SettledInTheEnd`
  start when the chain has decided.
- Pipeline (`progress`): the consumers, flush and monitors run on; an ack wait, a lease and
  a retry delay end; strong fairness of the engine's fetch, which may be disabled and
  enabled again by its readiness.
- Control (`progress`): a started command goes on, the supervisor and the runner pass
  again, an authorization expires, the hunter restarts, a statement that was sent takes
  effect; in the fork sandbox time passes and the executor's loop runs. `MaxTime` exceeds
  the last creation plus the time to live.
- Waiting: tokio's locks and semaphores are first come, first served, as are PostgreSQL's
  row locks, hence strong fairness of taking them; tokens are refilled and deadlines pass.

Since a behaviour of `MCProgress` and `MCWaiting` belongs to one instance, conditions of
different components share an index; at most one action of each list can ever be enabled in
a behaviour, so that sharing makes no condition stronger or weaker. Leads-to properties of
several components are joined in the same way.

## 4. Proofs

Proved by TLAPS for any sets of requests, auctions, processes, rows, events and routes,
and any value of the limits. The revenue path assumes what `StoreAssumption` and
`ExecutorAssumption` say (the lanes are disjoint and the auctions finitely many, the empty
owner is no request, fee and limits are naturals); the pipeline's modules assume nothing;
the rotation assumes `PlanAssumption` (a sequence of named settings, a number of contracts,
at least one release), which its theorems state as a hypothesis.

| Module | Theorem | Statement |
|---|---|---|
| `RevenueProofs` | `Invariance`, `TypeCorrect` | `Spec => []IInv`, `Spec => []TypeOK` |
| | `NonceSafety`, `LockSafety`, `AuthoritySafety` | `Spec => []NonceUsedOnce`, `[]LockMatchesWork`, `[]OwnAuthority` |
| | `Advance` | `Spec => AttemptsOnlyAdvance` |
| | `FlightInvariance` | one process: `Spec => []OneProcessInv` |
| | `NeverForgotten`, `InFlightIsLocked`, `NoGap`, `CandidateTruth` | one process: `Spec => []BroadcastNeverForgotten`, `[]LockCoversInFlight`, `[]NoNonceGap`, `[]CandidateTellsTheTruth` |
| | `Refinement` | one process: `Spec => ImplementsLock`, that is, `RevenueExecution` implements `SubmissionLock` |
| | `DailyLoss` | one process: `Spec => []DailyLossBounded` |
| `DispatcherProofs` | `Delivered`, `Copies`, `Honest`, `Leases` | `Spec => []PublishedIsDelivered`, `[]CopiesBounded`, `[]ReadyIsHonest`, `LeaseHonoured`, any number of replicas |
| `RecorderProofs` | `NothingLost`, `RecorderHonest`, `RecorderTypes` | `Spec => []AckedIsRecorded`, `[]ReadyIsHonest`, `[]TypeOK` |
| `EngineProofs` | `ClassifiedBeforeAck`, `GeneratedIsStored` | `Spec => []RemovedIsClassified`, `[]GeneratedHasCandidate`, any number of overlapping engines |
| | `FinalForever` | `Spec => FinalIsForever` |
| | `SingleDecision` | without autonomous execution: `Spec => DecidedOnce` |
| `RotationProofs` | `RotationInvariance` | `Spec => []RotationInv` |
| | `PreparedBeforeUse`, `OldWorkIsDrained`, `SameIdentity` | `Spec => []NewIsPrepared`, `[]NoOldWork`, `[]OneIdentity` |
| | `NoSecondRotation` | `Spec => RolledBackStays` |

"One process" is the assumption `OneProcess`. It is needed: run `overlap` and the
comparison of one and two processes in `dex` show that the properties fail without it.

**Any number of processes: `IInv`.** `NonceUsedOnce` is not inductive. A rollback lowers
`nextNonce`, so one must know that the nonce given back is the highest taken one, is in
nobody else's hands and never left the process. `IInv` says, for each call of a process,
what it may rely on while others interleave: the claimant of a request finds it claimed,
and before the send its transaction is not on the network, even when another process has
closed the attempt meanwhile (`WorkInv`); no two processes are claimants of one request
(`ClaimantInv`); a nonce on the network or in a claimant's hands is below `nextNonce` and
nobody else's (`NonceInv`); and what the rows satisfy by themselves (`CandidateInv`,
`PhaseInv`, `LockMatchesWork`). One lemma per transaction (`...Rows` in `ExecutorProofs`)
shows that it keeps the row invariants and is `Calm` (touches no nonce, takes no request
back); lemmas about moves of the program counter show what a move needs; one lemma per
group of actions puts them together. Claim, allocation, rollback and broadcast, which are
not calm, are proved directly.

**One process: `OneProcessInv`.** `PlaceInv` says that the process finds its row as it left
it: at each call, the status it read is still the status. It rests on `OneProcess`, and
everything else rests on it. `FlightInv` ties the status of a request to what became of its
transaction; `GapInv` says that the counter is ahead of the chain by at most the nonce of
the request that holds the lock; `TruthInv` adds the one candidate state that `disarm`
rewrites. `FlightProofs` has the lemmas, one per group of actions.

**The refinement.** The second half of `FlightProofs` maps each action to a step of `SubmissionLock` or a
stutter. The mapping reads stage from status, transaction and lock, so the work is in the
actions that change two of them at once (the broadcast, the landing, the release) and in
showing that at most one request changes its stage in a step.

**The daily limit.** `DailyLossBounded` is not inductive either: the check comes before the
send, the booking after the receipt, and midnight and other writers act in between.
`BudgetInv` keeps room for what is open: while a transaction is out or about to be sent and
its fee not booked, the day's commitment plus one worst-case fee fits the limit; likewise
for a bid. That only one of them can be open comes from the lock.

**Dispatcher.** `DispatcherInv` follows each row through publication: a replica is away
from its loop only when it does not report ready; what it is about to mark as published is
in the stream; the copies of a row are bounded by the windows that have passed since the
first.

**Recorder.** `KeptInv` traces every delivery in hand to its sequence number, has the
classified ones on their right side (relevant or filtered), and says that the consumer acknowledges only what it has committed; a message
that has left the stream was acknowledged. `HonestInv` gives each reason for not being
ready its own flag.

**Engine.** `EngineInv` has the shape of the stream, and for each engine `Fit`: what the
engine holds at each position (its batch, the delivery in hand, the evaluation and what it
read before it) is still justified by the tables whatever other engines commit meanwhile.
Tables only grow and final classifications stay, so each conjunct of `Fit` is monotone.
`SingleDecision` excludes autonomous execution, where `candidate_generated` is not final
and an event is evaluated again (section 5).

**Rotation.** The four properties depend on each other through the journal, which outlives
the commands. `ConsumerInv` says at which positions of a cutover or a rollback no consumer
runs, and at which no direct request of the old executor is open any more. `JournalInv` says
that a recorded contract exists, that a verified one still has exactly the planned
configuration (the owner calls that remain are for a contract nobody has verified), that
positions between the start of a cutover and its end are reached only with every gate in the
journal and no rollback, and that a contract shared with the legacy release is not one that
release rolled back from. One lemma per action; the steps that only move the command
(`QuietMove`) or write a field no invariant reads (`NoteInv`) share theirs.

The attempt to prove `RolledBackStays` showed that its first form, which spoke of the
journals of all releases, fails with three releases: one adopts the legacy release's
contract, cuts over and rolls back, which leaves the legacy journal as it was, so the next
may adopt it again. The property now says what the journals that are read guarantee, the
instance in `operations` has three releases, and the difference to the comment of
`recover_existing_provenance` is in section 5 (`AdoptedIsPreCutover`).

TLC confirmed each inductive invariant before it was proved: `IInv`, `OneProcessInv` and
`BudgetInv` on the instances of `dex` (the latter two where one process runs; 496 thousand
states) and `lanes` (318 thousand), `RecorderInv` on 651 thousand, `RotationInv` with
three releases on 2.4 million, `EngineInv` with autonomous execution and one engine, and
without it and two.

Where the theorems meet the runs: `OneKeepsTrack` is the conjunction of three proved
properties for one process; `AckedIsKept`, `RemovedIsClassified` and `DecidedOnce` of
`MCPipeline` consist of properties that `RecorderProofs` and `EngineProofs` prove, and of
`CountsKept` and `CommittedIsNotReevaluated`, which are only checked; `OneExecutor` of
`MCOperations` consists of three properties that `RotationProofs` proves, and
`DecisionsStand` contains the fourth.

Only model-checked:

- liveness (`live`, `progress`, `waiting`): fairness is outside the prover's reach;
- the algorithms, and the loops and traces of gateway and enrichment: what a fold or a walk
  computes for every input needs induction over data, which the installed provers cannot
  do;
- gateway, control, owner commands and fork sandbox: no inductive invariant has been
  worked out for them.
  Their properties hold by what a dozen positions of several actors exclude, as for
  `IInv`, and their instances are the largest of the runs.

## 5. Where the code and its documents disagree

Two have a run of their own and are recorded under `findings`:

1. `overlap`, `OneSubmissionAtATime`. `docs/engineering-notes/global-revenue-submission-lock.md:13`
   says application bugs cannot create two simultaneous submissions. `reconcile_active`
   (`engine.rs:282`) closes an attempt from the status it read at the start of its step, and
   `mark_terminal` accepts any open status: of two overlapping processes, the one that read
   `claimed` closes the attempt after the other has broadcast it, the lock is released, and
   the next claim broadcasts again.
2. `hunter_terminates`, `TerminatesOnlyOnIntegrity`. `postgres_sink.go:488` reserves process
   termination for corruption, identity and integrity failures. The statement at `:605`
   names an alias its FROM clause does not declare, PostgreSQL refuses it every time, and
   the hunter records a provider failure and exits.

The following are stated as definitions in the modules, each after a sentence of the
documents, a comment or a test. TLC found each of them violated on an instance of its
module; the behaviours are short, and the code is not necessarily the wrong side.

| Definition | Code | Document |
|---|---|---|
| `RevenueExecution.ClosingReleasesLock` | `store.rs:992` keeps the lock for `Replaced` and `TimedOut` | `global-revenue-submission-lock.md:66-72` lists both among the states that release it |
| `RevenueExecution.UnpersistedSendIsSeenClaimed` | `engine.rs:297`: the row is `nonce_allocated` after an unpersisted send | `submission-unknown-failure-modes.md:48-50` says `Claimed` |
| `ShadowGateway.ReorgInvalidates` | `runtime.rs:2889`: a resolution that began before the change inserts its old bundle after it | `RPC_BUDGET.md:22` |
| `ShadowGateway.HeadFlightHasLeader` | `runtime.rs:3740`: a timeout drops the leader and leaves its flight | `RPC_BUDGET.md:20` |
| `ShadowGateway.AdmittedSequenceCompletes`, `RetryAfterHonoured` | with the exact lane, paced Aave reads take tokens in between and clear a cooldown (`runtime.rs:3814`, `providers.rs:122`) | `RPC_BUDGET.md:63`, `:97`; both hold without the exact lane (the former in run `gateway`) |
| `ShadowGateway.TraceBoundToBlock` | `runtime.rs:546`: the trace is asked for by hash after the receipt was read | `DEPENDENCIES.md:86` |
| `AaveGateway.LaterVariantsArePaced` | `runtime.rs:3520`: an answered batch carries budget errors for later items | `RPC_BUDGET.md:67` |
| `AaveLiquidation.ExactIsAnswered` | `aave_state.rs:1215`: a worthless variant refuses the whole answer | comment at `runtime.rs:4681` |
| `Recorder.UnrecordedIsReplayed` | `jetstream.rs:23`: `max_deliver` is finite | `RECORDER_DURABLE_DELIVERY.md:46` |
| `ShadowDispatcher.ReplicasNeverShareRow` | `engine_outbox.rs:44`: a lease is not renewed | `ADR-shadow-engine-transactional-outbox.md:109` |
| `EngineRuntime.CommittedIsNotReevaluated` | `engine_input.rs:53`: `candidate_generated` is not final (autonomous execution) | the same ADR, `:105` |
| `EngineRuntime.UnclassifiedIsRedelivered` | `runtime.rs:723`: `max_deliver` is finite | the same ADR, `:103` |
| `EngineRuntime.QuarantinedHasNoCandidate` | `runtime.rs:573` writes a constant | `ENGINE_DEPENDENCY_EXHAUSTION.md:29` |
| `EngineRuntime.ReadyAgain` | `main.rs:562`: a good ping restores only part of what a failed one cleared | `RUNBOOK.md:130` |
| `SourceEnrichment.ResponseEndsEnrichment` | `source_enrichment.rs:328`: the attempt number is read before the gateway is asked | `RPC_BUDGET.md:49` |
| `OwnerBootstrap.PauseHolds` | `owner_bootstrap.rs:759` looks at the mined state only | `AUTOMATED_ECONOMIC_CONTROL.md:160` |
| `ExecutorRotation.UnreconciledIsRolledBack` | `executor_rotation.rs:853`: the rollback makes the check the reconciliation failed | the test at `:1472` |
| `ExecutorRotation.NoOldAtlasWork` | `store.rs:210` selects by `from`, which is the signer | `tests/postgres_nonce_recovery.rs:820` |
| `ExecutorRotation.JournalLoads` | `executor_rotation.rs:240` appends without the limit | `validate_provenance`, `:1139` |
| `ExecutorRotation.AdoptedIsPreCutover` | `phoenix_executor_rotation_main.rs:65` asks the legacy journal only, which a release that adopted the contract does not change | the comment at `executor_rotation.rs:985` |
| `EconomicControl.LedgerHasSize` | `autonomous_live_control_main.rs:1263` logs `MIN` | `AUTOMATED_ECONOMIC_CONTROL.md:56` |
| `EconomicControl.CompensatedIsPaused` | `activate-economic-canary.sh:110` | `AUTOMATED_ECONOMIC_CONTROL.md:160` |
| `EconomicControl.LaneSizeTracks` | `autonomous_live_control_main.rs:1514` | the test at `:6256` |
| `EconomicControl.CooldownEnds` | `store.rs:1819`: `cooldown_until` is never read | `AUTOMATED_ECONOMIC_CONTROL.md:118` |
| `EconomicControl.GoodEvidencePromotes` | `autonomous_live_control_main.rs:3704` counts outcomes of every level | `AUTOMATED_ECONOMIC_CONTROL.md:110` |
| `ProviderAuthority.EvidenceRecovers` | `autonomous_live_control_main.rs:2375` compares microseconds with nanoseconds | `naming-financial-system-states.md:149` |
| `ForkEvidence.PlannedFactsAreAccepted` | `planner.rs:325` wants a rejected fact | `FORK_SANDBOX.md:22` |
| `ForkEvidence.RevertedIsARevert` | `rpc.rs:177`: every error object is a revert | `FORK_SANDBOX.md:34` |
| `PoolSwap.TraversesEveryTick` | `hunter/mod.rs:1588` looks strictly below the tick | `AUTONOMOUS_HUNTER_A1_REVENUE_EVIDENCE.md:63` |
| `RouteGraph.RefusedOnlyOverTheMaximum` | `hunter/mod.rs:662` compares unlike counts | the same document, `:147` |
| `RouteSizing.EvaluationsAreCapped` | `hunter/mod.rs:1291` never reads the cap | the same document, `:147` |

Behaviours no document speaks of, which the models show: a bid whose process dies while it
is `claimed` or `signed` keeps the lock for ever, because `active_request` looks only at
submitted and unknown bids; an attempt whose transaction is mined just after it was found
gone is closed as `replaced`, keeps the lock and books no fee; of several fork results of one
event the newest decides (`autonomous.rs:696`), so that a later run under another threshold
closes a candidate an earlier run had passed; a stale close of the supervisor after a post-arm recovery
counts as a provider closure.

## 6. What is not modelled

- Encoding, decoding, signatures, hashes, HTTP and SQL text: their verdicts are branches.
- Row locks in the revenue path: a transaction is one step there and an aborted one is
  `DatabaseFault`. The order of row locks is the subject of `ControlRows`. Its
  `CommitsOnCurrentRows` leaves out the unlocked reads of
  `preserve_intentionally_closed_provider_readiness`, which decide only a status text.
- The Solidity contract: it runs inside one transaction and is seen as its outcome; its
  profit floor is in `ForkEvidence`, its pause switch and configuration are state of `OwnerBootstrap` and `ExecutorRotation`.
- The feed ingestor but for its publications (`Recorder.Ingest`), migration runner, release controller, observers, dashboard, replay and bots:
  they keep no state the services share, or run before them, or only read (the notes under
  `components` in `PROJECT.json` say which).
- Metrics, logging and configuration parsing.
- Whole-system composition of pipeline, control and executor: they meet in rows whose
  writers each module has as its environment (`RevenueControl` for the executor,
  `ForkEvidence` for approvals).
