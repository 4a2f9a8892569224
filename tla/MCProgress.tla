----------------------------- MODULE MCProgress -----------------------------
(* What must happen in the end, on one small instance of every component     *)
(* that promises it.  `at` is the instance a behaviour belongs to; the others *)
(* rest in an initial state.                                                  *)
EXTENDS Naturals

CONSTANTS e1, d1, r1, g1, a, none

VARIABLES
    at,
    feed, rec, ingress, flush, ready, raw, outbox, daily, stops,
    rows, published, disp, windows,
    stream, cls, attempts, decisions, cands, head, eng, termed, unfit, pings,
    conf, paused, mempool, done, cmd, told, others,
    econ, global, route, lanes, ledger, auth, fresh, activations, emitted, transitions, consumed, col, run,
    contractPaused, running, job, results, losing, day, jobs,
    now, row, armed, prov, ownerPaused, mem, up, batch, late, sup, closer,
    clock, facts, sandbox, evidence, cand, created, mat, dexArmed, executions,
    faults, crashes, expiries, ops, runs

recorderVars == <<feed, rec, ingress, flush, ready, raw, outbox, daily, stops>>
dispatcherVars == <<rows, published, disp, windows>>
engineVars == <<stream, cls, attempts, decisions, cands, head, eng, termed, unfit, pings>>
ownerVars == <<conf, paused, mempool, done, cmd, told, others>>
economyVars ==
    <<econ, global, route, lanes, ledger, auth, fresh, activations, emitted, transitions, consumed, col, run,
      contractPaused, running, job, results, losing, day, jobs>>
providerVars == <<now, row, armed, prov, ownerPaused, mem, up, batch, late, sup, closer>>
forkVars == <<clock, facts, sandbox, evidence, cand, created, mat, dexArmed, executions>>
vars == <<at, recorderVars, dispatcherVars, engineVars, ownerVars, economyVars, providerVars, forkVars,
          faults, crashes, expiries, ops, runs>>

-----------------------------------------------------------------------------
(* The instances. *)

Recorder == INSTANCE Recorder WITH
    Event <- {e1}, Kind <- [e \in {e1} |-> "relevant"], Batch <- 2, MaxDeliver <- 3, AckThreshold <- 1,
    MaxKeys <- 1, SampleLimit <- 1, MaxCopies <- 1, MaxFaults <- 1, MaxCrashes <- 1, MaxExpiries <- 0,
    MaxStops <- 1, NewRow <- "pending"

Dispatcher == INSTANCE ShadowDispatcher WITH
    outbox <- rows, stream <- published, Dispatcher <- {d1}, Row <- {r1}, NoOwner <- none,
    ClaimBatch <- 2, MaxFaults <- 2, MaxCrashes <- 1, MaxExpiries <- 1, MaxWindows <- 1

Engine == INSTANCE EngineRuntime WITH
    Engine <- {g1}, Event <- {e1}, Kind <- [e \in {e1} |-> "route"], Route <- {a}, Autonomous <- FALSE,
    Batch <- 1, MaxDeliver <- 4, MaxBlock <- 1, MaxCopies <- 1, MaxFaults <- 1, MaxUnfit <- 0,
    MaxPings <- 0, MaxCrashes <- 1, MaxExpiries <- 0

Owner == INSTANCE OwnerBootstrap WITH
    pool <- mempool, run <- cmd,
    Routers <- <<"router1">>, MaxRuns <- 1, MaxFaults <- 1, MaxOther <- 1, MaxCrashes <- 0

Economy == INSTANCE EconomicControl WITH
    cands <- activations, outbox <- transitions, paused <- contractPaused,
    Route <- {r1}, DefaultRoute <- r1, Top <- 3, MinOutcomes <- 1, RouteLimit <- 2, DailyLimit <- 2,
    Streak <- 2, Commands <- {"disarm", "arm"}, MaxCands <- 1, MaxJobs <- 0, MaxOps <- 1, MaxFaults <- 1

Authority == INSTANCE ProviderAuthority WITH
    econ <- row, paused <- ownerPaused,
    Classes <- {"provider_timeout"}, Fractions <- {0}, Gaps <- {FALSE}, Health <- {TRUE},
    Faults <- {"provider"}, MaxBatch <- 1, MaxTime <- 6, MaxFaults <- 2, MaxOps <- 0

Sound == [chain |-> TRUE, disposition |-> "rejected", reason |-> "contract_path_unavailable",
          complete |-> TRUE, statuses |-> <<"agreed", "agreed", "agreed">>,
          secondary |-> "bound", expires |-> 3, route |-> "reviewed",
          input |-> 1, output |-> 9, gross |-> 8, premium |-> 0, net |-> 3,
          required |-> 1, legs |-> 9, detected |-> 0, gas |-> 3, price |-> 1]

Fork == INSTANCE ForkEvidence WITH
    run <- sandbox, rows <- evidence, armed <- dexArmed, requests <- executions,
    Event <- {e1}, Facts <- {Sound}, Policies <- {2}, Forks <- {[attached |-> "pinned", profit |-> 6, gas |-> 3]},
    Fees <- {2}, Retained <- 2, MaximumLoss <- 5, EvidenceSlack <- 1, ApprovalTtl <- 2, MaximumGas <- 6,
    MaximumInput <- 2, SlippageTenths <- 1, MaxTime <- 3, MaxRuns <- 1, MaxFaults <- 1

-----------------------------------------------------------------------------

Init ==
    /\ at \in {"recorder", "dispatcher", "engine", "owner", "economy", "provider", "fork"}
    /\ Recorder!Init /\ Dispatcher!Init /\ Engine!Init /\ Owner!Init /\ Economy!Init
    /\ Authority!Init /\ ownerPaused = (at # "provider")
    /\ Fork!Init /\ (at # "fork" => dexArmed)

\* A step of the component a behaviour belongs to.
Step(c, A) ==
    /\ at = c /\ A
    /\ UNCHANGED at
    /\ c # "recorder" => UNCHANGED recorderVars
    /\ c # "dispatcher" => UNCHANGED dispatcherVars
    /\ c # "engine" => UNCHANGED engineVars
    /\ c # "owner" => UNCHANGED ownerVars
    /\ c # "economy" => UNCHANGED economyVars
    /\ c # "provider" => UNCHANGED providerVars
    /\ c # "fork" => UNCHANGED forkVars
    /\ c \notin {"recorder", "dispatcher", "engine", "owner"} => UNCHANGED crashes
    /\ c \notin {"recorder", "dispatcher", "engine"} => UNCHANGED expiries
    /\ c \notin {"economy", "provider"} => UNCHANGED ops
    /\ c \notin {"owner", "fork"} => UNCHANGED runs

Next ==
    \/ Step("recorder", Recorder!Next) \/ Step("dispatcher", Dispatcher!Next) \/ Step("engine", Engine!Next)
    \/ Step("owner", Owner!Next) \/ Step("economy", Economy!Next) \/ Step("provider", Authority!Next)
    \/ Step("fork", Fork!Next)

(* The fairness of the components' own specifications.  As a behaviour belongs *)
(* to one instance, the conditions of all of them are stated together: of the  *)
(* actions with one index, at most one can ever be enabled in a behaviour.     *)

PipelineRuns(i) ==
    \/ i = 1 /\ Step("recorder", Recorder!ConsumerStep)
    \/ i = 2 /\ Step("recorder", Recorder!FlushTake \/ Recorder!FlushWrite)
    \/ i = 3 /\ Step("recorder", \E q \in DOMAIN feed.msg : q \notin Recorder!Held /\ Recorder!AckWaitPasses(q))
    \/ i = 1 /\ Step("dispatcher", Dispatcher!Steps(d1))
    \/ i = 2 /\ Step("dispatcher", Dispatcher!LeaseExpires(r1))
    \/ i = 3 /\ Step("dispatcher", Dispatcher!BecomesDue(r1))
    \/ i = 1 /\ Step("engine", Engine!Run(g1))
    \/ i = 2 /\ Step("engine", Engine!monitor_database(g1) /\ UNCHANGED pings)
    \/ i = 3 /\ Step("engine", Engine!monitor_rpc_gateway(g1) /\ UNCHANGED pings)
    \/ i = 4 /\ Step("engine", Engine!Arrive(e1))
    \/ i \in {5, 6} /\ Step("engine", i - 4 \in DOMAIN stream.msg /\ Engine!AckWaitPasses(i - 4))

ControlRuns(i) ==
    \/ i = 1 /\ Step("owner", Owner!Step)
    \/ i = 1 /\ Step("economy", Economy!Evaluate)
    \/ i = 2 /\ Step("economy", Economy!RunnerStep)
    \/ i = 3 /\ Step("economy", Economy!Expire)
    \/ i = 1 /\ Step("provider", Authority!Supervise)
    \/ i = 2 /\ Step("provider", Authority!RecordAaveSignal \/ Authority!screened)
    \/ i = 3 /\ Step("provider", Authority!ResetProviderRecoveryEvidence)
    \/ i = 4 /\ Step("provider", Authority!DegradedLong)
    \/ i \in 5..8 /\ Step("provider", Authority!CommitFailure(i - 2))
    \/ i = 1 /\ Step("fork", Fork!Tick)
    \/ i = 2 /\ Step("fork", Fork!Claim)
    \/ i = 3 /\ Step("fork", Fork!Quote)
    \/ i = 4 /\ Step("fork", Fork!Finalize)
    \/ i = 5 /\ Step("fork", Fork!Restart)

Fairness ==
    /\ SF_vars(Step("engine", Engine!Fetches(g1)))
    /\ \A i \in 1..8 : WF_vars(PipelineRuns(i) \/ ControlRuns(i))

FairSpec == Init /\ [][Next]_vars /\ Fairness

-----------------------------------------------------------------------------
(* What is checked: the liveness properties of the component modules, those   *)
(* of one kind together.                                                      *)

Undelivered ==
    \/ at = "recorder" /\ e1 \in feed.ever /\ e1 \notin DOMAIN outbox
    \/ at = "dispatcher" /\ ~rows[r1].pub
    \/ at = "engine" /\ e1 \in stream.ever /\ ~Engine!is_final(cls[e1])

\* A relevant input that reached the feed is recorded, a row of the outbox is
\* published and an event that arrived at the engine gets its final
\* classification, whatever crashes, faults and redeliveries come between.
DeliveredInTheEnd == Undelivered ~> ~Undelivered

Unfinished ==
    \/ at = "owner" /\ cmd.pc # "idle"
    \/ at = "economy" /\ run.pc # "idle"
    \/ at = "fork" /\ cand[e1] \in Fork!Undecided

Overdue ==
    \/ at = "economy" /\ Economy!IsLive /\ auth.expired
    \/ at = "provider" /\ (Authority!LastingFailure \/ Authority!EvidenceComplete)

\* An owner command, a run of the activation runner and a candidate of the fork
\* sandbox come to their end, whatever fails, is lost or is killed on the way;
\* an expired authorization disarms, a provider failure that lasts closes the
\* lanes, and complete evidence after it opens them again.
FinishedInTheEnd == (Unfinished ~> ~Unfinished) /\ (Overdue ~> ~Overdue)
=============================================================================
