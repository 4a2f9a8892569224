---------------------------- MODULE ForkEvidence ----------------------------
(***************************************************************************)
(* Fork evidence from the sandbox to an execution request.  Three programs *)
(* meet in fork_simulation_results: the sandbox (fork-sandbox: planner,    *)
(* runner, store), the operator's approve-execution-request (approval.rs)  *)
(* and the materializer of the executor (autonomous.rs), which takes the   *)
(* candidates of the engine and looks for the newest result of their event.*)
(* The chain behind the fork is the contract's answer to one call: the     *)
(* profit it settles and the gas it takes.                                 *)
(***************************************************************************)
EXTENDS ForkPlanner, FiniteSets

CONSTANTS
    Event,          \* opportunities: a persisted fact and a candidate each
    Facts,          \* what a persisted fact can be
    Policies,       \* FORK_MINIMUM_NET_PNL of the operator's runs
    Forks,          \* what an Anvil instance can be
    Fees,           \* gas_limit * max_fee_per_gas of a quote
    Retained,       \* minimum_retained_profit of the route policy
    MaximumLoss,    \* per_transaction_maximum_loss
    EvidenceSlack,  \* evidence may be this much older than the candidate
    ApprovalTtl,    \* approval_ttl_seconds
    MaximumGas,     \* MAX_SIMULATION_GAS
    MaxTime, MaxRuns, MaxFaults

VARIABLES
    clock, facts,
    run,            \* the sandbox: pc and locals of its one run
    runs,           \* runs started
    rows,           \* fork_simulation_results
    cand, created,  \* autonomous_candidates
    mat,            \* the materializer: pc and locals of its step
    armed,          \* the live controls, all tables together
    requests,       \* execution_requests
    faults

runVars == <<run, runs>>
candVars == <<cand, created>>
vars == <<clock, facts, run, runs, rows, cand, created, mat, armed, requests, faults>>

Undecided == {"materialized", "approval_pending", "approved"}

NoRun == [pc |-> "idle"]
NoStep == [pc |-> "idle"]

PlanOf(e, minimum) == Plan(facts[e], minimum)

Init ==
    /\ clock = 0
    /\ facts \in [Event -> Facts]
    /\ run = NoRun /\ runs = 0
    /\ rows = {}
    /\ cand = [e \in Event |-> "none"] /\ created = [e \in Event |-> 0]
    /\ mat = NoStep
    /\ armed \in BOOLEAN
    /\ requests = {}
    /\ faults = 0

-----------------------------------------------------------------------------
(* The sandbox: main.rs runs one decision and exits.                       *)

\* load_opportunity, one reading of the clock, build, validate_plan_boundary.
Start(e, minimum, fork) ==
    /\ run.pc = "idle" /\ runs < MaxRuns
    /\ runs' = runs + 1
    /\ run' = IF \/ PlanError(facts[e], minimum, clock) # "none"
                 \/ Second(clock) >= PlanOf(e, minimum).deadline
              THEN NoRun
              ELSE [pc |-> "attach", event |-> e, policy |-> minimum, at |-> clock,
                    fork |-> fork]
    /\ UNCHANGED <<clock, facts, rows, candVars, mat, armed, requests, faults>>

sandboxOnly == <<clock, facts, runs, rows, candVars, mat, armed, requests>>

\* metadata, latest_block, code and observe_pool: nothing is called unless the
\* fork is the pinned block with the reviewed code and the plan's pool states.
Attach ==
    /\ run.pc = "attach"
    /\ run' = IF run.fork.attached = "pinned" THEN [run EXCEPT !.pc = "estimate"] ELSE NoRun
    /\ UNCHANGED <<sandboxOnly, faults>>

\* PhoenixExecutor on the fork.  It settles when the profit reaches the floor in
\* the calldata and the gas is enough, and reverts otherwise.  The time it compares
\* with the deadline is that of the pinned block, which is before the detection.
Settles(gas) ==
    /\ run.fork.profit >= PlanOf(run.event, run.policy).minimum_profit
    /\ run.fork.gas <= gas

Smaller(a, b) == IF a < b THEN a ELSE b

Outcome(status, estimate, gross, gas) ==
    LET plan == PlanOf(run.event, run.policy)
        net  == gross - plan.price * gas
    IN  [pc |-> "persist", event |-> run.event, policy |-> run.policy, at |-> run.at,
         fork |-> run.fork, status |-> status, estimate |-> estimate, gross |-> gross,
         gas |-> gas, net |-> IF status = "passed" THEN net ELSE 0,
         error |-> IF status = "passed" THEN net - plan.predicted ELSE 0]

reverted_result(estimate) == Outcome("reverted", estimate, 0, 0)

\* estimate_gas under twice the planned gas.  An estimate is what the call
\* takes or a little more; zero and one above the maximum are refused.
Estimate ==
    /\ run.pc = "estimate"
    /\ LET limit == Smaller(2 * PlanOf(run.event, run.policy).gas, MaximumGas)
       IN  IF ~Settles(limit)
           THEN run' = reverted_result(0)
           ELSE \E estimate \in {0, run.fork.gas, run.fork.gas + 1} :
                  run' = IF estimate = 0 \/ estimate > MaximumGas THEN NoRun
                         ELSE [run EXCEPT !.pc = "call"] @@ [estimate |-> estimate]
    /\ UNCHANGED <<sandboxOnly, faults>>

Call ==
    /\ run.pc = "call"
    /\ run' = IF Settles(run.estimate) THEN [run EXCEPT !.pc = "trace"]
              ELSE reverted_result(run.estimate)
    /\ UNCHANGED <<sandboxOnly, faults>>

\* trace_call, the gas it used, and decode_settlement: one settlement of the plan's
\* route.
Trace ==
    /\ run.pc = "trace"
    /\ run' = IF ~Settles(run.estimate) THEN reverted_result(run.estimate)
              ELSE IF run.fork.gas = 0 \/ run.fork.gas > run.estimate THEN NoRun
              ELSE Outcome("passed", run.estimate, run.fork.profit, run.fork.gas)
    /\ UNCHANGED <<sandboxOnly, faults>>

RowOf == [event |-> run.event, policy |-> run.policy, at |-> run.at, status |-> run.status,
          estimate |-> run.estimate, gross |-> run.gross, gas |-> run.gas, net |-> run.net,
          error |-> run.error, fork |-> run.fork]

SamePlan(r, s) == r.event = s.event /\ r.policy = s.policy

\* plan_hash is unique: a second result of a plan is refused.
persist_result ==
    /\ run.pc = "persist"
    /\ rows' = IF \E r \in rows : SamePlan(r, RowOf) THEN rows ELSE rows \cup {RowOf}
    /\ run' = NoRun
    /\ UNCHANGED <<clock, facts, runs, candVars, mat, armed, requests, faults>>

\* A transport error, a timeout or a database error ends the run.
RunFails ==
    /\ run.pc # "idle" /\ faults < MaxFaults
    /\ faults' = faults + 1
    /\ run' = NoRun
    /\ UNCHANGED sandboxOnly

\* HttpForkRpc::request makes any JSON-RPC error a Reverted, whatever the node
\* failed at: an error of the upstream endpoint behind the fork included.
ErrorAnswer ==
    /\ run.pc \in {"attach", "estimate", "call", "trace"} /\ faults < MaxFaults
    /\ faults' = faults + 1
    /\ run' = CASE run.pc = "attach"   -> NoRun
                [] run.pc = "estimate" -> reverted_result(0)
                [] OTHER               -> reverted_result(run.estimate)
    /\ UNCHANGED sandboxOnly

SandboxStep == Attach \/ Estimate \/ Call \/ Trace \/ persist_result

-----------------------------------------------------------------------------
(* approve-execution-request: the operator approves one stored result.     *)

requestOnly == <<clock, facts, runVars, rows, candVars, mat, armed, faults>>

Backed(r) == {q \in requests : SamePlan(q, r)}

\* Mutant: only the net profit is compared with the floor.
build_request_NetOnly(r) ==
    LET plan == PlanOf(r.event, r.policy)
    IN  /\ r.status = "passed" /\ r.at <= clock
        /\ r.net > 0 /\ r.gross > 0
        /\ r.net >= plan.minimum_net
        /\ Smaller(2 * (Second(clock) + ApprovalTtl), 2 * plan.deadline) > clock

\* What build_request asks of a stored result.  The request runs with the
\* planned gas, so that the estimate must be within it.
build_request(r) ==
    LET plan == PlanOf(r.event, r.policy)
    IN  /\ r.status = "passed" /\ r.at <= clock
        /\ r.net > 0 /\ r.gross > 0
        /\ r.net >= plan.minimum_net /\ r.gross >= plan.minimum_profit
        /\ r.estimate > 0 /\ r.estimate <= plan.gas
        /\ r.gas > 0 /\ r.gas <= r.estimate
        /\ Smaller(2 * (Second(clock) + ApprovalTtl), 2 * plan.deadline) > clock

\* materialize, under closed controls.  A repetition finds its request and
\* changes nothing; opportunity_id, here the decision, is unique.
Approve(r) ==
    /\ ~armed
    /\ build_request(r)
    /\ Backed(r) = {}
    /\ \A q \in requests : q.by = "operator" => q.event # r.event
    /\ LET plan == PlanOf(r.event, r.policy)
       IN  requests' = requests \cup
            {[event |-> r.event, policy |-> r.policy, by |-> "operator", at |-> clock,
              evidence |-> r, fee |-> plan.gas * plan.price,
              floor |-> plan.minimum_profit]}
    /\ UNCHANGED requestOnly

-----------------------------------------------------------------------------
(* The engine's candidates, and AutonomousMaterializer::step.              *)

\* A candidate of the engine: hunter/mod.rs gives it whole seconds.
CandidateExpiry(e) == 2 * Second(facts[e].expires)

\* The floor in the calldata of the candidate: retained profit and the gas
\* reserve of its plan.
CandidateFloor(e) == Retained + facts[e].gas * facts[e].price

InsertCandidate(e) ==
    /\ cand[e] = "none"
    /\ clock < CandidateExpiry(e)
    /\ cand' = [cand EXCEPT ![e] = "materialized"]
    /\ created' = [created EXCEPT ![e] = 2 * Second(clock)]
    /\ UNCHANGED <<clock, facts, runVars, rows, mat, armed, requests, faults>>

\* canonical_time: the step works with the second it began in.
StepTime == 2 * Second(clock)

expire_candidates(now) ==
    [e \in Event |-> IF cand[e] \in Undecided /\ CandidateExpiry(e) <= now
                      THEN "expired" ELSE cand[e]]

\* claim_candidate: the oldest candidate, whatever happened to it before.
Claim ==
    /\ mat.pc = "idle"
    /\ LET kept == expire_candidates(StepTime)
           open == {e \in Event : kept[e] \in {"materialized", "approval_pending"}
                                  /\ CandidateExpiry(e) > StepTime}
       IN  IF open = {} THEN cand' = kept /\ mat' = NoStep
           ELSE \E e \in open :
                  /\ \A d \in open : created[e] <= created[d]
                  /\ cand' = [kept EXCEPT ![e] = "approval_pending"]
                  /\ mat' = [pc |-> "quote", event |-> e, now |-> StepTime]
    /\ cand' # cand \/ mat' # mat
    /\ UNCHANGED <<clock, facts, runVars, rows, created, armed, requests, faults>>

matOnly == <<clock, facts, runVars, rows, created>>

reject(e, to) == [cand EXCEPT ![e] = IF @ \in {"materialized", "approval_pending"} THEN to ELSE @]

\* quote_transaction, and finalize_candidate up to its transaction: the checks
\* of the quote against the policy.  A failed quote leaves the candidate to
\* the next step.
Quote ==
    /\ mat.pc = "quote"
    /\ \/ \E fee \in Fees :
            LET e    == mat.event
                cost == facts[e].premium + fee + fee \div 10
                net  == facts[e].gross - cost
            IN  IF fee > MaximumLoss
                THEN cand' = reject(e, "rejected_policy") /\ mat' = NoStep
                ELSE IF net <= Retained
                THEN cand' = reject(e, "rejected_economics") /\ mat' = NoStep
                ELSE /\ mat' = [mat EXCEPT !.pc = "finalize"] @@ [fee |-> fee]
                     /\ UNCHANGED cand
       \/ cand' = reject(mat.event, "rejected_state") /\ mat' = NoStep
       \/ UNCHANGED cand /\ mat' = NoStep
    /\ UNCHANGED <<matOnly, armed, requests, faults>>

binding_matches(e, r, now) ==
    /\ PlanOf(e, r.policy).minimum_profit = CandidateFloor(e)
    /\ PlanOf(e, r.policy).deadline = Second(CandidateExpiry(e))
    /\ r.at <= now /\ r.at >= created[e] - EvidenceSlack

Magnitude(n) == IF n < 0 THEN -n ELSE n

validate_bound_fork_evidence(e, r, now) ==
    IF ~binding_matches(e, r, now) THEN "fork_evidence_binding"
    ELSE IF r.status # "passed" THEN "fork_reverted"
    ELSE IF r.net <= Retained THEN "fork_net_below_floor"
    ELSE IF Magnitude(r.error) > Magnitude(facts[e].net) \div 10 THEN "fork_prediction_error"
    ELSE "passed"

\* Mutant: the first result of the event is taken.
Newest_First(e) ==
    {r \in rows : r.event = e /\ \A s \in rows : s.event = e => s.at >= r.at}

\* The row load_bound_fork_evidence takes: the newest of the event, route,
\* input and block, whatever policy it was planned under.
Newest(e) ==
    {r \in rows : r.event = e /\ \A s \in rows : s.event = e => s.at <= r.at}

\* Another request already stands on the result: the unique index of
\* simulation_result_hash makes the insertion an integrity error, and the
\* executor disarms and exits.
Conflict(r) == Backed(r) # {}

Disarmed == [e \in Event |-> IF cand[e] \in {"materialized", "approval_pending", "request_materialized"}
                             THEN "disarmed" ELSE cand[e]]

Materialize(e, r) ==
    /\ requests' = requests \cup
         {[event |-> e, policy |-> r.policy, by |-> "autonomous", at |-> mat.now,
           evidence |-> r, fee |-> mat.fee, floor |-> CandidateFloor(e)]}
    /\ cand' = [cand EXCEPT ![e] = "request_materialized"]
    /\ mat' = NoStep
    /\ UNCHANGED armed

\* The losses of the route have reached a limit: the transaction disarms the route
\* and the economic control, and the candidate is rejected after it.
RouteLossLimit ==
    /\ armed' = FALSE
    /\ mat' = [mat EXCEPT !.pc = "reject"]
    /\ UNCHANGED <<cand, requests>>

\* The transaction of finalize_candidate.  load_controls answers Policy under
\* closed controls: the candidate stays claimed and is tried again.
WithEvidence(e, r) ==
    LET verdict == validate_bound_fork_evidence(e, r, mat.now)
    IN  \/ /\ verdict # "passed"
           /\ cand' = [cand EXCEPT ![e] = "simulation_mismatch"]
           /\ mat' = NoStep
           /\ UNCHANGED <<armed, requests>>
        \/ /\ verdict = "passed" /\ ~armed
           /\ mat' = NoStep
           /\ UNCHANGED <<cand, armed, requests>>
        \/ /\ verdict = "passed" /\ armed
           /\ cand' = reject(e, "rejected_policy")
           /\ mat' = NoStep
           /\ UNCHANGED <<armed, requests>>
        \/ /\ verdict = "passed" /\ armed
           /\ RouteLossLimit
        \/ /\ verdict = "passed" /\ armed /\ ~Conflict(r)
           /\ Materialize(e, r)
        \/ /\ verdict = "passed" /\ armed /\ Conflict(r)
           /\ cand' = Disarmed
           /\ armed' = FALSE
           /\ mat' = [pc |-> "exited"]
           /\ UNCHANGED requests

FinalizeCandidate ==
    /\ mat.pc = "finalize"
    /\ LET e == mat.event
       IN  \/ /\ cand[e] # "approval_pending"
              /\ mat' = NoStep
              /\ UNCHANGED <<cand, armed, requests>>
           \/ /\ cand[e] = "approval_pending" /\ Newest(e) = {}
              /\ cand' = [cand EXCEPT ![e] = "materialized"]
              /\ mat' = NoStep
              /\ UNCHANGED <<armed, requests>>
           \/ /\ cand[e] = "approval_pending"
              /\ \E r \in Newest(e) : WithEvidence(e, r)
    /\ UNCHANGED <<matOnly, faults>>

RejectCandidate ==
    /\ mat.pc = "reject"
    /\ cand' = reject(mat.event, "rejected_policy")
    /\ mat' = NoStep
    /\ UNCHANGED <<matOnly, armed, requests, faults>>

Finalize == FinalizeCandidate \/ RejectCandidate

MaterializerStep == Claim \/ Quote \/ Finalize

\* The executor dies, or its container is started again.
Crash ==
    /\ mat.pc \in {"quote", "finalize", "reject"} /\ faults < MaxFaults
    /\ faults' = faults + 1
    /\ mat' = [pc |-> "exited"]
    /\ UNCHANGED <<matOnly, cand, armed, requests>>

Restart ==
    /\ mat.pc = "exited"
    /\ mat' = NoStep
    /\ UNCHANGED <<matOnly, cand, armed, requests, faults>>

\* The operator arms and disarms; disarming closes the open candidates.
Arm ==
    /\ ~armed
    /\ armed' = TRUE
    /\ UNCHANGED <<matOnly, cand, mat, requests, faults>>

Disarm ==
    /\ armed
    /\ armed' = FALSE
    /\ cand' = Disarmed
    /\ UNCHANGED <<matOnly, mat, requests, faults>>

Tick ==
    /\ clock < MaxTime
    /\ clock' = clock + 1
    /\ UNCHANGED <<facts, runVars, rows, candVars, mat, armed, requests, faults>>

Next ==
    \/ \E e \in Event, p \in Policies, f \in Forks : Start(e, p, f)
    \/ SandboxStep \/ RunFails \/ ErrorAnswer
    \/ \E r \in rows : Approve(r)
    \/ \E e \in Event : InsertCandidate(e)
    \/ MaterializerStep \/ Crash \/ Restart
    \/ Arm \/ Disarm \/ Tick

Spec == Init /\ [][Next]_vars

\* Time passes, the executor's loop goes on and its container is restarted.
FairSpec ==
    Spec /\ WF_vars(Tick) /\ WF_vars(Claim) /\ WF_vars(Quote) /\ WF_vars(Finalize)
         /\ WF_vars(Restart)

-----------------------------------------------------------------------------
(* What the evidence is worth.                                             *)

TypeOK ==
    /\ clock \in 0..MaxTime /\ runs \in 0..MaxRuns /\ faults \in 0..MaxFaults
    /\ run.pc \in {"idle", "attach", "estimate", "call", "trace", "persist"}
    /\ mat.pc \in {"idle", "quote", "finalize", "reject", "exited"}
    /\ \A e \in Event : cand[e] \in Undecided \cup
          {"none", "expired", "disarmed", "rejected_policy", "rejected_economics",
           "rejected_state", "simulation_mismatch", "request_materialized"}
    /\ \A r \in rows : r.status \in {"passed", "reverted"}

\* A stored result stays as it was first written: a later run of the same
\* decision under the same policy has the same plan_hash, and persist_result
\* neither replaces the row nor adds another.
ResultsStay == rows \subseteq rows' /\ \A r, s \in rows' : SamePlan(r, s) => r = s
ResultsAreFinal == [][ResultsStay]_vars

\* Every stored result, passed or reverted, was simulated before its deadline on
\* a fork of the pinned block with the reviewed code and the plan's pool states,
\* from a fact on which two distinct providers agree.
EvidenceIsGrounded ==
    \A r \in rows :
        /\ r.fork.attached = "pinned"
        /\ Range(facts[r.event].statuses) = {"agreed"}
        /\ facts[r.event].secondary = "bound"
        /\ Second(r.at) < PlanOf(r.event, r.policy).deadline

\* A passed simulation that stays within the planned gas nets at least the
\* persisted and the operator's threshold: the calldata floor build computes
\* covers both, and the contract enforces it before gas is paid.
PassedCoversTheThresholds ==
    \A r \in rows :
        r.status = "passed" /\ r.gas <= facts[r.event].gas
        => r.net >= facts[r.event].required /\ r.net >= r.policy

\* What the operator approves keeps its profit even when the transaction uses
\* the whole gas limit of the request, and that limit is enough for the call
\* that was simulated.
OperatorRequestsCoverTheirGas ==
    \A q \in requests : q.by = "operator" =>
        /\ q.evidence.gross - q.fee >= facts[q.event].required
        /\ q.evidence.gross - q.fee >= q.policy
        /\ q.evidence.estimate * facts[q.event].price <= q.fee

\* The calldata of an autonomous request is the calldata that was simulated: on
\* the pinned state it settles at the floor of the request, and the simulation
\* was made no earlier than the slack before the candidate.
AutonomousRequestsWereSimulated ==
    \A q \in requests : q.by = "autonomous" =>
        /\ q.evidence.status = "passed"
        /\ q.evidence.fork.profit >= q.floor
        /\ q.evidence.at >= created[q.event] - EvidenceSlack
        /\ Magnitude(q.evidence.error) * 10 <= facts[q.event].net

\* A result backs one request, whether the operator or the executor made it.
OneRequestPerResult == \A q, s \in requests : SamePlan(q, s) => q = s

Good(e, r, now) ==
    /\ r.status = "passed" /\ r.at < now
    /\ r.at >= created[e] - EvidenceSlack
    /\ PlanOf(e, r.policy).minimum_profit = CandidateFloor(e)
    /\ r.net > Retained /\ r.net = facts[e].net

\* The newest result of an event decides: a candidate is not refused over its
\* evidence while that result is a good one made before the second the step began
\* in, whatever an earlier run under another threshold left behind.
NoGoodEvidenceRefused ==
    \A e \in Event :
        /\ mat.pc = "finalize" /\ mat.event = e
        /\ \E r \in rows : /\ Good(e, r, mat.now)
                           /\ \A s \in rows \ {r} : s.event = e => s.at < r.at
        => cand'[e] # "simulation_mismatch"
GoodEvidenceIsNotRefused == [][NoGoodEvidenceRefused]_vars

\* Every candidate is decided: it becomes a request, is refused, or expires,
\* also when its evidence never comes, the quote fails, or the executor dies.
CandidatesEnd == \A e \in Event : cand[e] \in Undecided ~> cand[e] \notin Undecided

\* docs/FORK_SANDBOX.md of the planner: "accepted disposition".
PlannedFactsAreAccepted == \A r \in rows : facts[r.event].disposition = "accepted"

\* rpc.rs names the error "fork simulation reverted": a result is stored as
\* reverted when the call reverts on the fork.
RevertedIsARevert ==
    \A r \in rows : r.status = "reverted" =>
        \/ r.fork.profit < PlanOf(r.event, r.policy).minimum_profit
        \/ r.fork.gas > 2 * facts[r.event].gas

=============================================================================
