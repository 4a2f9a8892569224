----------------------------- MODULE ForkPlanner -----------------------------
(***************************************************************************)
(* UnsignedPlanner::build of fork-sandbox/planner.rs: from one persisted   *)
(* profitability fact and the operator's policy to the unsigned plan the   *)
(* fork runs.  Addresses, hashes and calldata are abstracted: a route is   *)
(* the reviewed one or names what is wrong with it, and two plans have the *)
(* same calldata when their floors and deadlines agree.  Times are half    *)
(* seconds, so that cutting one to seconds loses something.                *)
(***************************************************************************)
EXTENDS Integers, Sequences, SequencesExt

CONSTANTS MaximumInput, SlippageTenths

\* What can be wrong with the path, routers and state hashes of a fact, in the
\* order the planner looks for it, and the error it answers.
RouteChecks ==
    << <<"shape", "InvalidEvidence">>, <<"token", "UnsupportedToken">>,
       <<"pool", "UnsupportedPool">>, <<"router", "UnsupportedRouter">>,
       <<"protocol", "UnsupportedProtocol">>, <<"duplicate", "InvalidEvidence">>,
       <<"state_hash", "MissingStateHash">> >>

\* The last two are found by pool_requests and route_config_hash, after all
\* the other checks.
LateRouteChecks ==
    << <<"pool_request", "InvalidEvidence">>, <<"route_hash", "RouteHashMismatch">> >>

Second(t) == t \div 2

slippage_floor(value) == (value * (10 - SlippageTenths)) \div 10

\* The three verification statuses; then the secondary provider, which must be
\* another one with the same block, route and state.
ProviderChecks(f) ==
    << <<"disagreed" \notin Range(f.statuses), "ProviderDisagreement">>,
       <<Range(f.statuses) = {"agreed"} /\ f.secondary # "none", "MissingVerification">>,
       <<f.secondary = "bound", "ProviderDisagreement">> >>

\* legs is the output of the last leg.
AmountChecks(f, minimum) ==
    << <<f.input > 0 /\ f.input <= MaximumInput, "InputLimit">>,
       <<f.output > f.input /\ f.gross > 0 /\ f.net > 0, "NonPositiveExpectedNetPnl">>,
       <<f.required >= 0, "InvalidEvidence">>,
       <<f.net >= f.required /\ f.net >= minimum, "BelowThreshold">>,
       <<f.legs = f.output, "InvalidEvidence">>,
       <<f.gas > 0 /\ f.price > 0, "InvalidEvidence">> >>

Defects(f, checks) == [i \in DOMAIN checks |-> <<f.route # checks[i][1], checks[i][2]>>]

\* validate_fact: pairs of a condition and the error of its failure.
validate_fact(f, minimum, now) ==
    << <<f.chain, "WrongChain">>,
       <<f.disposition = "rejected" /\ f.reason = "contract_path_unavailable" /\ f.complete,
         "InvalidEvidence">> >>
    \o ProviderChecks(f)
    \o << <<f.expires > now /\ f.expires > f.detected, "StaleOpportunity">> >>
    \o Defects(f, RouteChecks)
    \o AmountChecks(f, minimum)

Checks(f, minimum, now) ==
    validate_fact(f, minimum, now)
    \o Defects(f, LateRouteChecks)
    \o << <<slippage_floor(f.output) > 0, "InvalidEvidence">> >>

Failed(f, minimum, now) ==
    LET c == Checks(f, minimum, now) IN {i \in DOMAIN c : ~c[i][1]}

\* The error build answers, "none" when there is a plan.
PlanError(f, minimum, now) ==
    LET bad == Failed(f, minimum, now)
    IN  IF bad = {} THEN "none"
        ELSE Checks(f, minimum, now)[CHOOSE i \in bad : \A j \in bad : i <= j][2]

\* The plan of a fact under a policy.  Nothing else enters it, so that a second
\* run of the same decision and policy has the same plan_hash.
Plan(f, minimum) ==
    LET net == IF minimum > f.required THEN minimum ELSE f.required
    IN  [minimum_net |-> net, minimum_profit |-> f.price * f.gas + net,
         minimum_output |-> slippage_floor(f.output),
         deadline |-> Second(f.expires), gas |-> f.gas, price |-> f.price,
         predicted |-> f.net]

=============================================================================
