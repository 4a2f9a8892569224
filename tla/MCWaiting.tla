----------------------------- MODULE MCWaiting ------------------------------
(* Those who wait for each other, on small instances: the requests in the   *)
(* gateway's two paths and the transactions over the control rows.  `at` is  *)
(* the instance a behaviour belongs to; the others rest in an initial state.  *)
EXTENDS Naturals

CONSTANTS p1, p2, q1, q2, None

VARIABLES
    at,
    view, tokens, requests, pool, limited, verified, static, routeCache, verifyCache, hunterCache,
    head, headFlight, flight, opLock, healthy, req, delivered, reorgs, timeouts, ticks,
    branch, final, budget, current, held, cache, call, cursor, first, fetched, forks,
    tr, owner, stage, closed, cause,
    faults

shadowVars ==
    <<view, tokens, requests, pool, limited, verified, static, routeCache, verifyCache, hunterCache,
      head, headFlight, flight, opLock, healthy, req, delivered, reorgs, timeouts, ticks>>
aaveVars == <<branch, final, budget, current, held, cache, call, cursor, first, fetched, forks>>
rowsVars == <<tr, owner, stage, closed, cause>>
vars == <<at, shadowVars, aaveVars, rowsVars, faults>>

-----------------------------------------------------------------------------
(* The instances. *)

Shadow == INSTANCE ShadowGateway WITH
    Provider <- {p1, p2}, Weight <- [p \in {p1, p2} |-> IF p = p1 THEN 2 ELSE 1],
    Request <- {q1, q2}, Kind <- [r \in {q1, q2} |-> IF r = q1 THEN "primary" ELSE "probe"], Route <- {"x"},
    MaxNumber <- 1, Burst <- 5, StateBurst <- 2, MaxInFlight <- 1, ExactLane <- FALSE,
    MaxFaults <- 1, MaxReorgs <- 0, MaxTimeouts <- 1, MaxTicks <- 0

Aave == INSTANCE AaveGateway WITH
    view <- branch, tokens <- budget, verified <- current, req <- call,
    Request <- {q1, q2}, Kinds <- {"screen", "exact"}, Burst <- 2, ExactPermits <- 1, ForkPermits <- 1,
    Window <- 2, MaxItems <- 1, MaxFinal <- 1, MaxFaults <- 1, MaxForks <- 0

Rows == INSTANCE ControlRows WITH Running <- {"executor", "supervisor"}

-----------------------------------------------------------------------------

Init ==
    /\ at \in {"shadow", "aave", "rows"}
    /\ Shadow!Init
    /\ Aave!Init /\ (at # "aave" => current = 0)
    /\ Rows!Init

\* A step of the component a behaviour belongs to.
Step(c, A) ==
    /\ at = c /\ A
    /\ UNCHANGED at
    /\ c # "shadow" => UNCHANGED shadowVars
    /\ c # "aave" => UNCHANGED aaveVars
    /\ c # "rows" => UNCHANGED rowsVars
    /\ c = "rows" => UNCHANGED faults

Next == Step("shadow", Shadow!Next) \/ Step("aave", Aave!Next) \/ Step("rows", Rows!Next)

(* The fairness of the components' own specifications.  As a behaviour belongs *)
(* to one instance, the conditions of all of them are stated together: of each *)
(* list below, at most one action can ever be enabled in a behaviour.          *)

Served(i) ==
    \/ i = 1 /\ Step("aave", Aave!Acquire(q1))
    \/ i = 2 /\ Step("aave", Aave!Acquire(q2))
    \/ i = 3 /\ Step("aave", Aave!TakeVerification(q1))
    \/ i = 4 /\ Step("aave", Aave!TakeVerification(q2))
    \/ i = 1 /\ Step("rows", Rows!Execute("executor"))
    \/ i = 2 /\ Step("rows", Rows!Execute("supervisor"))

RowsRun(i) ==
    \/ i = 1 /\ Step("rows", Rows!ToolCommits("supervisor"))
    \/ i = 2 /\ Step("rows", Rows!ToolAborted("supervisor"))
    \/ i = 3 /\ Step("rows", Rows!ExecutorCommits)
    \/ i = 4 /\ Step("rows", Rows!ExecutorAborted)

GatewayRuns(q, i) ==
    \/ i = 1 /\ Step("shadow", Shadow!Step(q))
    \/ i = 1 /\ Step("aave", Aave!admit_upstream_sequence(q))
    \/ i = 2 /\ Step("aave", Aave!Lookup(q))
    \/ i = 3 /\ Step("aave", Aave!InsertContext(q))
    \/ i = 4 /\ Step("aave", Aave!Complete(q))
    \/ i = 5 /\ Step("aave", Aave!ensure_provider_verified(q) \/ Aave!Read(q) \/ Aave!OutOfTokens(q))
    \/ i = 6 /\ Step("aave", Aave!Reply(q))
    \/ i = 7 /\ Step("aave", Aave!Late(q))
    \/ i = 8 /\ Step("aave", Aave!Refill)

Fairness ==
    /\ \A i \in 1..4 : SF_vars(Served(i))
    /\ \A i \in 1..4 : WF_vars(RowsRun(i))
    /\ \A q \in {q1, q2}, i \in 1..8 : WF_vars(GatewayRuns(q, i))

FairSpec == Init /\ [][Next]_vars /\ Fairness

-----------------------------------------------------------------------------
(* What is checked: the liveness properties of the component modules, those  *)
(* of the first and of the second in each together.                          *)

Actor == <<"executor", "supervisor">>
Client == <<q1, q2>>

Waiting(i) ==
    \/ at = "rows" /\ tr[Actor[i]].open
    \/ at = "shadow" /\ Shadow!Running(Client[i])
    \/ at = "aave" /\ call[Client[i]].pc # "idle"

\* Every request in the gateway's shadow path is answered, every request in its
\* Aave path ends, in time or at its deadline, and every transaction over the
\* control rows ends, whoever it waits for.
NobodyWaitsForEver == \A i \in 1..2 : Waiting(i) ~> ~Waiting(i)
=============================================================================
