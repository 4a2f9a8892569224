---------------------------- MODULE MCOperations ----------------------------
(* The operator's tools on their instances: the owner commands, the executor  *)
(* rotation and the fork sandbox with what its evidence leads to.  `at` is the *)
(* instance a behaviour belongs to; the others rest in an initial state.       *)
EXTENDS Integers

CONSTANTS e1

VARIABLES
    at,
    conf, paused, pool, done, run, told, others,
    mempool, contract, journal, release, env, svc, work, op, answer,
    clock, facts, sandbox, results, cand, created, mat, armed, requests,
    runs, faults, crashes

ownerVars == <<conf, paused, pool, done, run, told, others>>
rotationVars == <<mempool, contract, journal, release, env, svc, work, op, answer>>
forkVars == <<clock, facts, sandbox, results, cand, created, mat, armed, requests>>
vars == <<at, ownerVars, rotationVars, forkVars, runs, faults, crashes>>

-----------------------------------------------------------------------------
(* OwnerBootstrap: three commands over two routers, a fault and a crash. *)

Owner == INSTANCE OwnerBootstrap WITH
    Routers <- <<"router1", "router2">>, MaxRuns <- 3, MaxFaults <- 1, MaxOther <- 0, MaxCrashes <- 1

\* Another transaction of the owner's wallet between those of the commands.
Shared == INSTANCE OwnerBootstrap WITH
    Routers <- <<"router1">>, MaxRuns <- 2, MaxFaults <- 1, MaxOther <- 1, MaxCrashes <- 0

(* ExecutorRotation. *)

\* Prepare, execute and roll back while the consumers write rows.
Rotation == INSTANCE ExecutorRotation WITH
    pool <- mempool, rows <- work, told <- answer,
    Consumer <- {"atlas-observer", "live-executor"}, Settings <- <<"searcher", "maximum">>, MaxHashes <- 7,
    MaxContracts <- 2, Releases <- 3, MaxRows <- 1, MaxRuns <- 3, MaxFaults <- 1, MaxCrashes <- 1

\* Eight commands over three releases.
Later == INSTANCE ExecutorRotation WITH
    pool <- mempool, rows <- work, told <- answer,
    Consumer <- {"atlas-observer", "live-executor"}, Settings <- <<"searcher", "maximum">>, MaxHashes <- 7,
    MaxContracts <- 2, Releases <- 3, MaxRows <- 0, MaxRuns <- 8, MaxFaults <- 1, MaxCrashes <- 1

-----------------------------------------------------------------------------
(* ForkEvidence.  The floors on the profit are 4 and 5, the planned gas is 3. *)

Sound == [chain |-> TRUE, disposition |-> "rejected", reason |-> "contract_path_unavailable",
          complete |-> TRUE, statuses |-> <<"agreed", "agreed", "agreed">>,
          secondary |-> "bound", expires |-> 5, route |-> "reviewed",
          input |-> 1, output |-> 9, gross |-> 8, premium |-> 0, net |-> 3,
          required |-> 1, legs |-> 9, detected |-> 0, gas |-> 3, price |-> 1]

\* Facts with up to two things wrong.
AnyFacts ==
    {[Sound EXCEPT !.statuses = s] : s \in [1..3 -> {"agreed", "disagreed", "missing"}]}
    \cup {[Sound EXCEPT !.statuses[i] = s, !.secondary = p] :
        i \in 1..3, s \in {"agreed", "disagreed", "missing"}, p \in {"none", "same", "differs"}}
    \cup {[Sound EXCEPT !.route = r, !.net = n, !.gross = g] :
        r \in {"reviewed", "shape", "token", "pool", "router", "protocol", "duplicate",
               "state_hash", "pool_request", "route_hash"}, n \in {0, 1, 3}, g \in {0, 8}}
    \cup {[Sound EXCEPT !.chain = c, !.disposition = d, !.reason = w, !.complete = k] :
        c \in BOOLEAN, d \in {"accepted", "rejected"},
        w \in {"contract_path_unavailable", "none"}, k \in BOOLEAN}
    \cup {[Sound EXCEPT !.required = r, !.gas = g, !.price = p] : r \in {1, 2, 4}, g \in {0, 3}, p \in 0..2}
    \cup {[Sound EXCEPT !.required = r, !.input = i, !.output = o, !.legs = o] : r \in {1, 4}, i \in {0, 1, 3}, o \in {1, 9}}
    \cup {[Sound EXCEPT !.required = r, !.legs = o, !.detected = t] : r \in {-1, 1}, o \in {8, 9}, t \in {0, 5}}

Pinned(p, g) == [attached |-> "pinned", profit |-> p, gas |-> g]

\* One run of the sandbox on any facts.
Simulation == INSTANCE ForkEvidence WITH
    run <- sandbox, rows <- results, Event <- {e1}, Facts <- AnyFacts, Policies <- {1, 2},
    Forks <- {Pinned(4, 1), Pinned(4, 3), Pinned(6, 3), Pinned(7, 4), Pinned(9, 7)}
                \cup {[attached |-> "elsewhere", profit |-> 6, gas |-> 3]},
    Fees <- {2}, Retained <- 2, MaximumLoss <- 5, EvidenceSlack <- 2, ApprovalTtl <- 2, MaximumGas <- 6,
    MaximumInput <- 2, SlippageTenths <- 1, MaxTime <- 3, MaxRuns <- 1, MaxFaults <- 1

\* One result on any of three forks, the operator's approval, the candidate and
\* its request.
Approval == INSTANCE ForkEvidence WITH
    run <- sandbox, rows <- results, Event <- {e1}, Facts <- {Sound}, Policies <- {2},
    Forks <- {Pinned(4, 1), Pinned(6, 3), Pinned(9, 5)},
    Fees <- {2, 6}, Retained <- 2, MaximumLoss <- 5, EvidenceSlack <- 1, ApprovalTtl <- 2, MaximumGas <- 6,
    MaximumInput <- 2, SlippageTenths <- 1, MaxTime <- 4, MaxRuns <- 1, MaxFaults <- 0

\* Two runs of one event under the same threshold or under two: the floor of the
\* candidate is that of threshold 2.
Thresholds == INSTANCE ForkEvidence WITH
    run <- sandbox, rows <- results, Event <- {e1}, Facts <- {Sound}, Policies <- {1, 2},
    Forks <- {Pinned(6, 3)},
    Fees <- {2}, Retained <- 2, MaximumLoss <- 5, EvidenceSlack <- 1, ApprovalTtl <- 2, MaximumGas <- 6,
    MaximumInput <- 2, SlippageTenths <- 1, MaxTime <- 3, MaxRuns <- 2, MaxFaults <- 0

-----------------------------------------------------------------------------

Init ==
    /\ at \in {"owner", "shared", "rotation", "later", "simulation", "approval", "thresholds"}
    /\ Owner!Init
    /\ Rotation!Init
    /\ \/ at = "simulation" /\ Simulation!Init
       \/ at \in {"approval", "thresholds"} /\ Approval!Init
       \/ at \notin {"simulation", "approval", "thresholds"} /\ Approval!Init /\ armed

OwnerNext ==
    /\ \/ at = "owner" /\ Owner!Next
       \/ at = "shared" /\ Shared!Next
    /\ UNCHANGED <<at, rotationVars, forkVars>>

RotationNext ==
    /\ \/ at = "rotation" /\ Rotation!Next
       \/ at = "later" /\ Later!Next
    /\ UNCHANGED <<at, ownerVars, forkVars>>

ForkNext ==
    /\ \/ at = "simulation" /\ Simulation!Next
       \/ at = "approval" /\ Approval!Next
       \/ at = "thresholds" /\ Thresholds!Next
    /\ UNCHANGED <<at, ownerVars, rotationVars, crashes>>

Next == OwnerNext \/ RotationNext \/ ForkNext

Spec == Init /\ [][Next]_vars

-----------------------------------------------------------------------------
(* What is checked: the properties of the component modules, those of one kind *)
(* together.                                                                   *)

\* The executor contract is never unpaused with part of its configuration
\* missing, no command or preflight reports success over an incomplete one, and
\* a command signs nothing while its last transaction is pending.
ConfiguredBeforeUse ==
    /\ at = "owner" => Owner!UnpausedIsComplete /\ Owner!OneOfItsOwn
    /\ at = "shared" => Shared!UnpausedIsComplete /\ Shared!ConfiguredIsComplete

\* A consumer runs only with a contract that was configured, read back and
\* drained for; once it runs no direct request of the old executor is open; and
\* no two consumers run with different executors.
OneExecutor == Rotation!NewIsPrepared /\ Rotation!NoOldWork /\ Rotation!OneIdentity

\* A stored result was simulated in time on a fork of the pinned block, from
\* facts on which two providers agree, and nets both thresholds when it passed
\* within the planned gas.  An approved request rests on one result: the
\* operator's keeps its profit when its whole gas is used, the calldata of an
\* autonomous one was simulated, and recently.
RequestsAreGrounded ==
    /\ at = "simulation" => Simulation!EvidenceIsGrounded /\ Simulation!PassedCoversTheThresholds
    /\ at = "approval" => /\ Approval!OperatorRequestsCoverTheirGas
                          /\ Approval!AutonomousRequestsWereSimulated
                          /\ Approval!OneRequestPerResult
    /\ at = "thresholds" => /\ Thresholds!OperatorRequestsCoverTheirGas
                            /\ Thresholds!AutonomousRequestsWereSimulated
                            /\ Thresholds!OneRequestPerResult

\* Decisions stand: a release never rotates again to a contract that it or the
\* legacy release rolled back from; a result that was written never changes; and
\* with several results of an event the newest one decides, so that a candidate
\* whose newest result is good is not refused for what an earlier run found.
DecisionsStand ==
    [][/\ at = "later" => Later!NoReturn
       /\ at = "thresholds" => Thresholds!ResultsStay /\ Thresholds!NoGoodEvidenceRefused]_vars
=============================================================================
