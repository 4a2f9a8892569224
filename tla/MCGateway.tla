------------------------------ MODULE MCGateway ------------------------------
(* The RPC gateway on its instances: the shadow path by the mix of requests   *)
(* it serves, and the Aave path.  `at` is the instance a behaviour belongs    *)
(* to; the path it does not run rests in an initial state.  p1 is the primary *)
(* provider.                                                                  *)
EXTENDS Integers

CONSTANTS p1, p2, q1, q2, q3, None

VARIABLES
    at,
    view, tokens, requests, pool, limited, verified, static, routeCache, verifyCache, hunterCache,
    head, headFlight, flight, opLock, healthy, req, delivered, reorgs, timeouts, ticks,
    branch, final, budget, current, held, cache, call, cursor, first, fetched, forks,
    faults

shadowVars ==
    <<view, tokens, requests, pool, limited, verified, static, routeCache, verifyCache, hunterCache,
      head, headFlight, flight, opLock, healthy, req, delivered, reorgs, timeouts, ticks>>
aaveVars == <<branch, final, budget, current, held, cache, call, cursor, first, fetched, forks>>
vars == <<at, shadowVars, aaveVars, faults>>

-----------------------------------------------------------------------------
(* ShadowGateway. *)

Three == {q1, q2, q3}
Weights == [p \in {p1, p2} |-> IF p = p1 THEN 2 ELSE 1]

\* Two clients of one route and a probe; the chain is reorganized once.
Screen == INSTANCE ShadowGateway WITH
    Provider <- {p1, p2}, Weight <- Weights, Request <- Three,
    Kind <- [r \in Three |-> IF r = q3 THEN "probe" ELSE "primary"],
    Route <- {"x"}, MaxNumber <- 1, Burst <- 8, StateBurst <- 2, MaxInFlight <- 1, ExactLane <- FALSE,
    MaxFaults <- 0, MaxReorgs <- 1, MaxTimeouts <- 1, MaxTicks <- 0

\* A client and two that verify what it was given; caches expire once.
Verify == INSTANCE ShadowGateway WITH
    Provider <- {p1, p2}, Weight <- Weights, Request <- Three,
    Kind <- [r \in Three |-> IF r = q1 THEN "primary" ELSE "verify"],
    Route <- {"x"}, MaxNumber <- 1, Burst <- 8, StateBurst <- 3, MaxInFlight <- 1, ExactLane <- FALSE,
    MaxFaults <- 1, MaxReorgs <- 1, MaxTimeouts <- 0, MaxTicks <- 1

\* The same clients while the head moves.
Sequence == INSTANCE ShadowGateway WITH
    Provider <- {p1, p2}, Weight <- Weights, Request <- Three,
    Kind <- [r \in Three |-> IF r = q1 THEN "primary" ELSE "verify"],
    Route <- {"x"}, MaxNumber <- 2, Burst <- 8, StateBurst <- 3, MaxInFlight <- 1, ExactLane <- FALSE,
    MaxFaults <- 1, MaxReorgs <- 1, MaxTimeouts <- 0, MaxTicks <- 0

\* Two reads of the Hunter.
Hunter == INSTANCE ShadowGateway WITH
    Provider <- {p1, p2}, Weight <- Weights, Request <- {q1, q2}, Kind <- [r \in {q1, q2} |-> "hunter"],
    Route <- {"x"}, MaxNumber <- 1, Burst <- 9, StateBurst <- 1, MaxInFlight <- 1, ExactLane <- FALSE,
    MaxFaults <- 1, MaxReorgs <- 1, MaxTimeouts <- 0, MaxTicks <- 1

\* Source evidence with and without traces beside a client.
Source == INSTANCE ShadowGateway WITH
    Provider <- {p1, p2}, Weight <- Weights, Request <- Three,
    Kind <- [r \in Three |-> CASE r = q1 -> "source" [] r = q2 -> "trace" [] OTHER -> "primary"],
    Route <- {"x"}, MaxNumber <- 1, Burst <- 7, StateBurst <- 2, MaxInFlight <- 1, ExactLane <- TRUE,
    MaxFaults <- 1, MaxReorgs <- 1, MaxTimeouts <- 0, MaxTicks <- 0

\* Three turns of the probe loop on one provider.
Probes == INSTANCE ShadowGateway WITH
    Provider <- {p1}, Weight <- Weights, Request <- Three, Kind <- [r \in Three |-> "probe"],
    Route <- {"x"}, MaxNumber <- 2, Burst <- 6, StateBurst <- 2, MaxInFlight <- 1, ExactLane <- FALSE,
    MaxFaults <- 3, MaxReorgs <- 0, MaxTimeouts <- 0, MaxTicks <- 3

-----------------------------------------------------------------------------
(* AaveGateway. *)

\* An Exact and a fork simulation batch that compete for tokens, and a branch change.
States == INSTANCE AaveGateway WITH
    view <- branch, tokens <- budget, verified <- current, req <- call,
    Request <- {q1, q2}, Kinds <- {"exact", "batch"}, Burst <- 1, ExactPermits <- 1, ForkPermits <- 1,
    Window <- 2, MaxItems <- 1, MaxFinal <- 1, MaxFaults <- 0, MaxForks <- 1

\* The reads of the finalized tail, and answers that are lost.
Tail == INSTANCE AaveGateway WITH
    view <- branch, tokens <- budget, verified <- current, req <- call,
    Request <- {q1}, Kinds <- {"tail"}, Burst <- 3, ExactPermits <- 1, ForkPermits <- 1,
    Window <- 2, MaxItems <- 1, MaxFinal <- 5, MaxFaults <- 3, MaxForks <- 0

-----------------------------------------------------------------------------

Init ==
    /\ at \in {"screen", "verify", "sequence", "hunter", "source", "probes", "states", "tail"}
    /\ \/ at = "screen" /\ Screen!Init
       \/ at = "verify" /\ Verify!Init
       \/ at = "sequence" /\ Sequence!Init
       \/ at = "hunter" /\ Hunter!Init
       \/ at = "source" /\ Source!Init
       \/ at \in {"probes", "states", "tail"} /\ Probes!Init
    /\ \/ at = "tail" /\ Tail!Init
       \/ at = "states" /\ States!Init
       \/ at \notin {"tail", "states"} /\ States!Init /\ current = 0

ShadowNext ==
    /\ \/ at = "screen" /\ Screen!Next
       \/ at = "verify" /\ Verify!Next
       \/ at = "sequence" /\ Sequence!Next
       \/ at = "hunter" /\ Hunter!Next
       \/ at = "source" /\ Source!Next
       \/ at = "probes" /\ Probes!Next
    /\ UNCHANGED <<at, aaveVars>>

AaveNext ==
    /\ \/ at = "states" /\ States!Next
       \/ at = "tail" /\ Tail!Next
    /\ UNCHANGED <<at, shadowVars>>

Next == ShadowNext \/ AaveNext

Spec == Init /\ [][Next]_vars

-----------------------------------------------------------------------------
(* What is checked: the properties of the component modules, those of one kind *)
(* together.                                                                   *)

\* What the gateway answers or caches is true of one block: a bundle is the
\* state of the block it names, transaction, receipt and block of a source
\* reply are of one block, an Exact or a batch answer was read in the state it
\* is pinned to, a cached context under the block and the root of its key; and
\* verified evidence and a Hunter reply were confirmed by a second provider.
AnswersAreTrue ==
    /\ at = "screen" => Screen!PinnedState /\ Screen!CachedIsNotReread
    /\ at = "verify" => Verify!PinnedState /\ Verify!AgreementMeansTruth
    /\ at = "hunter" => Hunter!AgreementMeansTruth
    /\ at = "source" => Source!SourceInclusionCoherent
    /\ at = "states" => States!AnswersAreOneState /\ States!ContextsMatchTheirKey

\* Without the exact lane a sequence that was admitted finds its tokens.
AdmittedSequenceCompletes ==
    /\ at = "verify" => Verify!AdmittedSequenceCompletes
    /\ at = "sequence" => Sequence!AdmittedSequenceCompletes

\* The Hunter receives every finalized event up to its cursor.
TailHasNoGap == at = "tail" => Tail!TailHasNoGap

\* A provider loop does not ask again who failed it, although the paced reads of
\* the exact lane may have cleared the cooldown in between.
FailoverMovesOn ==
    [][/\ at = "source" => Source!PickMovesOn
       /\ at = "verify" => Verify!PickMovesOn
       /\ at = "probes" => Probes!PickMovesOn]_vars
=============================================================================
