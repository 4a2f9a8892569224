---------------------------- MODULE MCAlgorithms ----------------------------
(* The computations on their instances: what an Exact read sizes, a swap      *)
(* through a pool, the route graph and the choice of a size.  `at` is the      *)
(* instance a behaviour belongs to; the others rest in an initial state.       *)
EXTENDS Naturals, Integers, Sequences, FiniteSets, SequencesExt

VARIABLES
    at,
    phase, input, exact, sim,
    pool, amount, direction, swapPc, state, price, liquidity, tick, remaining, output, crossings, walked,
    universe, policies, mode, graphPc, todo, stack, legs, used, visited, routes, before,
    affected, event, queue, produced, seen, log, last, events,
    curve, limits, bounds, selected, pc, sizes, evaluated, infeasible, rounds, answer, calls, settled

liquidationVars == <<phase, input, exact, sim>>
swapVars == <<pool, amount, direction, swapPc, state, price, liquidity, tick, remaining, output, crossings, walked>>
graphVars == <<universe, policies, mode, graphPc, todo, stack, legs, used, visited, routes, before,
               affected, event, queue, produced, seen, log, last, events>>
sizingVars == <<curve, limits, bounds, selected, pc, sizes, evaluated, infeasible, rounds, answer, calls, settled>>
vars == <<at, liquidationVars, swapVars, graphVars, sizingVars>>

-----------------------------------------------------------------------------
(* AaveLiquidation: percentages in tenths, ten wei to a WETH, two or five     *)
(* units to a dollar.  The reserve records vary what decides a size: debts and *)
(* balances around the reviewed sizes and the thresholds, bonus and fee,       *)
(* prices, the close factor, eMode.                                            *)

Reserve(unit, cost, debt, balance, bonus, fee, emode) ==
    [unit |-> unit, price |-> cost, debt |-> debt, balance |-> balance, bonus |-> bonus, fee |-> fee,
     emode |-> emode, active |-> TRUE, paused |-> FALSE, stable |-> 0, enabled |-> TRUE,
     threshold |-> 1, grace |-> 0]

Ceil(a, b) == (a + b - 1) \div b

Account(wd, wb, wp, ub, ed, bonus, fee, emode, health) ==
    [health |-> health, totalDebtBase |-> Ceil(wd * wp, 10) + Ceil(ed, 5),
     emodeBonus |-> IF emode THEN 12 ELSE 0, premium |-> 1, time |-> 1,
     reserves |-> [weth |-> Reserve(10, wp, wd, wb, bonus, fee, emode),
                   usdc |-> Reserve(2, 1, 0, ub, bonus, fee, FALSE),
                   usdce |-> Reserve(5, 1, ed, 0, bonus, fee, FALSE)]]

\* Any three of bonus, fee, eMode and the price vary freely.
Accounts ==
    {Account(wd, wb, IF emode = ((bonus = 11) = (fee = 0)) THEN 3 ELSE 4, ub, ed, bonus, fee, emode, health) :
        wd \in {0, 1, 4, 9, 10, 14, 22, 30}, wb \in {0, 1, 6, 11, 21}, ub \in {0, 1, 5, 14},
        ed \in {0, 1, 3, 12, 30}, bonus \in {11, 13}, fee \in {0, 3}, emode \in BOOLEAN, health \in {2, 3}}

\* What switches a reserve off, one flag at a time.
SwitchedOff(r) ==
    {[r EXCEPT !.active = FALSE], [r EXCEPT !.paused = TRUE], [r EXCEPT !.stable = 1],
     [r EXCEPT !.enabled = FALSE], [r EXCEPT !.threshold = 0], [r EXCEPT !.grace = 1]}

Flagged ==
    UNION {{[a EXCEPT !.reserves[x] = r] : r \in SwitchedOff(a.reserves[x])} :
              x \in {"weth", "usdc", "usdce"},
              a \in {Account(wd, 21, 3, 14, 12, 11, 3, FALSE, health) : wd \in {0, 14, 30}, health \in {2, 3, 4}}}

\* Accounts whose liquidations are also simulated, and what the calls return.
Simulated ==
    {Account(wd, wb, wp, ub, ed, 11, 3, FALSE, 2) :
        wd \in {0, 1, 9, 14}, wb \in {6, 21}, wp \in {3, 4}, ub \in {0, 14}, ed \in {0, 3, 12}}

Returned ==
    {[gas |-> gas, l1 |-> 1, baseFee |-> baseFee, priority |-> priority, gasLimit |-> 5, maxFee |-> 4,
      headroom |-> 12, profit |-> profit, bid |-> bid, minimum |-> minimum] :
        gas \in {0, 2, 4, 5}, baseFee \in {0, 1, 2}, priority \in {0, 1}, profit \in {1, 9, 40},
        bid \in {0, 2}, minimum \in {1, 7}}

Sized == INSTANCE AaveLiquidation WITH
    Factor <- 10, WethUnit <- 10, Wad <- 4, CloseHealth <- 2, CloseBase <- 4, LeftoverBase <- 2,
    Levels <- <<2, 7, 10>>, Inputs <- Accounts \cup Flagged, Evidence <- {}

Quoted == INSTANCE AaveLiquidation WITH
    Factor <- 10, WethUnit <- 10, Wad <- 4, CloseHealth <- 2, CloseBase <- 4, LeftoverBase <- 2,
    Levels <- <<2, 7, 10>>, Inputs <- Simulated, Evidence <- Returned

NoAccount == INSTANCE AaveLiquidation WITH
    Factor <- 10, WethUnit <- 10, Wad <- 4, CloseHealth <- 2, CloseBase <- 4, LeftoverBase <- 2,
    Levels <- <<2, 7, 10>>, Inputs <- {0}, Evidence <- {}

-----------------------------------------------------------------------------
(* PoolSwap: seventeen ticks, two prices in each. *)

Position(a, b, l) == [lower |-> a, upper |-> b, liquidity |-> l]

\* The last tick of each word of the bitmap and the first of the next.
Ends == {-8, -6, -2, 0, 4, 6, 8}

Small == {Position(r[1], r[2], 40) : r \in {r \in Ends \X Ends : r[1] < r[2]}}

Whole == Position(-8, 8, 80)

Opened == {{p} : p \in Small} \cup {{p, Whole} : p \in Small} \cup {{p, q, Whole} : p, q \in Small}

Swapped ==
    {[tick |-> t, above |-> a, positions |-> s] : t \in -5..4, a \in 0..1, s \in Opened}

Swap == INSTANCE PoolSwap WITH
    input <- amount, pc <- swapPc,
    Pools <- Swapped, Ratio <- [t \in -8..8 |-> 40 + 2 * t], Inputs <- {1, 9, 30}, Q <- 40,
    Spacing <- 2, WordBits <- 3, Words <- 2, MaximumTicks <- 4, MaximumCrossings <- 2,
    Fee <- 1, FeeDenominator <- 20

NoSwap == INSTANCE PoolSwap WITH
    input <- amount, pc <- swapPc,
    Pools <- {[tick |-> 0, above |-> 0, positions |-> {}]}, Ratio <- [t \in -8..8 |-> 40 + 2 * t],
    Inputs <- {1}, Q <- 40, Spacing <- 2, WordBits <- 3, Words <- 2, MaximumTicks <- 4,
    MaximumCrossings <- 2, Fee <- 1, FeeDenominator <- 20

-----------------------------------------------------------------------------
(* RouteGraph. *)

Down == "zero_for_one"
Up == "one_for_zero"

Pool(a, b, f, x) == [t0 |-> a, t1 |-> b, fee |-> f, factory |-> x]

Leg(p, d) == [pool |-> p, from |-> IF d = Down THEN p.t0 ELSE p.t1,
              to |-> IF d = Down THEN p.t1 ELSE p.t0, direction |-> d]

Universe(s, ps) == [settlements |-> s, assets |-> 1..4, pools |-> ps]

Wide == {Pool(a, b, 1, 1) : a \in {1}, b \in 2..4} \cup {Pool(2, 3, 1, 1), Pool(2, 4, 1, 1), Pool(3, 4, 1, 1)}
        \cup {Pool(1, 2, 2, 1), Pool(1, 2, 1, 2), Pool(2, 3, 2, 1)}

Enumerated ==
    {Universe(s, ps) : s \in {{1}, {1, 2}}, ps \in {q \in SUBSET Wide : Cardinality(q) \in 2..5}}
    \cup {Universe({1}, {}), Universe({1}, {Pool(2, 1, 1, 1)}), Universe({5}, {Pool(1, 2, 1, 1)})}

Policy(r, s, l) == [path |-> r, shadow |-> s, live |-> l]

\* No policy; in the smaller universes also a route that is not there, one that
\* does not close, a route twice.
Few(u) ==
    LET there == <<Leg(Pool(1, 2, 1, 1), Down), Leg(Pool(1, 2, 2, 1), Up)>>
        away  == <<Leg(Pool(1, 2, 1, 1), Down), Leg(Pool(1, 2, 9, 1), Up)>>
        some  == {<<Policy(away, TRUE, TRUE)>>, <<Policy(<<away[1], away[1]>>, TRUE, TRUE)>>,
                  <<Policy(there, TRUE, TRUE), Policy(there, TRUE, FALSE)>>}
    IN  {<< >>} \cup (IF Cardinality(u.pools) <= 3 THEN some ELSE {})

\* Many universes to enumerate.
Cycles == INSTANCE RouteGraph WITH
    pc <- graphPc, Universes <- Enumerated, PolicySets <- Few, Events <- {}, Modes <- {"live"},
    MaximumLegs <- 4, MaximumRoutes <- 12, MaximumCycles <- 8, MaximumPools <- 5, RoutesPerPool <- 1,
    AffectedPerEvent <- 1, OutputsPerEvent <- 1, MaxSeen <- 1, MaxEvents <- 0

\* Two factories and two fees on one pair, with a third token.
Traded == Universe({1}, {Pool(1, 2, 1, 1), Pool(1, 2, 1, 2), Pool(1, 2, 2, 1), Pool(2, 3, 1, 1), Pool(1, 3, 1, 1)})

\* The cycles of it through its first pool.
Loops ==
    LET first == Pool(1, 2, 1, 1)
        legsOf == {Leg(p, d) : p \in Traded.pools, d \in {Down, Up}}
        two == {<<a, b>> : a, b \in legsOf}
        three == {<<a, b, c>> : a, b, c \in legsOf}
        Closed(r) ==
            /\ r[1].from = 1 /\ r[Len(r)].to = 1
            /\ \A i \in 1..(Len(r) - 1) : r[i].to = r[i + 1].from /\ r[i].to # 1
            /\ \A i, j \in 1..Len(r) : i # j => r[i].pool # r[j].pool
            /\ \E i \in 1..Len(r) : r[i].pool = first
    IN  {r \in two \cup three : Closed(r)}

\* Any three of them, each enabled in one mode or all in both.
Three(u) ==
    {[i \in 1..3 |-> Policy(SetToSeq(s)[i], k[i] # "live", k[i] # "shadow")] :
        s \in {s \in SUBSET Loops : Cardinality(s) = 3},
        k \in [1..3 -> {"shadow", "live"}] \cup [1..3 -> {"both"}]}

Event(i, b, ids, d, s) == [id |-> i, block |-> b, ids |-> ids, direction |-> d, selected |-> s]

Delivered ==
    {Event(i, 1, {<<1, 2, f>>}, d, 0) : i \in 1..2, f \in {1, 2}, d \in {Down, Up}}
    \cup {Event(1, 1, ids, "unknown", s) : ids \in {{<<1, 2, 1>>, <<1, 3, 1>>}, {<<7, 8, 1>>}}, s \in 0..2}
    \cup {Event(1, 2, {<<1, 2, 2>>}, Up, 0)}

\* Two events in one universe under any three policies.
Routed == INSTANCE RouteGraph WITH
    pc <- graphPc, Universes <- {Traded}, PolicySets <- Three, Events <- Delivered, Modes <- {"live", "shadow"},
    MaximumLegs <- 3, MaximumRoutes <- 40, MaximumCycles <- 40, MaximumPools <- 5, RoutesPerPool <- 8,
    AffectedPerEvent <- 3, OutputsPerEvent <- 1, MaxSeen <- 2, MaxEvents <- 2

Without(u) == {<< >>}

NoGraph == INSTANCE RouteGraph WITH
    pc <- graphPc, Universes <- {Universe({1}, {})}, PolicySets <- Without, Events <- {}, Modes <- {"live"},
    MaximumLegs <- 1, MaximumRoutes <- 1, MaximumCycles <- 1, MaximumPools <- 1, RoutesPerPool <- 1,
    AffectedPerEvent <- 1, OutputsPerEvent <- 1, MaxSeen <- 1, MaxEvents <- 0

-----------------------------------------------------------------------------
(* RouteSizing: hills of every slope, broken off or with a hole. *)

Point(k, o, c) == [kind |-> k, output |-> o, crossings |-> c]

\* The gross profit rises to the peak and falls after it; beyond a tick one
\* more crossing is paid.
Hill(peak, rise, fall, crossed) ==
    [s \in 1..24 |->
        Point("ok", s + (IF s <= peak THEN rise * s ELSE rise * peak - fall * (s - peak)),
              IF s > crossed THEN 1 ELSE 0)]

Hills == {Hill(p, r, f, t) : p \in {2, 8, 15, 23}, r \in {1, 2}, f \in {0, 1, 3}, t \in {9, 24}}

Broken(c, from, kind) == [s \in 1..24 |-> IF s >= from THEN Point(kind, 0, 0) ELSE c[s]]
Holed(c, hole, kind) == [c EXCEPT ![hole] = Point(kind, 0, 0)]

Failures == {"state_incomplete", "infeasible", "arithmetic"}

Hilly ==
    LET steep == {Hill(p, 2, f, 9) : p \in {2, 8, 15, 23}, f \in {0, 3}}
    IN  Hills \cup {Broken(c, a, k) : c \in steep, a \in {1, 9}, k \in Failures}
              \cup {Holed(c, a, k) : c \in steep, a \in {3, 18}, k \in Failures}

Limit(a, p, s, u, h) == [minimum |-> a, policy |-> p, settlement |-> s, universe |-> u, shadow |-> h]

Bound(p, r) == [probes |-> p, refinements |-> r]

Sizing == INSTANCE RouteSizing WITH
    Curves <- Hilly,
    Limits <- {Limit(1, 24, 24, 24, 24), Limit(3, 24, 20, 22, 23), Limit(2, 24, 9, 24, 24),
               Limit(5, 4, 24, 24, 24), Limit(6, 9, 24, 6, 8)},
    Bounds <- {Bound(9, 4), Bound(6, 3), Bound(4, 3), Bound(4, 4), Bound(12, 7), Bound(3, 0)},
    Selected <- {0, 7}, SizeEvaluations <- 6, Premium <- 1, ModelError <- 2, Denominator <- 10,
    Gas <- 1, TickGas <- 1, Ordering <- 1, Retained <- 2

NoSizing == INSTANCE RouteSizing WITH
    Curves <- {<< >>}, Limits <- {Limit(1, 1, 1, 1, 1)}, Bounds <- {Bound(1, 1)}, Selected <- {0},
    SizeEvaluations <- 6, Premium <- 1, ModelError <- 2, Denominator <- 10,
    Gas <- 1, TickGas <- 1, Ordering <- 1, Retained <- 2

-----------------------------------------------------------------------------

Init ==
    /\ at \in {"sized", "quoted", "swap", "cycles", "routed", "sizing"}
    /\ \/ at = "sized" /\ Sized!Init
       \/ at = "quoted" /\ Quoted!Init
       \/ at \notin {"sized", "quoted"} /\ NoAccount!Init
    /\ \/ at = "swap" /\ Swap!Init
       \/ at # "swap" /\ NoSwap!Init /\ direction = Down
    /\ \/ at = "cycles" /\ Cycles!Init
       \/ at = "routed" /\ Routed!Init
       \/ at \notin {"cycles", "routed"} /\ NoGraph!Init
    /\ \/ at = "sizing" /\ Sizing!Init
       \/ at # "sizing" /\ NoSizing!Init

LiquidationNext ==
    /\ \/ at = "sized" /\ Sized!Next
       \/ at = "quoted" /\ Quoted!Next
    /\ UNCHANGED <<at, swapVars, graphVars, sizingVars>>

SwapNext ==
    /\ at = "swap" /\ Swap!Next
    /\ UNCHANGED <<at, liquidationVars, graphVars, sizingVars>>

GraphNext ==
    /\ \/ at = "cycles" /\ Cycles!Next
       \/ at = "routed" /\ Routed!Next
    /\ UNCHANGED <<at, liquidationVars, swapVars, sizingVars>>

SizingNext ==
    /\ at = "sizing" /\ Sizing!Next
    /\ UNCHANGED <<at, liquidationVars, swapVars, graphVars>>

Next == LiquidationNext \/ SwapNext \/ GraphNext \/ SizingNext

Spec == Init /\ [][Next]_vars

-----------------------------------------------------------------------------
(* What is checked: the properties of the component modules, one property for  *)
(* each algorithm.                                                             *)

\* supported_aave_liquidations over the reviewed sizes misses no position that
\* some repayment would close, leaves no dust for which Aave would refuse, keeps
\* half of a large debt above the close-factor health; resolve_aave_exact
\* refuses its own answer only for a worthless variant or a terminal size equal
\* to a reviewed one; and the gateway accepts the requests that the Hunter and
\* it itself build from its answer.
LiquidationsFit ==
    /\ at = "sized" => /\ Sized!SizedWhenPossible
                       /\ Sized!NoDustLeft
                       /\ Sized!HalfOfALargeDebt
                       /\ Sized!RefusedOnlyAtTheEdge
    /\ at = "quoted" => Quoted!HunterRequestsAccepted /\ Quoted!SimulationsAccepted

\* simulate_pool_exact_input uses everywhere the liquidity that the pool has
\* there, pays no more than the spot price however many ticks it crosses and
\* walks through no more ranges than the policy allows; what
\* perform_hunter_state_bundle reads around any tick passes its own validation.
SwapIsExact ==
    at = "swap" => /\ Swap!WalksTheProfile
                   /\ Swap!PaysNoMoreThanSpot
                   /\ Swap!CrossingsAreBounded
                   /\ Swap!ReadingsAreValid

\* The depth-first enumerate_from finds exactly the simple settlement cycles and
\* gives up only when there are too many; an event processed to its end has
\* evaluated every enabled route it concerns, those against the initiating swap
\* first, and its bounded memory keeps repeated evaluations far apart.
RoutesAreComplete ==
    /\ at = "cycles" => Cycles!EnumerationIsExact
    /\ at = "routed" => /\ Routed!EveryConcernedRouteIsEvaluated
                        /\ Routed!CounterTradesComeFirst
                        /\ Routed!RepeatsAreFarApart

\* The best size lies between the evaluated neighbours of optimize_route's
\* choice, and is its choice when the refinement ends for want of a midpoint; of
\* sizes that promise the same the smallest is taken; and a candidate keeps more
\* than the retained profit after its exact, unrounded costs.
SizeIsBest ==
    at = "sizing" => /\ Sizing!BracketsTheBest
                     /\ Sizing!SettlesOnTheBest
                     /\ Sizing!TiesChooseTheSmaller
                     /\ Sizing!KeepsTheRetainedProfit
=============================================================================
