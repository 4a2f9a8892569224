--------------------------- MODULE AaveLiquidation ---------------------------
(***************************************************************************)
(* What an Exact read computes from one finalized state and what the       *)
(* hunter's simulation request makes of it: the sizing of liquidations     *)
(* (supported_aave_liquidations and its arithmetic in                      *)
(* rpc-gateway/src/runtime.rs), the contracts the answers must pass        *)
(* (aave_state.rs), and the request newSimulationRequest builds            *)
(* (screen.go).  Amounts are naturals; the scale of percentages, of WETH   *)
(* and of the thresholds is a parameter, so that rounding and boundaries   *)
(* happen with small numbers.  A 256-bit overflow is not modelled.         *)
(***************************************************************************)
EXTENDS Naturals, Sequences, FiniteSets

CONSTANTS
    Factor,        \* PERCENTAGE_FACTOR, 10_000
    WethUnit,      \* 10^18
    Wad,           \* a health factor of one
    CloseHealth,   \* CLOSE_FACTOR_HF_THRESHOLD_WAD
    CloseBase,     \* MIN_BASE_MAX_CLOSE_FACTOR_THRESHOLD
    LeftoverBase,  \* MIN_LEFTOVER_BASE
    Levels,        \* SizeLevel::ALL: amounts, ascending; the last is MAXIMUM_REVIEWED_INPUT_WEI
    Inputs,        \* the accounts and reserves read
    Evidence       \* what the simulation calls return

VARIABLES phase, input, exact, sim

vars == <<phase, input, exact, sim>>

None == [none |-> TRUE]
Last(s) == s[Len(s)]
LevelSet == {Levels[i] : i \in DOMAIN Levels}
MaximumReviewed == Last(Levels)

-----------------------------------------------------------------------------
(* Arithmetic. *)

mul_div_floor(v, m, d) == (v * m) \div d
mul_div_ceil(v, m, d) == (v * m + d - 1) \div d
percent_mul(v, p) == (v * p + Factor \div 2) \div Factor
percent_mul_floor(v, p) == (v * p) \div Factor
percent_mul_ceil(v, p) == (v * p + Factor - 1) \div Factor
percent_div_floor(v, p) == (v * Factor) \div p

percent_div_ceil(v, p) == (v * Factor + p - 1) \div p

weth_to_debt_floor(weth, wp, dp, unit) == mul_div_floor(weth * wp, unit, WethUnit * dp)
weth_to_debt_ceil(weth, wp, dp, unit) == mul_div_ceil(weth * wp, unit, WethUnit * dp)
debt_to_weth_floor(debt, dp, wp, unit) == mul_div_floor(debt * dp, WethUnit, unit * wp)

MinOf(a, b) == IF a < b THEN a ELSE b

\* What repaying this much seizes, capped by the collateral there is.
calculate_aave_liquidation_amounts(repay, d, c, bonus) ==
    LET base == (d.price * repay * c.unit) \div (c.price * d.unit)
        most == percent_mul_floor(base, bonus)
        capped == most > c.balance
        seized == IF capped THEN c.balance ELSE most
        actual == IF capped
                  THEN percent_div_ceil((c.price * c.balance * d.unit) \div (d.price * c.unit), bonus)
                  ELSE repay
        fee == percent_mul_ceil(seized - percent_div_floor(seized, bonus), c.fee)
    IN [actual |-> actual, seized |-> seized, fee |-> fee, liquidator |-> seized - fee]

\* Mutant: the leftover debt is valued downwards and one unit short passes.
aave_liquidation_dust_valid_Short(d, c, a) ==
    \/ d.debt = a.actual \/ c.balance = a.seized
    \/ /\ mul_div_ceil(d.debt - a.actual, d.price, d.unit) + 1 >= LeftoverBase
       /\ mul_div_floor(c.balance - a.seized, c.price, c.unit) >= LeftoverBase

\* Nothing is left of the debt or of the collateral, or enough of both.
aave_liquidation_dust_valid(d, c, a) ==
    \/ d.debt = a.actual \/ c.balance = a.seized
    \/ /\ mul_div_ceil(d.debt - a.actual, d.price, d.unit) >= LeftoverBase
       /\ mul_div_floor(c.balance - a.seized, c.price, c.unit) >= LeftoverBase

\* A checked_sub that has nothing to give fails the whole read.
Underflows(d, c, a) == a.actual > d.debt \/ a.seized > c.balance \/ a.fee > a.seized

\* The reviewed sizes in units of the debt asset.
liquidation_size_grid(most, wp, d) ==
    SelectSeq([i \in DOMAIN Levels |-> weth_to_debt_floor(Levels[i], wp, d.price, d.unit)],
              LAMBDA amount : amount # 0 /\ amount <= most)

reviewed_weth_size_for_debt(repay, wp, d) ==
    Levels[CHOOSE i \in DOMAIN Levels :
             /\ weth_to_debt_floor(Levels[i], wp, d.price, d.unit) = repay
             /\ \A j \in 1..(i - 1) : weth_to_debt_floor(Levels[j], wp, d.price, d.unit) # repay]

-----------------------------------------------------------------------------
(* Sizing. *)

\* Half of the account's debt at most, when both sides are large and the
\* position is not deep under water.
close_capacity(in, d, c) ==
    LET debtBase == mul_div_ceil(d.debt, d.price, d.unit)
        half == percent_mul(in.totalDebtBase, Factor \div 2)
    IN IF /\ mul_div_floor(c.balance, c.price, c.unit) >= CloseBase
          /\ debtBase >= CloseBase
          /\ in.health > CloseHealth
          /\ debtBase > half
       THEN mul_div_floor(half, d.unit, d.price)
       ELSE d.debt

Supported(d) == d.active /\ ~d.paused /\ d.stable = 0 /\ d.debt # 0
Seizable(c) == c.enabled /\ c.threshold # 0 /\ c.active /\ ~c.paused /\ c.balance # 0

\* aave_liquidation_state.
State(in, da, ca, repay, most, size, a, class, reason) ==
    LET d == in.reserves[da]
        c == in.reserves[ca]
        unwind == mul_div_floor(a.liquidator * c.price, d.unit, c.unit * d.price)
    IN [debt |-> da, collateral |-> ca, repay |-> repay, actual |-> a.actual, maximum |-> most,
        size |-> size, class |-> class, reason |-> reason,
        premium |-> percent_mul(a.actual, in.premium),
        seized |-> a.seized, fee |-> a.fee, liquidator |-> a.liquidator, unwind |-> unwind,
        unwindWeth |-> debt_to_weth_floor(unwind, d.price, in.reserves["weth"].price, d.unit),
        quotes |-> IF da = ca THEN 0 ELSE IF da = "usdce" THEN 1 ELSE 3]

Integrity == [err |-> TRUE, variants |-> <<>>]
Ok(variants) == [err |-> FALSE, variants |-> variants]

\* supported_aave_debt_liquidations for one collateral: the fixed sizes, or one
\* terminal size when there is none below the maximum or dust forbids them all.
PairVariants(in, da, ca) ==
    LET d == in.reserves[da]
        c == in.reserves[ca]
        wp == in.reserves["weth"].price
        most == weth_to_debt_floor(MaximumReviewed, wp, d.price, d.unit)
        capacity == MinOf(close_capacity(in, d, c), most)
        bonus == IF in.emodeBonus # 0 /\ c.emode THEN in.emodeBonus ELSE c.bonus
        Amounts(r) == calculate_aave_liquidation_amounts(r, d, c, bonus)
        top == Amounts(capacity)
        grid == liquidation_size_grid(top.actual, wp, d)
        Whole(r) == Amounts(r).actual = r
        Clean(r) == aave_liquidation_dust_valid(d, c, Amounts(r))
        fixed == SelectSeq(grid, LAMBDA r : Whole(r) /\ Clean(r))
        onlyDust == \A i \in DOMAIN grid : Whole(grid[i])
        terminal == MinOf(top.actual, most)
        last == fixed = <<>> /\ onlyDust /\ (\A i \in DOMAIN grid : grid[i] # terminal) /\ Whole(terminal)
        tried == {grid[i] : i \in {j \in DOMAIN grid : Whole(grid[j])}} \cup (IF last THEN {terminal} ELSE {})
    IN IF in.health >= Wad \/ ~Supported(d) \/ most = 0 \/ ~Seizable(c) \/ capacity = 0
       THEN Ok(<<>>)
       ELSE IF bonus < Factor \/ bonus > 2 * Factor \/ c.fee > Factor THEN Integrity
       ELSE IF top.actual = 0 THEN Ok(<<>>)
       ELSE IF \E r \in tried : Underflows(d, c, Amounts(r)) THEN Integrity
       ELSE IF fixed # <<>>
       THEN Ok([i \in DOMAIN fixed |->
                    State(in, da, ca, fixed[i], most, reviewed_weth_size_for_debt(fixed[i], wp, d),
                          Amounts(fixed[i]), "fixed", "")])
       ELSE IF last /\ Clean(terminal)
       THEN Ok(<<State(in, da, ca, terminal, most, debt_to_weth_floor(terminal, d.price, wp, d.unit),
                       Amounts(terminal), "terminal", IF grid = <<>> THEN "below_min" ELSE "dust")>>)
       ELSE Ok(<<>>)

Pairs == <<<<"weth", "weth">>, <<"weth", "usdc">>, <<"usdce", "weth">>>>

\* aave_liquidation_grace_elapsed.
grace_elapsed(in, v) ==
    in.reserves[v.debt].grace < in.time /\ in.reserves[v.collateral].grace < in.time

\* supported_aave_liquidations, and the grace filter after the closing read.
supported_aave_liquidations(in) ==
    LET r == [i \in 1..3 |-> PairVariants(in, Pairs[i][1], Pairs[i][2])]
    IN IF \E i \in 1..3 : r[i].err THEN Integrity
       ELSE Ok(SelectSeq(r[1].variants \o r[2].variants \o r[3].variants,
                         LAMBDA v : grace_elapsed(in, v)))

-----------------------------------------------------------------------------
(* AaveExactResponse::validate. *)

ClassValid(in, s, i) ==
    LET v == s[i]
        d == in.reserves[v.debt]
        wp == in.reserves["weth"].price
        Before(class) == \E j \in 1..(i - 1) : /\ s[j].debt = v.debt /\ s[j].collateral = v.collateral
                                              /\ s[j].class = class
    IN IF v.class = "fixed"
       THEN /\ v.reason = "" /\ v.size \in LevelSet /\ ~Before("terminal")
            /\ weth_to_debt_floor(v.size, wp, d.price, d.unit) = v.repay
       ELSE /\ v.reason \in {"below_min", "dust"}
            /\ v.size \notin LevelSet
            /\ debt_to_weth_floor(v.repay, d.price, wp, d.unit) = v.size
            /\ ~Before("fixed") /\ ~Before("terminal")

Worthless(v) == v.liquidator = 0 \/ v.unwind = 0 \/ v.unwindWeth = 0

VariantValid(in, s, i) ==
    LET v == s[i]
        d == in.reserves[v.debt]
        wp == in.reserves["weth"].price
    IN /\ v.repay # 0 /\ v.actual = v.repay
       /\ <<v.debt, v.collateral>> \in {Pairs[k] : k \in 1..3}
       /\ v.maximum = weth_to_debt_floor(MaximumReviewed, wp, d.price, d.unit)
       /\ v.repay <= v.maximum
       /\ ClassValid(in, s, i)
       /\ v.premium = percent_mul(v.repay, in.premium)
       /\ ~Worthless(v)
       /\ v.unwindWeth = debt_to_weth_floor(v.unwind, d.price, wp, d.unit)
       /\ v.fee + v.liquidator = v.seized
       /\ \A j \in 1..(i - 1) : s[j].debt # v.debt \/ s[j].collateral # v.collateral \/ s[j].repay # v.repay
       /\ IF v.debt = v.collateral THEN v.unwind = v.liquidator /\ v.quotes = 0
          ELSE v.quotes = IF v.debt = "usdce" THEN 1 ELSE 3

ExactValid(in, s) ==
    /\ Len(s) <= 3 * Len(Levels)
    /\ \A i \in DOMAIN s : VariantValid(in, s, i)

-----------------------------------------------------------------------------
(* The simulation of one variant. *)

\* newSimulationRequest (screen.go): a repayment over the live limit is
\* counterfactual and simulated under the reviewed maximum.
newSimulationRequest(in, v, live, profit) ==
    LET d == in.reserves[v.debt]
        wp == in.reserves["weth"].price
        liveDebt == weth_to_debt_floor(live, wp, d.price, d.unit)
        over == v.repay > liveDebt
    IN [debt |-> v.debt, repay |-> v.repay, live |-> liveDebt, liveWeth |-> live,
        counterfactual |-> over,
        maximum |-> IF over THEN v.maximum ELSE liveDebt,
        maximumWeth |-> IF over THEN MaximumReviewed ELSE live,
        profit |-> weth_to_debt_ceil(profit, wp, d.price, d.unit), profitWeth |-> profit]

\* AaveSimulateRequest::validate of a request outside atlas_mode; prices are
\* positive, those of zero being refused with the account.
RequestValid(in, q) ==
    LET d == in.reserves[q.debt]
        wp == in.reserves["weth"].price
        Debt(weth) == weth_to_debt_floor(weth, wp, d.price, d.unit)
    IN /\ \A x \in {q.repay, q.maximum, q.live, q.maximumWeth, q.liveWeth, q.profit, q.profitWeth} : x > 0
       /\ q.repay <= q.maximum
       /\ q.maximumWeth <= MaximumReviewed /\ q.maximum = Debt(q.maximumWeth)
       /\ q.live <= q.maximum /\ q.liveWeth <= q.maximumWeth /\ q.live = Debt(q.liveWeth)
       /\ q.profit = weth_to_debt_ceil(q.profitWeth, wp, d.price, d.unit)
       /\ q.counterfactual = (q.repay > q.live)
       /\ ~q.counterfactual => q.maximum = q.live /\ q.maximumWeth = q.liveWeth
       /\ q.counterfactual => q.maximumWeth = MaximumReviewed

\* The gas limit with headroom at twice the base fee plus the tip, within the
\* caller's bounds; refused otherwise.
bounded_aave_gas_quote(e) ==
    LET limit == percent_mul_ceil(e.gas, e.headroom)
        fee == 2 * e.baseFee + e.priority
    IN IF e.gas = 0 \/ e.gas < e.l1 \/ e.baseFee = 0 \/ limit > e.gasLimit \/ fee > e.maxFee THEN None
       ELSE [limit |-> limit, fee |-> fee, cost |-> limit * fee, l1 |-> e.l1 * fee]

\* build_aave_simulation_response; None stands for its refusals.
build_aave_simulation_response(in, q, e) ==
    LET d == in.reserves[q.debt]
        wp == in.reserves["weth"].price
        gas == bounded_aave_gas_quote(e)
        weth == debt_to_weth_floor(e.profit, d.price, wp, d.unit)
        premium == percent_mul(q.repay, in.premium)
    IN IF gas = None \/ e.profit < q.profit \/ weth < gas.cost + e.bid THEN None
       ELSE [limit |-> gas.limit, fee |-> gas.fee, cost |-> gas.cost, l1 |-> gas.l1,
             profit |-> e.profit, profitWeth |-> weth, premium |-> premium,
             premiumWeth |-> debt_to_weth_floor(premium, d.price, wp, d.unit),
             net |-> weth - gas.cost - e.bid]

\* AaveSimulateResponse::validate.
SimulationValid(in, q, e, r) ==
    LET d == in.reserves[q.debt]
        wp == in.reserves["weth"].price
    IN /\ r.limit # 0 /\ r.limit <= e.gasLimit
       /\ r.fee # 0 /\ r.fee <= e.maxFee
       /\ r.cost # 0 /\ r.cost = r.limit * r.fee
       /\ r.profitWeth = debt_to_weth_floor(r.profit, d.price, wp, d.unit)
       /\ r.premiumWeth = debt_to_weth_floor(r.premium, d.price, wp, d.unit)

-----------------------------------------------------------------------------
(* One borrower's way through the endpoints. *)

Init ==
    /\ phase = "read"
    /\ input \in Inputs
    /\ exact = None
    /\ sim = None

\* perform_aave_exact and resolve_aave_exact.
Exact ==
    /\ phase = "read"
    /\ exact' = supported_aave_liquidations(input)
    /\ phase' = IF exact'.err THEN "integrity"
                ELSE IF ExactValid(input, exact'.variants) THEN "answered" ELSE "refused"
    /\ UNCHANGED <<input, sim>>

\* The hunter simulates a variant under one of the live sizes.
Simulate ==
    /\ phase = "answered"
    /\ \E i \in DOMAIN exact.variants : \E live \in LevelSet : \E e \in Evidence :
         LET q == newSimulationRequest(input, exact.variants[i], live, e.minimum)
             r == build_aave_simulation_response(input, q, e)
         IN /\ sim' = [q |-> q, e |-> e, r |-> r]
            /\ phase' = IF ~RequestValid(input, q) THEN "invalid"
                        ELSE IF r = None THEN "incomplete"
                        ELSE IF SimulationValid(input, q, e, r) THEN "simulated" ELSE "disagreement"
    /\ UNCHANGED <<input, exact>>

Next == Exact \/ Simulate

Spec == Init /\ [][Next]_vars
-----------------------------------------------------------------------------
(* Properties. *)

Variants == IF phase \in {"answered", "refused"} THEN {exact.variants[i] : i \in DOMAIN exact.variants} ELSE {}

\* The size search misses nothing: a liquidatable position that some repayment
\* from the smallest reviewed size to the capacity would close without dust gets
\* a variant.  The search itself tries the reviewed sizes and the largest one only.
\* Across two assets it holds where the collateral covers the capacity; where it
\* does not, converting the last collateral to debt and back may lose a unit, and
\* the position is not sized.
SizedWhenPossible ==
    \A i \in 1..3 :
        LET d == input.reserves[Pairs[i][1]]
            c == input.reserves[Pairs[i][2]]
            wp == input.reserves["weth"].price
            Debt(weth) == weth_to_debt_floor(weth, wp, d.price, d.unit)
            bonus == IF input.emodeBonus # 0 /\ c.emode THEN input.emodeBonus ELSE c.bonus
            Amounts(r) == calculate_aave_liquidation_amounts(r, d, c, bonus)
            capacity == MinOf(close_capacity(input, d, c), Debt(MaximumReviewed))
        IN /\ phase = "answered" /\ input.health < Wad /\ Supported(d) /\ Seizable(c)
           /\ d.grace < input.time /\ c.grace < input.time
           /\ d = c \/ Amounts(capacity).actual = capacity
           /\ \E r \in Debt(Levels[1])..capacity :
                 Amounts(r).actual = r /\ aave_liquidation_dust_valid(d, c, Amounts(r))
           => \E v \in Variants : <<v.debt, v.collateral>> = Pairs[i]

\* After any variant the position is closed on one side or keeps at least the
\* leftover value on both, so Aave does not refuse the liquidation for dust.
NoDustLeft ==
    \A v \in Variants :
        LET d == input.reserves[v.debt]
            c == input.reserves[v.collateral]
        IN \/ v.actual = d.debt \/ v.seized = c.balance
           \/ /\ (d.debt - v.actual) * d.price > (LeftoverBase - 1) * d.unit
              /\ (c.balance - v.seized) * c.price >= LeftoverBase * c.unit

\* A large position above the close-factor health keeps at least half of the
\* account's debt: no variant repays more than the half of totalDebtBase.
HalfOfALargeDebt ==
    \A v \in Variants :
        LET d == input.reserves[v.debt]
            c == input.reserves[v.collateral]
        IN /\ input.health > CloseHealth
           /\ d.debt * d.price > (CloseBase - 1) * d.unit
           /\ c.balance * c.price >= CloseBase * c.unit
           => \/ v.actual * d.price <= percent_mul(input.totalDebtBase, Factor \div 2) * d.unit
              \/ d.debt * d.price <= percent_mul(input.totalDebtBase, Factor \div 2) * d.unit

\* resolve_aave_exact refuses its own answer only when a variant is worth
\* nothing to the liquidator or a terminal size rounds to a reviewed one.
RefusedOnlyAtTheEdge ==
    phase = "refused" => \E v \in Variants : Worthless(v) \/ (v.class = "terminal" /\ v.size \in LevelSet)

\* The gateway accepts every request the hunter builds from an Exact answer,
\* live or counterfactual: the conversions of screen.go and aave_state.rs agree.
HunterRequestsAccepted == phase # "invalid"

\* A simulation that the gateway builds passes its own contract: bounds, cost
\* and converted amounts agree.
SimulationsAccepted == phase # "disagreement"

\* runtime.rs: a borrower that cannot be sized gets no variants instead of
\* failing the read.
ExactIsAnswered == phase # "refused"
=============================================================================
