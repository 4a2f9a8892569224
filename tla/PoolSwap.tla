------------------------------ MODULE PoolSwap ------------------------------
(***************************************************************************)
(* The exact-input simulation of the hunter (phoenix-engine hunter/mod.rs  *)
(* over amm/v3) and the pool state it runs on, which the gateway reads     *)
(* around the current tick (runtime.rs perform_hunter_state_bundle,        *)
(* hunter_state.rs).  A pool is the set of positions that are open in it;  *)
(* prices are square roots in units of 1/Q instead of 2^96, and            *)
(* sqrt_ratio_at_tick is a table.  Every other integer operation is the    *)
(* one of the code, rounding included.                                     *)
(***************************************************************************)
EXTENDS Integers, FiniteSets, FiniteSetsExt, Functions

CONSTANTS
    Pools,          \* [tick, above, positions]: above is the price over the tick's
    Inputs,         \* amounts to swap
    Ratio,          \* sqrt_ratio_at_tick, increasing
    Q,              \* one, in price units
    Spacing,        \* tick_spacing
    WordBits,       \* bits of one tick bitmap word
    Words,          \* maximum_tick_words_per_pool
    MaximumTicks,   \* maximum_initialized_ticks
    MaximumCrossings,
    Fee, FeeDenominator

Down == "zero_for_one"
Up == "one_for_zero"

VARIABLES
    pool, input, direction,
    pc,             \* "read", "swap", "impact" or the answer
    state,          \* PinnedV3PoolState
    price, liquidity, tick, remaining, output, crossings,
    walked          \* history: the price ranges swapped through

swapVars == <<price, liquidity, tick, remaining, output, crossings, walked>>
vars == <<pool, input, direction, pc, state, swapVars>>

-----------------------------------------------------------------------------
(* The pool on the chain.  A position is a record of ticks and liquidity.  *)

MinTick == Min(DOMAIN Ratio)
MaxTick == Max(DOMAIN Ratio)

Liquidities(ps) == FoldFunction(+, 0, [p \in ps |-> p.liquidity])

\* external: the liquidity of the pool between a tick and the next.
Profile(t) == Liquidities({p \in pool.positions : p.lower <= t /\ t < p.upper})

Initialized == UNION {{p.lower, p.upper} : p \in pool.positions}

\* external: the signed liquidityNet of a tick.
Net(t) == Liquidities({p \in pool.positions : p.lower = t})
          - Liquidities({p \in pool.positions : p.upper = t})

Price == Ratio[pool.tick] + pool.above

-----------------------------------------------------------------------------
(* The gateway's reading of it.                                            *)

\* Rounds down, as the code corrects its truncating division to do.
Compressed(t) == t \div Spacing

\* centered_word_positions: the word of the tick, half of the others before it.
centered_word_positions(t) ==
    LET start == (Compressed(t) \div WordBits) - (Words - 1) \div 2
    IN  start..(start + Words - 1)

Larger(a, b) == IF a > b THEN a ELSE b
Smaller(a, b) == IF a < b THEN a ELSE b

CoverageMax(words) == Smaller(((Max(words) + 1) * WordBits - 1) * Spacing, MaxTick)

CoverageMin(words) == Larger(Min(words) * WordBits * Spacing, MinTick)

\* tickBitmap and ticks of the words read.
ReadTicks(words) == {t \in Initialized : Compressed(t) \div WordBits \in words}

ReadState ==
    LET words == centered_word_positions(pool.tick)
        ticks == ReadTicks(words)
    IN  [tick |-> pool.tick, price |-> Price, liquidity |-> Profile(pool.tick),
         min |-> CoverageMin(words), max |-> CoverageMax(words),
         nets |-> [t \in ticks |-> Net(t)]]

\* PinnedV3PoolState::validate, what is left of it without encodings.
Valid(s) ==
    /\ s.min <= s.tick /\ s.tick <= s.max
    /\ s.liquidity > 0
    /\ \A t \in DOMAIN s.nets : s.min <= t /\ t <= s.max

NoState == [tick |-> 0, price |-> 0, liquidity |-> 0, min |-> 0, max |-> 0, nets |-> << >>]

Init ==
    /\ pool \in Pools /\ input \in Inputs /\ direction \in {Down, Up}
    /\ pc = "read"
    /\ state = NoState
    /\ price = 0 /\ liquidity = 0 /\ tick = 0 /\ remaining = 0 /\ output = 0 /\ crossings = 0
    /\ walked = {}

perform_hunter_state ==
    /\ pc = "read"
    /\ LET s == ReadState
       IN  IF s.liquidity = 0 \/ Cardinality(DOMAIN s.nets) > MaximumTicks
           THEN /\ pc' = "state_incomplete"
                /\ UNCHANGED <<state, swapVars>>
           ELSE IF ~Valid(s)
           THEN /\ pc' = "state_integrity"
                /\ UNCHANGED <<state, swapVars>>
           ELSE /\ pc' = "swap" /\ state' = s
                /\ price' = s.price /\ liquidity' = s.liquidity /\ tick' = s.tick
                /\ remaining' = input
                /\ UNCHANGED <<output, crossings, walked>>
    /\ UNCHANGED <<pool, input, direction>>

-----------------------------------------------------------------------------
(* amm/v3.                                                                 *)

div_rounding_up(n, d) == (n + d - 1) \div d

Divide(n, d, up) == IF up THEN div_rounding_up(n, d) ELSE n \div d

amount_0_delta(a, b, l, up) ==
    LET lower == Smaller(a, b)  upper == Larger(a, b)
    IN  Divide(l * Q * (upper - lower), upper * lower, up)

amount_1_delta(a, b, l, up) ==
    Divide(l * (Larger(a, b) - Smaller(a, b)), Q, up)

amount_less_fee(amount) == (amount * (FeeDenominator - Fee)) \div FeeDenominator

gross_from_net(net) == div_rounding_up(net * FeeDenominator, FeeDenominator - Fee)

next_sqrt_price_from_input(p, l, amount) ==
    IF direction = Down THEN div_rounding_up(l * Q * p, l * Q + amount * p)
    ELSE p + (amount * Q) \div l

spot_output(p, amount) ==
    IF direction = Down THEN (amount * p * p) \div (Q * Q)
    ELSE (amount * Q * Q) \div (p * p)

Input(a, b, l) ==
    IF direction = Down THEN amount_0_delta(a, b, l, TRUE) ELSE amount_1_delta(a, b, l, TRUE)

Output(a, b, l) ==
    IF direction = Down THEN amount_1_delta(a, b, l, FALSE) ELSE amount_0_delta(a, b, l, FALSE)

-----------------------------------------------------------------------------
(* simulate_pool_exact_input, one turn of its loop at a time.              *)

\* The initialized ticks ahead.  Downwards the current tick is not one of them.
Ahead ==
    IF direction = Down THEN {t \in DOMAIN state.nets : t < tick}
    ELSE {t \in DOMAIN state.nets : t > tick}

\* Mutant: without an initialized tick ahead the swap may run to the last tick.
TargetTick_Open ==
    IF Ahead # {} THEN (IF direction = Down THEN Max(Ahead) ELSE Min(Ahead))
    ELSE IF direction = Down THEN MinTick ELSE MaxTick

TargetTick ==
    IF Ahead # {} THEN (IF direction = Down THEN Max(Ahead) ELSE Min(Ahead))
    ELSE IF direction = Down THEN state.min ELSE state.max

apply_liquidity_net(l, net) == IF direction = Down THEN l - net ELSE l + net

Walk(to) == walked \cup {[from |-> price, to |-> to, liquidity |-> liquidity]}

Fail(answer) == pc' = answer /\ UNCHANGED swapVars

\* The input ends before the target.
StopWithin ==
    LET net  == amount_less_fee(remaining)
        next == next_sqrt_price_from_input(price, liquidity, net)
    IN  IF net = 0 THEN Fail("arithmetic")
        ELSE /\ output' = output + Output(price, next, liquidity)
             /\ remaining' = 0
             /\ price' = next
             /\ walked' = Walk(next)
             /\ UNCHANGED <<pc, liquidity, tick, crossings>>

\* The input reaches an initialized tick.
Cross(gross) ==
    LET target == Ratio[TargetTick]
        l      == apply_liquidity_net(liquidity, state.nets[TargetTick])
    IN  IF crossings + 1 > MaximumCrossings THEN Fail("state_incomplete")
        ELSE IF l < 0 THEN Fail("arithmetic")
        ELSE IF l = 0 THEN Fail("state_incomplete")
        ELSE /\ output' = output + Output(price, target, liquidity)
             /\ remaining' = remaining - gross
             /\ price' = target
             /\ walked' = Walk(target)
             /\ crossings' = crossings + 1
             /\ liquidity' = l
             /\ tick' = IF direction = Down THEN TargetTick - 1 ELSE TargetTick
             /\ UNCHANGED pc

SwapStep ==
    /\ pc = "swap" /\ remaining > 0
    /\ LET net   == Input(price, Ratio[TargetTick], liquidity)
           gross == gross_from_net(net)
       IN  IF TargetTick = tick \/ net = 0 THEN Fail("state_incomplete")
           ELSE IF remaining < gross THEN StopWithin
           ELSE IF Ahead = {} THEN Fail("state_incomplete")
           ELSE Cross(gross)
    /\ UNCHANGED <<pool, input, direction, state>>

SwapEnds ==
    /\ pc = "swap" /\ remaining = 0
    /\ pc' = IF output = 0 THEN "arithmetic" ELSE "impact"
    /\ UNCHANGED <<pool, input, direction, state, swapVars>>

\* exact_price_impact_bps: more than the spot output is an arithmetic error.
exact_price_impact ==
    /\ pc = "impact"
    /\ LET spot == spot_output(state.price, amount_less_fee(input))
       IN  pc' = IF spot = 0 \/ output > spot THEN "arithmetic" ELSE "answered"
    /\ UNCHANGED <<pool, input, direction, state, swapVars>>

Next == perform_hunter_state \/ SwapStep \/ SwapEnds \/ exact_price_impact

Spec == Init /\ [][Next]_vars

-----------------------------------------------------------------------------

\* The liquidity of every tick a range touches.
RangeHas(r) ==
    LET lower == Smaller(r.from, r.to)  upper == Larger(r.from, r.to)
    IN  \A t \in DOMAIN Ratio \ {MaxTick} :
          Ratio[t] < upper /\ lower < Ratio[t + 1] => Profile(t) = r.liquidity

\* Wherever simulate_pool_exact_input takes a swap, it uses the liquidity the
\* pool has there: a tick is crossed with the right sign, and beyond what the
\* gateway has read there is no answer.  (A swap down from a tick that is
\* itself initialized is left out.)
WalksTheProfile ==
    pc = "answered" /\ ~(direction = Down /\ pool.tick \in Initialized)
    => \A r \in walked : RangeHas(r)

\* docs/AUTONOMOUS_HUNTER_A1_REVENUE_EVIDENCE.md claims "initialized-tick
\* traversal, direction-correct liquidity-net application": the same of every
\* swap.
TraversesEveryTick == pc = "answered" => \A r \in walked : RangeHas(r)

\* However many ticks the swap crosses and however its steps are rounded, it
\* pays no more than the spot price: exact_price_impact_bps, which answers an
\* arithmetic error that quarantines the event, never meets such an output.
PaysNoMoreThanSpot ==
    pc = "impact" => output <= spot_output(state.price, amount_less_fee(input))

\* No answer has walked through more ranges than the policy's crossings allow.
CrossingsAreBounded == Cardinality(walked) <= MaximumCrossings + 1

\* What the gateway reads around a tick, on either side of zero and at the edge
\* of a bitmap word, passes its own validation.
ReadingsAreValid == pc # "state_integrity"

=============================================================================
