---------------------------- MODULE RouteSizing -----------------------------
(***************************************************************************)
(* The choice of an input size (phoenix-engine hunter/mod.rs               *)
(* optimize_route, evaluate_selected_size): a geometric ladder, then       *)
(* midpoints around the best size so far.  A curve says what the legs of   *)
(* the route make of every size; the costs are computed as in the code.    *)
(***************************************************************************)
EXTENDS Integers, Sequences, FiniteSets, FiniteSetsExt

CONSTANTS
    Curves,             \* from sizes to [kind, output, crossings]
    Limits,             \* [minimum, policy, settlement, universe, shadow]
    Bounds,             \* [probes, refinements]
    Selected,           \* sizes to evaluate alone; 0 is none
    SizeEvaluations,    \* the universe's maximum_size_evaluations
    Premium, ModelError, Denominator, Gas, TickGas, Ordering, Retained

VARIABLES
    curve, limits, bounds, selected,
    pc,
    sizes,              \* rest of the ladder
    evaluated,          \* sizes with an evaluation
    infeasible,         \* saw_economic_infeasible
    rounds,             \* refinements left
    answer,             \* the chosen size, or 0
    calls,              \* history: calls of evaluate_route
    settled             \* history: the refinement ended for want of a midpoint

inputVars == <<curve, limits, bounds, selected>>
vars == <<inputVars, pc, sizes, evaluated, infeasible, rounds, answer, calls, settled>>

minimum == limits.minimum
maximum == Min({limits.policy, limits.settlement, limits.universe, limits.shadow})

-----------------------------------------------------------------------------
(* evaluate_route.                                                         *)

mul_div_ceil(v, m, d) == (v * m + d - 1) \div d

Gross(s) == curve[s].output - s

total_cost(s) ==
    mul_div_ceil(s, Premium, Denominator)
    + Gas + TickGas * curve[s].crossings
    + Ordering
    + mul_div_ceil(IF Gross(s) > 0 THEN Gross(s) ELSE 0, ModelError, Denominator)

conservative_net_pnl(s) == Gross(s) - total_cost(s)

best_evaluation ==
    LET net == [s \in evaluated |-> conservative_net_pnl(s)]
    IN  CHOOSE s \in evaluated : \A t \in evaluated :
            net[t] < net[s] \/ (net[t] = net[s] /\ s <= t)

Worthwhile(s) == conservative_net_pnl(s) > Retained /\ conservative_net_pnl(s) > 0

-----------------------------------------------------------------------------

Init ==
    /\ curve \in Curves /\ limits \in Limits /\ bounds \in Bounds /\ selected \in Selected
    /\ pc = "start"
    /\ sizes = << >> /\ evaluated = {} /\ infeasible = FALSE
    /\ rounds = 0 /\ answer = 0 /\ calls = 0 /\ settled = FALSE

Doubled(k) == Min({minimum * 2^(k - 1), maximum})

Steps ==
    LET room == bounds.probes - bounds.refinements
        last == CHOOSE k \in 1..(maximum + 1) :
                    Doubled(k) = maximum /\ \A j \in 1..(k - 1) : Doubled(j) < maximum
    IN  Min({room, last})

\* Doubling from the minimum while there is room, then the maximum.
Ladder ==
    LET l == [k \in 1..Steps |-> Doubled(k)]
    IN  IF (Steps = 0 \/ l[Steps] # maximum) /\ Steps < bounds.probes THEN Append(l, maximum) ELSE l

optimize_route ==
    /\ pc = "start" /\ selected = 0
    /\ pc' = IF maximum < minimum THEN "rejected" ELSE "ladder"
    /\ sizes' = IF maximum < minimum THEN << >> ELSE Ladder
    /\ rounds' = bounds.refinements
    /\ UNCHANGED <<inputVars, evaluated, infeasible, answer, calls, settled>>

\* evaluate_selected_size
evaluate_selected_size ==
    /\ pc = "start" /\ selected # 0
    /\ IF selected < minimum \/ selected > maximum
       THEN pc' = "infeasible" /\ UNCHANGED <<answer, calls>>
       ELSE /\ calls' = calls + 1
            /\ LET kind == curve[selected].kind
               IN  pc' = IF kind = "ok" THEN (IF Worthwhile(selected) THEN "answered" ELSE "rejected")
                         ELSE IF kind = "infeasible" THEN "rejected"
                         ELSE kind
            /\ answer' = IF pc' = "answered" THEN selected ELSE 0
    /\ UNCHANGED <<inputVars, sizes, evaluated, infeasible, rounds, settled>>

\* One size of the ladder.
Probe ==
    /\ pc = "ladder" /\ sizes # << >>
    /\ LET kind == curve[Head(sizes)].kind
       IN  /\ evaluated' = IF kind = "ok" THEN evaluated \cup {Head(sizes)} ELSE evaluated
           /\ infeasible' = (infeasible \/ kind = "infeasible")
           /\ pc' = IF kind = "arithmetic" THEN "arithmetic" ELSE pc
    /\ sizes' = Tail(sizes)
    /\ calls' = calls + 1
    /\ UNCHANGED <<inputVars, rounds, answer, settled>>

LadderDone ==
    /\ pc = "ladder" /\ sizes = << >>
    /\ pc' = IF evaluated # {} THEN "refine" ELSE IF infeasible THEN "rejected" ELSE "state_incomplete"
    /\ UNCHANGED <<inputVars, sizes, evaluated, infeasible, rounds, answer, calls, settled>>

Lower == LET b == best_evaluation IN {s \in evaluated : s < b}
Upper == LET b == best_evaluation IN {s \in evaluated : s > b}

Middle(a, b) == a + (b - a) \div 2

LeftMiddle == IF Lower = {} THEN {} ELSE {Middle(Max(Lower), best_evaluation)} \ evaluated
RightMiddle == IF Upper = {} THEN {} ELSE {Middle(best_evaluation, Min(Upper))} \ evaluated

\* Mutant: only the left side is looked at where there is one.
Candidates_Left == IF Lower # {} THEN LeftMiddle ELSE RightMiddle

\* The midpoint to try: on the left, else on the right, if it is new.
Candidates == IF LeftMiddle # {} THEN LeftMiddle ELSE RightMiddle

\* A midpoint that cannot be evaluated is tried again in the next round.
Refine ==
    /\ pc = "refine" /\ rounds > 0
    /\ Cardinality(evaluated) < Min({bounds.probes, 32})
    /\ \E s \in Candidates :
         /\ evaluated' = IF curve[s].kind = "ok" THEN evaluated \cup {s} ELSE evaluated
         /\ pc' = IF curve[s].kind = "arithmetic" THEN "arithmetic" ELSE pc
    /\ rounds' = rounds - 1
    /\ calls' = calls + 1
    /\ UNCHANGED <<inputVars, sizes, infeasible, answer, settled>>

Answer ==
    /\ pc = "refine"
    /\ rounds = 0 \/ Cardinality(evaluated) >= Min({bounds.probes, 32}) \/ Candidates = {}
    /\ pc' = IF Worthwhile(best_evaluation) THEN "answered" ELSE "rejected"
    /\ answer' = IF Worthwhile(best_evaluation) THEN best_evaluation ELSE 0
    /\ settled' = (Candidates = {})
    /\ UNCHANGED <<inputVars, sizes, evaluated, infeasible, rounds, calls>>

Next == optimize_route \/ evaluate_selected_size \/ Probe \/ LadderDone \/ Refine \/ Answer

Spec == Init /\ [][Next]_vars

-----------------------------------------------------------------------------

InRange == minimum..maximum

\* Every size can be evaluated, and the result rises to one best and falls.
OneHill ==
    /\ \A s \in InRange : curve[s].kind = "ok"
    /\ LET net == [s \in InRange |-> conservative_net_pnl(s)]
           up  == {s \in InRange \ {maximum} : net[s] < net[s + 1]}
       IN  /\ \A s \in InRange \ {maximum} : net[s] # net[s + 1]
           /\ \A s \in up : s > minimum => s - 1 \in up

TrueBest ==
    LET net == [s \in InRange |-> conservative_net_pnl(s)]
    IN  CHOOSE b \in InRange : \A s \in InRange : net[s] <= net[b]

Chosen == pc = "answered" /\ selected = 0

\* As by default: room for the ladder, and for its maximum.
HasRoom == 0 < bounds.refinements /\ bounds.refinements < bounds.probes

\* The best size there is lies between the neighbours of the size
\* optimize_route chooses: it is never on a part of the range that was not
\* looked at.
BracketsTheBest ==
    Chosen /\ OneHill /\ HasRoom
    => /\ Lower = {} \/ Max(Lower) < TrueBest
       /\ Upper = {} \/ Min(Upper) > TrueBest
       /\ Lower = {} => TrueBest >= answer
       /\ Upper = {} => TrueBest <= answer

\* When the refinement ends because there is no midpoint left, the size it
\* chose is the best one.
SettlesOnTheBest ==
    Chosen /\ settled /\ OneHill /\ HasRoom => answer = TrueBest

\* Of sizes that promise the same the smallest is taken, and none is taken
\* that promises less than another that was evaluated.
TiesChooseTheSmaller ==
    Chosen => \A s \in evaluated :
        \/ conservative_net_pnl(s) < conservative_net_pnl(answer)
        \/ conservative_net_pnl(s) = conservative_net_pnl(answer) /\ answer <= s

\* A candidate keeps more than the retained profit after its exact, unrounded
\* costs: the premium on the input and the model error on the gross profit are
\* never rounded in its favour.
KeepsTheRetainedProfit ==
    pc = "answered" =>
      Denominator * (Gross(answer) - Gas - TickGas * curve[answer].crossings - Ordering)
        - Premium * answer - ModelError * Gross(answer) > Denominator * Retained

\* docs/AUTONOMOUS_HUNTER_A1_REVENUE_EVIDENCE.md: "A1 fails closed on
\* configured maxima for ... size probes": a route is evaluated at no more
\* sizes than the universe's hard cap.
EvaluationsAreCapped == calls <= SizeEvaluations

=============================================================================
