----------------------------- MODULE RouteGraph -----------------------------
(***************************************************************************)
(* The hunter's route graph and the events that go through it              *)
(* (phoenix-engine hunter/mod.rs): from_contracts with its depth-first     *)
(* enumeration of settlement cycles, the binding of policies, the index    *)
(* from pools to routes, and HunterCore's way from an event to the routes  *)
(* it evaluates.  What a route evaluates to is RouteSizing's matter.       *)
(***************************************************************************)
EXTENDS Integers, Sequences, FiniteSets, SequencesExt

CONSTANTS
    Universes,          \* [settlements, assets, pools]
    PolicySets(_),      \* the policies a universe may come with
    Events,             \* [id, block, ids, direction, selected]
    Modes,              \* of {"shadow", "live"}
    MaximumLegs, MaximumRoutes, MaximumCycles, MaximumPools, RoutesPerPool,
    AffectedPerEvent, OutputsPerEvent,
    MaxSeen,            \* MAX_SEEN_EVENT_ROUTES
    MaxEvents           \* bound of the model

Down == "zero_for_one"
Up == "one_for_zero"

VARIABLES
    universe, policies, mode,
    pc,
    todo, stack, legs, used, visited, routes, before,
    affected,           \* from a pool to the policies whose route it is on
    event, queue, produced,
    seen,
    log,                \* history: every key remembered
    last,               \* history: how the last event ended
    events

graphVars == <<todo, stack, legs, used, visited, routes, before>>
coreVars == <<event, queue, produced, seen, log, last, events>>
vars == <<universe, policies, mode, pc, graphVars, affected, coreVars>>

-----------------------------------------------------------------------------
(* Pools, edges and what a settlement cycle is.                            *)

Identity(p) == <<p.t0, p.t1, p.fee>>

Edge(p, d) ==
    [pool |-> p, from |-> IF d = Down THEN p.t0 ELSE p.t1,
     to |-> IF d = Down THEN p.t1 ELSE p.t0, direction |-> d]

Edges(u) == {Edge(p, d) : p \in u.pools, d \in {Down, Up}}

outgoing(t) == {e \in Edges(universe) : e.from = t}

PoolsOf(r) == {r[i].pool : i \in DOMAIN r}

IsCycle(r, s) ==
    /\ r[1].from = s /\ r[Len(r)].to = s
    /\ \A i \in 1..(Len(r) - 1) : r[i].to = r[i + 1].from /\ r[i].to # s
    /\ \A i, j \in DOMAIN r : i # j => r[i].pool # r[j].pool /\ r[i].to # r[j].to

CyclesAt(u, s) ==
    UNION {{r \in [1..n -> Edges(u)] : IsCycle(r, s)} : n \in 2..MaximumLegs}

Cycles(u) == UNION {CyclesAt(u, s) : s \in u.settlements}

-----------------------------------------------------------------------------
(* Loading the contracts.                                                  *)

NoEvent == [id |-> 0, block |-> 0, ids |-> {}, direction |-> "unknown", selected |-> 0]

Init ==
    /\ universe \in Universes /\ policies \in PolicySets(universe) /\ mode \in Modes
    /\ pc = "validate"
    /\ todo = {} /\ stack = << >> /\ legs = << >> /\ used = {} /\ visited = {}
    /\ routes = {} /\ before = 0
    /\ affected = << >>
    /\ event = NoEvent /\ queue = << >> /\ produced = {} /\ seen = << >> /\ log = << >>
    /\ last = "none" /\ events = 0

validate_universe ==
    /\ universe.pools # {} /\ Cardinality(universe.pools) <= MaximumPools
    /\ universe.settlements \subseteq universe.assets
    /\ \A p \in universe.pools : {p.t0, p.t1} \subseteq universe.assets /\ p.t0 < p.t1 /\ p.fee > 0

\* A policy's index is its fingerprint.
validate_policy(p) ==
    /\ Len(p.path) \in 2..MaximumLegs
    /\ p.path[1].from = p.path[Len(p.path)].to
    /\ p.shadow \/ p.live

ReadContracts ==
    /\ pc = "validate"
    /\ pc' = IF ~validate_universe THEN "invalid_universe"
             ELSE IF \E i \in DOMAIN policies : ~validate_policy(policies[i]) THEN "invalid_policy"
             ELSE "settlement"
    /\ todo' = universe.settlements
    /\ UNCHANGED <<universe, policies, mode, stack, legs, used, visited, routes, before, affected, coreVars>>

\* The sorted order, whichever it is.
First(S) == CHOOSE x \in S : TRUE

enumerate_routes ==
    /\ pc = "settlement" /\ todo # {}
    /\ LET s == First(todo)
       IN  /\ todo' = todo \ {s}
           /\ stack' = <<[node |-> s, rest |-> outgoing(s)]>>
           /\ visited' = {s}
    /\ used' = {} /\ legs' = << >> /\ before' = Cardinality(routes)
    /\ pc' = "enumerate"
    /\ UNCHANGED <<universe, policies, mode, routes, affected, coreVars>>

settlement == stack[1].node
Top == stack[Len(stack)]
Without(e) == [stack EXCEPT ![Len(stack)].rest = @ \ {e}]

Refused(e) == e.pool \in used \/ (e.to # settlement /\ e.to \in visited)

Close(e) ==
    /\ routes' = IF Len(legs) + 1 >= 2 THEN routes \cup {Append(legs, e)} ELSE routes
    /\ pc' = IF Cardinality(routes') > MaximumRoutes THEN "route_limit" ELSE pc
    /\ stack' = Without(e)
    /\ UNCHANGED <<legs, used, visited>>

Descend(e) ==
    /\ legs' = Append(legs, e)
    /\ used' = used \cup {e.pool}
    /\ visited' = visited \cup {e.to}
    /\ stack' = Append(Without(e), [node |-> e.to,
                                    rest |-> IF Len(legs') >= MaximumLegs THEN {} ELSE outgoing(e.to)])
    /\ UNCHANGED <<routes, pc>>

\* enumerate_from, the body of its loop.
TryEdge ==
    /\ pc = "enumerate" /\ Top.rest # {}
    /\ LET e == First(Top.rest)
       IN  \/ Refused(e) /\ stack' = Without(e) /\ UNCHANGED <<legs, used, visited, routes, pc>>
           \/ ~Refused(e) /\ e.to = settlement /\ Close(e)
           \/ ~Refused(e) /\ e.to # settlement /\ Descend(e)
    /\ UNCHANGED <<universe, policies, mode, todo, before, affected, coreVars>>

\* enumerate_from, after the call it made for an edge.
Backtrack ==
    /\ pc = "enumerate" /\ Top.rest = {} /\ Len(stack) > 1
    /\ legs' = Front(legs)
    /\ used' = used \ {Last(legs).pool}
    /\ visited' = visited \ {Last(legs).to}
    /\ stack' = Front(stack)
    /\ UNCHANGED <<universe, policies, mode, pc, todo, routes, before, affected, coreVars>>

SettlementDone ==
    /\ pc = "enumerate" /\ Top.rest = {} /\ Len(stack) = 1
    /\ pc' = IF Cardinality(routes) - before > MaximumCycles THEN "route_limit" ELSE "settlement"
    /\ UNCHANGED <<universe, policies, mode, graphVars, affected, coreVars>>

\* policy_matches_route
Matching(r) == {i \in DOMAIN policies : policies[i].path = r}

\* Mutant: a route is found by its first pool only.
build_affected_index_FirstLeg ==
    [p \in universe.pools |-> {i \in DOMAIN policies : policies[i].path[1].pool = p}]

build_affected_index ==
    [p \in universe.pools |-> {i \in DOMAIN policies : p \in PoolsOf(policies[i].path)}]

\* from_contracts, after the enumeration: one policy for a route, no policy
\* without a route.
Bind ==
    /\ pc = "settlement" /\ todo = {}
    /\ pc' = IF \E r \in routes : Cardinality(Matching(r)) > 1 THEN "duplicate_route"
             ELSE IF \E i \in DOMAIN policies : policies[i].path \notin routes THEN "policy_mismatch"
             ELSE IF \E p \in universe.pools : Cardinality(build_affected_index[p]) > RoutesPerPool
             THEN "route_limit"
             ELSE "ready"
    /\ affected' = build_affected_index
    /\ UNCHANGED <<universe, policies, mode, graphVars, coreVars>>

-----------------------------------------------------------------------------
(* HunterCore, and process_inner's own look at the graph before it.        *)

route_enabled(i) == IF mode = "live" THEN policies[i].live ELSE policies[i].shadow

enabled_route_count == Cardinality({i \in DOMAIN policies : route_enabled(i)})

\* pool_addresses_for_origin_pool_ids: every configured pool of that identity.
Touched(e) == {p \in universe.pools : Identity(p) \in e.ids}

affected_route_indices(e) == UNION {affected[p] : p \in Touched(e)}

AffectedLimit ==
    LET enabled == IF enabled_route_count = 0 THEN 1 ELSE enabled_route_count
    IN  IF AffectedPerEvent < enabled THEN AffectedPerEvent ELSE enabled

\* A route that trades against the swap comes before one that repeats it.
hunter_direction_rank(e, i) ==
    IF Cardinality(Touched(e)) # 1 \/ e.direction = "unknown" THEN 1
    ELSE LET leg == CHOOSE l \in Range(policies[i].path) : l.pool \in Touched(e)
         IN  IF leg.direction = e.direction THEN 1 ELSE 0

prioritized_affected_route_indices(e) ==
    LET Before(i, j) == \/ hunter_direction_rank(e, i) < hunter_direction_rank(e, j)
                        \/ hunter_direction_rank(e, i) = hunter_direction_rank(e, j) /\ i < j
    IN  SetToSortSeq(affected_route_indices(e), Before)

\* process_inner's lookup of the selected route.
Lookup(e) ==
    IF e.selected = 0 THEN "found"
    ELSE IF Cardinality(affected_route_indices(e)) > AffectedPerEvent THEN "affected_route_limit"
    ELSE IF e.selected \notin affected_route_indices(e) THEN "not_authorized"
    ELSE "found"

\* process_event_inner, before its loop.
Accepted(e) ==
    IF Lookup(e) # "found" THEN Lookup(e)
    ELSE IF Touched(e) = {} THEN "invalid_event"
    ELSE IF Cardinality(affected_route_indices(e)) > AffectedLimit THEN "affected_route_limit"
    ELSE "evaluating"

StartEvent ==
    /\ pc = "ready" /\ events < MaxEvents
    /\ \E e \in Events :
         /\ e.selected \in DOMAIN policies \cup {0}
         /\ event' = e
         /\ last' = Accepted(e)
         /\ pc' = IF last' = "evaluating" THEN "route" ELSE "ready"
         /\ queue' = IF last' # "evaluating" THEN << >>
                     ELSE IF e.selected # 0 THEN <<e.selected>>
                     ELSE prioritized_affected_route_indices(e)
    /\ produced' = {}
    /\ events' = events + 1
    /\ UNCHANGED <<universe, policies, mode, graphVars, affected, seen, log>>

Key(i) == <<event.id, event.block, i>>

\* The oldest key gives way.
remember(k) ==
    /\ seen' = IF Len(seen) < MaxSeen THEN Append(seen, k) ELSE Append(Tail(seen), k)
    /\ log' = Append(log, k)

Skipped(i) == ~route_enabled(i) \/ Key(i) \in Range(seen)

LoopGoesOn == queue # << >> /\ Cardinality(produced) < OutputsPerEvent

SkipRoute ==
    /\ pc = "route" /\ LoopGoesOn
    /\ Skipped(Head(queue))
    /\ queue' = Tail(queue)
    /\ UNCHANGED <<universe, policies, mode, pc, graphVars, affected, event, produced, seen, log, last, events>>

\* The key is remembered before the evaluation, whatever comes of it: a
\* candidate, nothing worth it or an incomplete state, or an error that ends
\* the event.
EvaluateRoute ==
    /\ pc = "route" /\ LoopGoesOn
    /\ ~Skipped(Head(queue))
    /\ remember(Key(Head(queue)))
    /\ queue' = Tail(queue)
    /\ \/ produced' = produced \cup {Head(queue)} /\ UNCHANGED <<pc, last>>
       \/ UNCHANGED <<produced, pc, last>>
       \/ UNCHANGED produced /\ pc' = "ready" /\ last' = "error"
    /\ UNCHANGED <<universe, policies, mode, graphVars, affected, event, events>>

EndEvent ==
    /\ pc = "route" /\ ~LoopGoesOn
    /\ pc' = "ready" /\ last' = "done"
    /\ UNCHANGED <<universe, policies, mode, graphVars, affected, event, queue, produced, seen, log, events>>

Next ==
    \/ ReadContracts \/ enumerate_routes \/ TryEdge \/ Backtrack \/ SettlementDone \/ Bind
    \/ StartEvent \/ SkipRoute \/ EvaluateRoute \/ EndEvent

Spec == Init /\ [][Next]_vars

-----------------------------------------------------------------------------

\* The depth-first walk of enumerate_from, with the sets it changes on the way
\* down and restores on the way up, finds exactly the simple cycles of two to
\* maximum_route_legs legs; it gives up only when there are too many.
EnumerationIsExact ==
    /\ pc = "settlement" /\ todo = {} => routes = Cycles(universe)
    /\ pc = "route_limit" =>
         \/ Cardinality(Cycles(universe)) > MaximumRoutes
         \/ \E s \in universe.settlements : Cardinality(CyclesAt(universe, s)) > MaximumCycles
         \/ \E p \in universe.pools : Cardinality(build_affected_index[p]) > RoutesPerPool

Concerned(i) == route_enabled(i) /\ PoolsOf(policies[i].path) \cap Touched(event) # {}

\* An event that is processed to its end has evaluated every enabled route
\* through a pool it touched, unless the outputs were used up first.
EveryConcernedRouteIsEvaluated ==
    last = "done" /\ event.selected = 0 /\ Cardinality(produced) < OutputsPerEvent
    => \A i \in DOMAIN policies : Concerned(i) => Key(i) \in Range(log)

Follows(i) == \E l \in Range(policies[i].path) : l.pool \in Touched(event) /\ l.direction = event.direction

\* With the outputs of an event limited, a route that repeats the initiating
\* swap takes no place from one that trades against it
\* (hunter_direction_rank).
CounterTradesComeFirst ==
    event.selected = 0 /\ Cardinality(Touched(event)) = 1 /\ event.direction # "unknown"
    => \A i \in produced, j \in DOMAIN policies :
         Follows(i) /\ Concerned(j) /\ ~Follows(j) => Key(j) \in Range(log)

\* The bounded memory of HunterCore: between two evaluations of one route for
\* one event and block lie at least MAX_SEEN_EVENT_ROUTES others, so that one
\* repeated delivery never evaluates twice.
RepeatsAreFarApart ==
    \A i, j \in DOMAIN log : i < j /\ log[i] = log[j] => j - i > MaxSeen

\* docs/AUTONOMOUS_HUNTER_A1_REVENUE_EVIDENCE.md: "A1 fails closed on
\* configured maxima for ... affected routes per event": an event is refused
\* for its routes only when they exceed that maximum.
RefusedOnlyOverTheMaximum ==
    last = "affected_route_limit" => Cardinality(affected_route_indices(event)) > AffectedPerEvent

=============================================================================
