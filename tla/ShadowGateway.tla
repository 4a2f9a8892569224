---------------------------- MODULE ShadowGateway ----------------------------
(***************************************************************************)
(* GatewayRuntime of rpc-gateway/src/runtime.rs: the shared head, the      *)
(* SHADOW primary and verification reads with their caches and single      *)
(* flights, the Hunter read, the source evidence read, provider failover,  *)
(* the call budget, and the deadlines of main.rs that drop a request at    *)
(* any await.  A provider's chain is view[p]: the block hash it serves at  *)
(* each number.  A hash stands for the state under it, so a state read     *)
(* from a provider is the hash it was read under, or the provider itself   *)
(* when the provider answers with a state of its own making.               *)
(***************************************************************************)
EXTENDS ProviderPool, Sequences

CONSTANTS
    Request,      \* HTTP requests and turns of the probe loop
    Kind,         \* Kind[r]: primary, verify, hunter, source, trace or probe
    Route,        \* route configurations (route_config_hash)
    MaxNumber,    \* highest block number
    Burst,        \* upstream_call_burst
    StateBurst,   \* state_requests_per_minute
    MaxInFlight,  \* MAX_IN_FLIGHT_REQUESTS
    ExactLane,    \* whether the paced Aave reads run beside these requests
    MaxFaults,    \* bound on answers other than the expected one
    MaxReorgs,    \* bound on blocks a provider replaces
    MaxTimeouts,  \* bound on deadlines that fire
    MaxTicks,     \* bound on what time changes: refills, elapsed cooldowns, expired entries
    None

Number == 1..MaxNumber
Hash == {"a", "b"}
Block == [n : Number, h : Hash]
Snapshot == [prov : Provider, block : Block]
Bundle == [route : Route, block : Block, prov : Provider, state : Hash \cup Provider]
Failure == {"transport", "integrity", "limited"}

VARIABLES
    view,          \* external: per provider, number -> hash or None
    tokens,        \* upstream_budget
    requests,      \* request_budget
    pool,          \* providers
    limited,       \* history: providers inside the Retry-After of a 429
    verified,      \* chain_verified and multicall_verified: setup checks passed, in order
    static,        \* static_cache: <<provider, route>>
    routeCache,    \* route_cache: bundles, one per route and block
    verifyCache,   \* verification_cache: [of, with, status]
    hunterCache,   \* hunter_state_cache: [block, first, second]
    head,          \* head: None or [snap, fresh]
    headFlight,    \* head_in_flight: None or its leader
    flight,        \* primary_in_flight and verification_in_flight: [key, leader]
    opLock,        \* upstream_operation_lock: None or its holder
    healthy,       \* readiness.provider_healthy
    req,           \* the requests: program counter, locals and reply; failed is history:
                   \* the providers that failed the loop the request is in
    delivered,     \* primary bundles clients have received
    faults, reorgs, timeouts, ticks

budgets == <<tokens, requests>>
provs == <<pool, limited, verified>>
caches == <<static, routeCache, verifyCache, hunterCache>>
flights == <<headFlight, flight>>
world == <<view, delivered, reorgs, timeouts, ticks>>
shared == <<budgets, provs, caches, flights, world, head, opLock, healthy, faults>>
vars == <<shared, req>>

\* A reply, or a published result, other than a value.
Err(what) == [err |-> what]

Idle == [pc |-> "idle", route |-> None, block |-> None, of |-> None, lead |-> None,
         excl |-> {}, failed |-> {}, pref |-> None, prov |-> None, read |-> None, first |-> None,
         reads |-> <<>>, task |-> None, broken |-> FALSE, headSent |-> None, sent |-> None, out |-> Err("none")]

Init ==
    /\ view = [p \in Provider |-> [n \in Number |-> IF n = 1 THEN "a" ELSE None]]
    /\ tokens = Burst /\ requests = StateBurst
    /\ pool = InitPool /\ limited = {} /\ verified = [p \in Provider |-> 0]
    /\ static = {} /\ routeCache = {} /\ verifyCache = {} /\ hunterCache = {}
    /\ head = None /\ healthy = FALSE
    /\ headFlight = None /\ flight = [primary |-> {}, verify |-> {}]
    /\ opLock = None
    /\ req = [r \in Request |-> Idle]
    /\ delivered = {} /\ faults = 0 /\ reorgs = 0 /\ timeouts = 0 /\ ticks = 0

-----------------------------------------------------------------------------
(* Program counters. *)

At(r, pc) == req[r].pc = pc
Goto(r, pc) == req' = [req EXCEPT ![r].pc = pc]

\* The reply; the locals die, the watch channels the request sent on do not.
Finish(r, out) ==
    req' = [req EXCEPT ![r] = [Idle EXCEPT !.pc = "done", !.out = out, !.sent = req[r].sent,
                                           !.headSent = req[r].headSent]]

\* A request that can still step.
Running(r) == req[r].pc \notin {"idle", "done"}

-----------------------------------------------------------------------------
(* Arrival: validate, then request_budget.admit.  The probe loop has no     *)
(* such budget.                                                            *)

Admit(r, next) ==
    /\ At(r, "idle")
    /\ \/ requests > 0 /\ requests' = requests - 1 /\ next
       \/ requests = 0 /\ UNCHANGED requests /\ Finish(r, Err("request_budget"))
    /\ UNCHANGED <<tokens, provs, caches, flights, world, head, opLock, healthy, faults>>

ResolvePrimary(r) ==
    /\ Kind[r] = "primary"
    /\ \E route \in Route : Admit(r, req' = [req EXCEPT ![r].pc = "head", ![r].route = route])

\* A client verifies a bundle it was given.
ResolveVerify(r) ==
    /\ Kind[r] = "verify"
    /\ \E b \in delivered :
          Admit(r, req' = [req EXCEPT ![r].pc = "lookup", ![r].route = b.route,
                                      ![r].block = b.block, ![r].of = b])

ResolveHunter(r) == Kind[r] = "hunter" /\ Admit(r, Goto(r, "head"))

\* A trace request is a source request with state_reconstruction_required.
ResolveSource(r) ==
    /\ Kind[r] \in {"source", "trace"}
    /\ Admit(r, req' = [req EXCEPT ![r].pc = "lock", ![r].task = "source"])

Probe(r) ==
    /\ Kind[r] = "probe"
    /\ At(r, "idle")
    /\ Goto(r, "headrole")
    /\ UNCHANGED shared

-----------------------------------------------------------------------------
(* The shared head: current_head and refresh_head_shared. *)

\* What a request does with the head, or with the error in its place.
AfterHead(r, result) ==
    IF result \notin Snapshot THEN Finish(r, result)
    ELSE CASE Kind[r] = "probe"   -> Finish(r, Err("ok"))
           [] Kind[r] = "primary" -> req' = [req EXCEPT ![r].pc = "lookup", ![r].block = result.block,
                                                        ![r].pref = result.prov]
           [] Kind[r] = "hunter"  -> req' = [req EXCEPT ![r].pc = "hlookup", ![r].block = result.block,
                                                        ![r].pref = result.prov]

\* current_head looks at the head and refresh_head_shared looks again; a probe
\* forces the refresh.
CurrentHead(r) ==
    /\ req[r].pc \in {"head", "headlook"}
    /\ IF head # None /\ head.fresh THEN AfterHead(r, head.snap)
       ELSE Goto(r, IF At(r, "head") THEN "headlook" ELSE "headrole")
    /\ UNCHANGED shared

HeadRole(r) ==
    /\ At(r, "headrole")
    /\ \/ /\ headFlight = None
          /\ headFlight' = r
          /\ req' = [req EXCEPT ![r].pc = "lock", ![r].task = "head"]
       \/ /\ headFlight # None
          /\ req' = [req EXCEPT ![r].pc = "headwait", ![r].lead = headFlight]
          /\ UNCHANGED headFlight
    /\ UNCHANGED <<budgets, provs, caches, flight, world, head, opLock, healthy, faults>>

\* wait_for_watch: what the leader published, or an error when its sender is gone.
HeadWait(r) ==
    /\ At(r, "headwait")
    /\ LET sent == req[req[r].lead].headSent IN
       IF sent # None THEN AfterHead(r, sent)
       ELSE ~Running(req[r].lead) /\ Finish(r, Err("unavailable"))
    /\ UNCHANGED shared

\* The leader publishes, then clears head_in_flight, then goes on.
HeadSend(r) ==
    /\ At(r, "headsend")
    /\ req' = [req EXCEPT ![r].pc = "headclear", ![r].headSent = req[r].read]
    /\ UNCHANGED shared

HeadClear(r) ==
    /\ At(r, "headclear")
    /\ headFlight' = None
    /\ AfterHead(r, req[r].headSent)
    /\ UNCHANGED <<budgets, provs, caches, flight, world, head, opLock, healthy, faults>>

-----------------------------------------------------------------------------
(* The caches and the single flights of resolve_primary and                *)
(* resolve_verification.                                                   *)

FlightKey(r) == IF Kind[r] = "primary" THEN <<req[r].route, req[r].block>> ELSE req[r].of

CachedBundle(r) == {b \in routeCache : b.route = req[r].route /\ b.block = req[r].block}
CachedEvidence(r) == {e \in verifyCache : e.of = req[r].of}

\* A primary that answers puts its bundle in the hands of a client.
Reply(r, result) ==
    /\ Finish(r, result)
    /\ delivered' = IF result \in Bundle THEN delivered \cup {result} ELSE delivered

\* The first look: a primary in route_cache; a verification first needs its
\* primary in route_cache, unchanged.
Lookup(r) ==
    /\ At(r, "lookup")
    /\ \/ /\ Kind[r] = "primary"
          /\ IF CachedBundle(r) # {} THEN \E b \in CachedBundle(r) : Reply(r, b)
             ELSE Goto(r, "role") /\ UNCHANGED delivered
       \/ /\ Kind[r] = "verify"
          /\ UNCHANGED delivered
          /\ CASE CachedBundle(r) = {} -> Finish(r, Err("unavailable"))
               [] \E b \in CachedBundle(r) : b.state # req[r].of.state -> Finish(r, Err("integrity"))
               [] OTHER -> \E b \in CachedBundle(r) :
                              req' = [req EXCEPT ![r].pc = "vlookup", ![r].of = b]
    /\ UNCHANGED <<budgets, provs, caches, flights, view, reorgs, timeouts, ticks, head, opLock, healthy, faults>>

VerifyLookup(r) ==
    /\ At(r, "vlookup")
    /\ IF CachedEvidence(r) # {} THEN \E e \in CachedEvidence(r) : Finish(r, e)
       ELSE Goto(r, "role")
    /\ UNCHANGED shared

\* A leader goes on to bundle_with_failover; a verification excludes the
\* provider of its primary.
Lead(r) ==
    req' = [req EXCEPT ![r].pc = "lock", ![r].task = "bundle",
                       ![r].excl = IF Kind[r] = "verify" THEN {req[r].of.prov} ELSE {}]

\* primary_role and verification_role.
Role(r) ==
    /\ At(r, "role")
    /\ LET led == {f \in flight[Kind[r]] : f.key = FlightKey(r)} IN
       \/ /\ led # {}
          /\ \E f \in led : req' = [req EXCEPT ![r].pc = "wait", ![r].lead = f.leader]
          /\ UNCHANGED flight
       \/ /\ led = {} /\ Cardinality(flight[Kind[r]]) >= MaxInFlight
          /\ Finish(r, Err("request_budget"))
          /\ UNCHANGED flight
       \/ /\ led = {} /\ Cardinality(flight[Kind[r]]) < MaxInFlight
          /\ flight' = [flight EXCEPT ![Kind[r]] = @ \cup {[key |-> FlightKey(r), leader |-> r]}]
          /\ IF Kind[r] = "primary" THEN Goto(r, "recheck") ELSE Lead(r)
    /\ UNCHANGED <<budgets, provs, caches, headFlight, world, head, opLock, healthy, faults>>

\* A follower takes what its leader sends, or an error when the sender is gone.
Wait(r) ==
    /\ At(r, "wait")
    /\ LET sent == req[req[r].lead].sent IN
       IF sent # None THEN Reply(r, sent)
       ELSE ~Running(req[r].lead) /\ Reply(r, Err("unavailable"))
    /\ UNCHANGED <<budgets, provs, caches, flights, view, reorgs, timeouts, ticks, head, opLock, healthy, faults>>

\* A primary leader looks at route_cache again before it reads.
Recheck(r) ==
    /\ At(r, "recheck")
    /\ IF CachedBundle(r) # {}
       THEN \E b \in CachedBundle(r) : req' = [req EXCEPT ![r].pc = "send", ![r].read = b]
       ELSE Lead(r)
    /\ UNCHANGED shared

\* insert: the entry of the key is replaced.  Errors are published uncached.
CacheInsert(r) ==
    /\ At(r, "insert")
    /\ IF Kind[r] = "primary"
       THEN routeCache' = (routeCache \ CachedBundle(r)) \cup {req[r].read} /\ UNCHANGED verifyCache
       ELSE verifyCache' = (verifyCache \ CachedEvidence(r)) \cup {req[r].read} /\ UNCHANGED routeCache
    /\ Goto(r, "send")
    /\ UNCHANGED <<budgets, provs, static, hunterCache, flights, world, head, opLock, healthy, faults>>

Send(r) ==
    /\ At(r, "send")
    /\ req' = [req EXCEPT ![r].pc = "clear", ![r].sent = req[r].read]
    /\ UNCHANGED shared

Clear(r) ==
    /\ At(r, "clear")
    /\ flight' = [flight EXCEPT ![Kind[r]] = {f \in @ : f.key # FlightKey(r)}]
    /\ Reply(r, req[r].sent)
    /\ UNCHANGED <<budgets, provs, caches, headFlight, view, reorgs, timeouts, ticks, head, opLock, healthy, faults>>

-----------------------------------------------------------------------------
(* The provider loop of refresh_head_uncached, bundle_with_failover and    *)
(* resolve_source_inclusion, under upstream_operation_lock.                *)

OperationLock(r) ==
    /\ At(r, "lock")
    /\ opLock = None
    /\ opLock' = r
    /\ req' = [req EXCEPT ![r].pc = "pick", ![r].failed = {}]
    /\ UNCHANGED <<budgets, provs, caches, flights, world, head, healthy, faults>>

\* Leaving the locked function with an error: a leader publishes it.
Abort(r, error) ==
    /\ opLock' = None
    /\ CASE req[r].task = "head"   -> req' = [req EXCEPT ![r].pc = "headsend", ![r].read = error]
         [] req[r].task = "bundle" -> req' = [req EXCEPT ![r].pc = "send", ![r].read = error]
         [] OTHER                  -> Finish(r, error)

\* No provider is left.  A verification that finds none is evidence too.
LoopEnds(r) ==
    /\ healthy' = IF req[r].task = "head" \/ Kind[r] = "primary" THEN FALSE ELSE healthy
    /\ IF req[r].task = "bundle" /\ Kind[r] = "verify"
       THEN /\ opLock' = None
            /\ req' = [req EXCEPT ![r].pc = "insert",
                   ![r].read = [of |-> req[r].of, with |-> None,
                                status |-> IF req[r].broken THEN "integrity" ELSE "unavailable"]]
       ELSE Abort(r, Err(IF req[r].task = "source" /\ req[r].broken THEN "integrity" ELSE "unavailable"))

\* Mutant: the cooldown alone keeps the loop from a provider that failed it.
Candidates_IgnoresExcluded(r) ==
    IF req[r].pref # None /\ req[r].task = "bundle" /\ Eligible(pool, req[r].pref)
    THEN {req[r].pref}
    ELSE ReserveBest(pool, {})

\* The next provider: the preferred one once, then the best one left.
Candidates(r) ==
    IF req[r].pref # None /\ req[r].task = "bundle" /\ Eligible(pool, req[r].pref)
    THEN {req[r].pref}
    ELSE ReserveBest(pool, req[r].excl)

SetupCalls(p) == 2 - verified[p]

\* Mutant: the hash check is not counted.
WorkCalls_Multicall(r) == IF Kind[r] = "trace" /\ req[r].task = "source" THEN 5
                          ELSE IF req[r].task = "source" THEN 3 ELSE 1

WorkCalls(r) == CASE req[r].task = "head"   -> 1
                  [] req[r].task = "bundle" -> 2
                  [] OTHER                  -> IF Kind[r] = "trace" THEN 5 ELSE 3

\* reserve, then admit_upstream_sequence, which looks at the budget and takes nothing.
PickProvider(r) ==
    /\ At(r, "pick")
    /\ req[r].task # "hunter"
    /\ \/ /\ Candidates(r) = {}
          /\ LoopEnds(r)
       \/ \E p \in Candidates(r) :
             /\ IF tokens < SetupCalls(p) + WorkCalls(r)
                THEN Abort(r, Err("upstream_budget"))
                ELSE /\ req' = [req EXCEPT ![r].pc = "setup", ![r].prov = p, ![r].pref = None,
                                           ![r].excl = @ \cup {p}]
                     /\ UNCHANGED opLock
             /\ UNCHANGED healthy
    /\ UNCHANGED <<budgets, provs, caches, flights, world, head, faults>>

-----------------------------------------------------------------------------
(* One upstream call: a token, then an answer. *)

\* A failed call.  The loops tell the pool and try the next provider; the
\* Hunter read returns the error.
Failed(r, how) ==
    IF req[r].task = "hunter"
    THEN /\ Abort(r, Err(IF how = "integrity" THEN "integrity" ELSE "unavailable"))
         /\ UNCHANGED <<pool, limited>>
    ELSE /\ pool' = ApplyFailure(pool, req[r].prov, how)
         /\ limited' = IF how = "limited" THEN limited \cup {req[r].prov} ELSE limited
         /\ req' = [req EXCEPT ![r].pc = "pick", ![r].prov = None, ![r].reads = <<>>,
                               ![r].failed = @ \cup {req[r].prov}, ![r].broken = @ \/ how = "integrity"]
         /\ UNCHANGED opLock

CallPoint == {"setup", "headread", "multicall", "hashcheck", "hread", "hcheck", "tx", "receipt", "block"}

CallDue(r) == req[r].pc \in CallPoint /\ ~(At(r, "setup") /\ SetupCalls(req[r].prov) = 0)

NoToken(r) ==
    /\ CallDue(r)
    /\ tokens = 0
    /\ Abort(r, Err("upstream_budget"))
    /\ UNCHANGED <<budgets, provs, caches, flights, world, head, healthy, faults>>

CallFails(r) ==
    /\ CallDue(r)
    /\ tokens > 0 /\ tokens' = tokens - 1
    /\ faults < MaxFaults /\ faults' = faults + 1
    /\ \E how \in Failure : Failed(r, how)
    /\ UNCHANGED <<requests, verified, caches, flights, world, head, healthy>>

\* An answered call: next and the rest of the action say what it does.
Called(r, pc) == At(r, pc) /\ tokens > 0 /\ tokens' = tokens - 1

\* ensure_provider_verified: eth_chainId, then the Multicall3 code, once each.
Setup(r) ==
    /\ Called(r, "setup")
    /\ SetupCalls(req[r].prov) > 0
    /\ verified' = [verified EXCEPT ![req[r].prov] = @ + 1]
    /\ UNCHANGED <<requests, pool, limited, caches, flights, world, head, opLock, healthy, req, faults>>

SetupDone(r) ==
    /\ At(r, "setup")
    /\ SetupCalls(req[r].prov) = 0
    /\ Goto(r, CASE req[r].task = "head"   -> "headread"
                 [] req[r].task = "bundle" -> "multicall"
                 [] req[r].task = "source" -> "tx"
                 [] OTHER                  -> IF req[r].first = None THEN "hsecond" ELSE "hread")
    /\ UNCHANGED shared

-----------------------------------------------------------------------------
(* refresh_head_uncached and update_head. *)

Latest(p) == CHOOSE n \in Number : view[p][n] # None /\ \A m \in Number : m > n => view[p][m] = None

HeadRead(r) ==
    /\ Called(r, "headread")
    /\ LET p == req[r].prov IN
       req' = [req EXCEPT ![r].pc = "invalidate",
                          ![r].read = [prov |-> p, block |-> [n |-> Latest(p), h |-> view[p][Latest(p)]]]]
    /\ UNCHANGED <<requests, provs, caches, flights, world, head, opLock, healthy, faults>>

\* Another hash at the head's number: its route entries and every
\* verification go, before the head is replaced.
Invalidate(r) ==
    /\ At(r, "invalidate")
    /\ LET new == req[r].read.block
           changed == head # None /\ head.snap.block.n = new.n /\ head.snap.block.h # new.h
       IN /\ routeCache' = IF changed THEN {b \in routeCache : b.block.n = new.n => b.block.h = new.h}
                           ELSE routeCache
          /\ verifyCache' = IF changed THEN {} ELSE verifyCache
    /\ Goto(r, "sethead")
    /\ UNCHANGED <<budgets, provs, static, hunterCache, flights, world, head, opLock, healthy, faults>>

SetHead(r) ==
    /\ At(r, "sethead")
    /\ head' = [snap |-> req[r].read, fresh |-> TRUE]
    /\ pool' = RecordSuccess(pool, req[r].prov)
    /\ healthy' = TRUE
    /\ opLock' = None
    /\ req' = [req EXCEPT ![r].pc = "headsend", ![r].excl = {}, ![r].prov = None]
    /\ UNCHANGED <<budgets, limited, verified, caches, flights, world, faults>>

-----------------------------------------------------------------------------
(* perform_state_bundle: one Multicall at a block number, then the hash     *)
(* served for that number.                                                 *)

\* The states provider p may answer with at number n.
Answers(p, n) == {view[p][n], p}

\* An answer of the provider's own making counts as a fault.
Lies(answer, p) == IF answer = p THEN faults < MaxFaults /\ faults' = faults + 1 ELSE UNCHANGED faults

Multicall(r) ==
    LET p == req[r].prov  n == req[r].block.n IN
    /\ Called(r, "multicall")
    /\ \/ /\ view[p][n] = None
          /\ Failed(r, "transport")
          /\ UNCHANGED faults
       \/ /\ view[p][n] # None
          /\ \E answer \in Answers(p, n) :
                /\ Lies(answer, p)
                /\ req' = [req EXCEPT ![r].pc = "hashcheck", ![r].read = answer]
          /\ UNCHANGED <<pool, limited, opLock>>
    /\ UNCHANGED <<requests, verified, caches, flights, world, head, healthy>>

\* compare_provider_results on two bundles of one block.
Compare(primary, state) == IF primary.state = state THEN "agreed" ELSE "disagreed"

BundleRead(r) ==
    LET p == req[r].prov IN
    /\ static' = static \cup {<<p, req[r].route>>}
    /\ pool' = RecordSuccess(pool, p)
    /\ healthy' = IF Kind[r] = "primary" THEN TRUE ELSE healthy
    /\ opLock' = None
    /\ req' = [req EXCEPT ![r].pc = "insert",
           ![r].read = IF Kind[r] = "primary"
                       THEN [route |-> req[r].route, block |-> req[r].block, prov |-> p, state |-> req[r].read]
                       ELSE [of |-> req[r].of, with |-> p, status |-> Compare(req[r].of, req[r].read)]]
    /\ UNCHANGED limited

HashCheck(r) ==
    /\ Called(r, "hashcheck")
    /\ IF view[req[r].prov][req[r].block.n] = req[r].block.h
       THEN BundleRead(r)
       ELSE Failed(r, "integrity") /\ UNCHANGED <<static, healthy>>
    /\ UNCHANGED <<requests, verified, routeCache, verifyCache, hunterCache, flights, world, head, faults>>

-----------------------------------------------------------------------------
(* resolve_hunter_state: the head's provider and another one, both read at  *)
(* the head's block.  perform_hunter_state_bundle reads code, identity,    *)
(* bitmaps and ticks at the number and then checks the hash: one read here. *)

HunterLookup(r) ==
    /\ At(r, "hlookup")
    /\ LET hit == {c \in hunterCache : c.block = req[r].block} IN
       IF hit # {} THEN \E c \in hit : Finish(r, c)
       ELSE req' = [req EXCEPT ![r].pc = "lock", ![r].task = "hunter"]
    /\ UNCHANGED shared

HunterFirst(r) ==
    /\ At(r, "pick")
    /\ req[r].task = "hunter"
    /\ IF Eligible(pool, req[r].pref)
       THEN req' = [req EXCEPT ![r].pc = "setup", ![r].prov = req[r].pref] /\ UNCHANGED opLock
       ELSE Abort(r, Err("unavailable"))
    /\ UNCHANGED <<budgets, provs, caches, flights, world, head, healthy, faults>>

HunterSecond(r) ==
    /\ At(r, "hsecond")
    /\ LET best == ReserveBest(pool, {req[r].prov}) IN
       \/ best = {} /\ Abort(r, Err("unavailable"))
       \/ \E p \in best : /\ req' = [req EXCEPT ![r].pc = "setup", ![r].first = req[r].prov, ![r].prov = p]
                          /\ UNCHANGED opLock
    /\ UNCHANGED <<budgets, provs, caches, flights, world, head, healthy, faults>>

HunterRead(r) ==
    LET p == IF req[r].reads = <<>> THEN req[r].first ELSE req[r].prov
        n == req[r].block.n IN
    /\ Called(r, "hread")
    /\ \/ /\ view[p][n] = None
          /\ Abort(r, Err("unavailable"))
          /\ UNCHANGED faults
       \/ /\ view[p][n] # None
          /\ \E answer \in Answers(p, n) :
                /\ Lies(answer, p)
                /\ req' = [req EXCEPT ![r].pc = "hcheck", ![r].reads = Append(@, answer)]
          /\ UNCHANGED opLock
    /\ UNCHANGED <<requests, provs, caches, flights, world, head, healthy>>

\* Both states in: the first provider is credited, then the states compared.
HunterAgree(r, states) ==
    /\ pool' = RecordSuccess(pool, req[r].first)
    /\ IF states[1] = states[2]
       THEN LET c == [block |-> req[r].block, first |-> req[r].first, second |-> req[r].prov,
                      state |-> states[1]] IN
            /\ hunterCache' = hunterCache \cup {c}
            /\ opLock' = None
            /\ Finish(r, c)
       ELSE Abort(r, Err("disagreement")) /\ UNCHANGED hunterCache

HunterCheck(r) ==
    LET p == IF Len(req[r].reads) = 1 THEN req[r].first ELSE req[r].prov IN
    /\ Called(r, "hcheck")
    /\ CASE view[p][req[r].block.n] # req[r].block.h -> Abort(r, Err("integrity")) /\ UNCHANGED <<pool, hunterCache>>
         [] Len(req[r].reads) = 1 -> Goto(r, "hread") /\ UNCHANGED <<opLock, pool, hunterCache>>
         [] OTHER -> HunterAgree(r, req[r].reads)
    /\ UNCHANGED <<requests, limited, verified, static, routeCache, verifyCache, flights, world, head, healthy, faults>>

-----------------------------------------------------------------------------
(* resolve_source_evidence: transaction, receipt and block from one         *)
(* provider, then two traces by transaction hash when they are asked for.  *)
(* The transaction sits in block number 1 of whichever chain is served.    *)

SourceRead(r, pc, next) ==
    /\ Called(r, pc)
    /\ req' = [req EXCEPT ![r].pc = next, ![r].reads = Append(@, view[req[r].prov][1])]
    /\ UNCHANGED <<requests, provs, caches, flights, world, head, opLock, healthy, faults>>

SourceTransaction(r) == SourceRead(r, "tx", "receipt")

SourceReceipt(r) == SourceRead(r, "receipt", "block")

\* verify_source_inclusion: all three name one block.
VerifyInclusion(tx, receipt, block) == tx = receipt /\ tx = block

SourceBlock(r) ==
    LET block == view[req[r].prov][1] IN
    /\ Called(r, "block")
    /\ IF VerifyInclusion(req[r].reads[1], req[r].reads[2], block)
       THEN /\ pool' = RecordSuccess(pool, req[r].prov)
            /\ \/ /\ Kind[r] = "trace"
                  /\ req' = [req EXCEPT ![r].pc = "trace", ![r].reads = Append(@, block)]
                  /\ UNCHANGED opLock
               \/ /\ Kind[r] = "source"
                  /\ Finish(r, [reads |-> Append(req[r].reads, block)])
                  /\ opLock' = None
            /\ UNCHANGED limited
       ELSE Failed(r, "integrity")
    /\ UNCHANGED <<requests, verified, caches, flights, world, head, healthy, faults>>

\* source_trace_evidence: both traces are tried; without either the evidence
\* is incomplete.  A failed trace is not held against the provider.
Trace(r) ==
    /\ At(r, "trace")
    /\ \E got \in {view[req[r].prov][1], None} :
          /\ \/ tokens > 0 /\ tokens' = tokens - 1
             \/ tokens = 0 /\ got = None /\ UNCHANGED tokens
          /\ LET reads == Append(req[r].reads, got) IN
             IF Len(reads) < 5
             THEN req' = [req EXCEPT ![r].reads = reads] /\ UNCHANGED opLock
             ELSE /\ Finish(r, IF None \in {reads[4], reads[5]} THEN Err("incomplete") ELSE [reads |-> reads])
                  /\ opLock' = None
    /\ UNCHANGED <<requests, provs, caches, flights, world, head, healthy, faults>>

-----------------------------------------------------------------------------
(* Deadlines. *)

\* STATE_REQUEST_TIMEOUT drops the future of an HTTP request wherever it is:
\* the lock guard goes, the entries of the in-flight maps stay.
RequestTimeout(r) ==
    /\ Running(r) /\ Kind[r] # "probe"
    /\ timeouts < MaxTimeouts /\ timeouts' = timeouts + 1
    /\ opLock' = IF opLock = r THEN None ELSE opLock
    /\ Finish(r, Err("unavailable"))
    /\ UNCHANGED <<budgets, provs, caches, flights, view, delivered, reorgs, ticks, head, healthy, faults>>

\* MAX_STATE_RESOLUTION around the uncached read of a leader.
ResolutionTimeout(r) ==
    /\ req[r].task = "bundle"
    /\ req[r].pc \in {"lock", "pick", "setup", "multicall", "hashcheck"}
    /\ timeouts < MaxTimeouts /\ timeouts' = timeouts + 1
    /\ opLock' = IF opLock = r THEN None ELSE opLock
    /\ req' = [req EXCEPT ![r].pc = "send", ![r].read = Err("unavailable")]
    /\ UNCHANGED <<budgets, provs, caches, flights, view, delivered, reorgs, ticks, head, healthy, faults>>

\* MAX_COALESCE_WAIT of a follower.
CoalesceTimeout(r) ==
    /\ req[r].pc \in {"wait", "headwait"}
    /\ timeouts < MaxTimeouts /\ timeouts' = timeouts + 1
    /\ Finish(r, Err("unavailable"))
    /\ UNCHANGED <<budgets, provs, caches, flights, view, delivered, reorgs, ticks, head, opLock, healthy, faults>>

-----------------------------------------------------------------------------
(* Time, the providers' chains and the paced Aave reads. *)

\* Tokens refill, cooldowns and circuits end, the head ages, entries expire.
Elapse ==
    /\ ticks < MaxTicks /\ ticks' = ticks + 1
    /\ \/ tokens < Burst /\ tokens' = tokens + 1 /\ UNCHANGED <<requests, pool, limited, caches, head>>
       \/ requests < StateBurst /\ requests' = requests + 1 /\ UNCHANGED <<tokens, pool, limited, caches, head>>
       \/ \E p \in Provider : /\ pool[p].cool \/ p \in limited
                              /\ pool' = [pool EXCEPT ![p].cool = FALSE]
                              /\ limited' = limited \ {p}
                              /\ UNCHANGED <<tokens, requests, caches, head>>
       \/ \E p \in Provider : /\ pool[p].open
                              /\ pool' = [pool EXCEPT ![p].open = FALSE]
                              /\ UNCHANGED <<tokens, requests, limited, caches, head>>
       \/ /\ head # None /\ head.fresh
          /\ head' = [head EXCEPT !.fresh = FALSE]
          /\ UNCHANGED <<tokens, requests, pool, limited, caches>>
       \/ \E b \in routeCache : /\ routeCache' = routeCache \ {b}
                                /\ UNCHANGED <<tokens, requests, pool, limited, static, verifyCache, hunterCache, head>>
       \/ \E e \in verifyCache : /\ verifyCache' = verifyCache \ {e}
                                 /\ UNCHANGED <<tokens, requests, pool, limited, static, routeCache, hunterCache, head>>
       \/ \E c \in hunterCache : /\ hunterCache' = hunterCache \ {c}
                                 /\ UNCHANGED <<tokens, requests, pool, limited, static, routeCache, verifyCache, head>>
    /\ UNCHANGED <<verified, flights, view, delivered, reorgs, timeouts, opLock, healthy, req, faults>>

Mine(p) ==
    /\ Latest(p) < MaxNumber
    /\ view' = [view EXCEPT ![p][Latest(p) + 1] = IF view[p][Latest(p)] = "b" THEN "b" ELSE "a"]
    /\ UNCHANGED <<budgets, provs, caches, flights, delivered, reorgs, timeouts, ticks, head, opLock, healthy, req, faults>>

\* From number n on provider p serves other blocks; it does not go back.
Reorg(p) ==
    /\ reorgs < MaxReorgs /\ reorgs' = reorgs + 1
    /\ \E n \in Number : /\ view[p][n] = "a"
                         /\ view' = [view EXCEPT ![p] = [m \in Number |-> IF m >= n /\ @[m] # None THEN "b" ELSE @[m]]]
    /\ UNCHANGED <<budgets, provs, caches, flights, delivered, timeouts, ticks, head, opLock, healthy, req, faults>>

\* resolve_aave_exact takes no operation lock: its paced calls take tokens and
\* verify providers between the steps above, and it credits the provider it used.
ExactCall(p) ==
    /\ ExactLane
    /\ tokens > 0 /\ tokens' = tokens - 1
    /\ verified' = [verified EXCEPT ![p] = IF @ < 2 THEN @ + 1 ELSE @]
    /\ \E credit \in BOOLEAN : pool' = IF credit THEN RecordSuccess(pool, p) ELSE pool
    /\ UNCHANGED <<requests, limited, caches, flights, world, head, opLock, healthy, req, faults>>

-----------------------------------------------------------------------------

Arrive(r) == ResolvePrimary(r) \/ ResolveVerify(r) \/ ResolveHunter(r) \/ ResolveSource(r) \/ Probe(r)

HeadStep(r) == CurrentHead(r) \/ HeadRole(r) \/ HeadWait(r) \/ HeadSend(r) \/ HeadClear(r)
               \/ HeadRead(r) \/ Invalidate(r) \/ SetHead(r)

BundleStep(r) == Lookup(r) \/ VerifyLookup(r) \/ Role(r) \/ Wait(r) \/ Recheck(r)
                 \/ Multicall(r) \/ HashCheck(r) \/ CacheInsert(r) \/ Send(r) \/ Clear(r)

LoopStep(r) == OperationLock(r) \/ PickProvider(r) \/ Setup(r) \/ SetupDone(r) \/ NoToken(r) \/ CallFails(r)

HunterStep(r) == HunterLookup(r) \/ HunterFirst(r) \/ HunterSecond(r) \/ HunterRead(r) \/ HunterCheck(r)

SourceStep(r) == SourceTransaction(r) \/ SourceReceipt(r) \/ SourceBlock(r) \/ Trace(r)

Step(r) == HeadStep(r) \/ BundleStep(r) \/ LoopStep(r) \/ HunterStep(r) \/ SourceStep(r)

Timeout(r) == RequestTimeout(r) \/ ResolutionTimeout(r) \/ CoalesceTimeout(r)

Next ==
    \/ Elapse
    \/ \E p \in Provider : Mine(p) \/ Reorg(p) \/ ExactCall(p)
    \/ \E r \in Request : Arrive(r) \/ Step(r) \/ Timeout(r)

\* The runtime polls every ready task, so a request that can step does.
Spec == Init /\ [][Next]_vars /\ \A r \in Request : WF_vars(Step(r))

-----------------------------------------------------------------------------
(* Properties. *)

Evidence == [of : Bundle, with : Provider \cup {None},
             status : {"agreed", "disagreed", "integrity", "unavailable"}]

\* The gateway's state is well formed and the operation lock is held exactly
\* by the request that is inside a locked function.
TypeOK ==
    /\ tokens \in 0..Burst /\ requests \in 0..StateBurst
    /\ pool \in PoolType /\ limited \subseteq Provider /\ verified \in [Provider -> 0..2]
    /\ static \subseteq Provider \X Route
    /\ routeCache \subseteq Bundle /\ verifyCache \subseteq Evidence /\ delivered \subseteq Bundle
    /\ head = None \/ head \in [snap : Snapshot, fresh : BOOLEAN]
    /\ headFlight \in Request \cup {None}
    /\ \A r \in Request : opLock = r <=>
          req[r].pc \in (CallPoint \cup {"pick", "invalidate", "sethead", "hsecond", "trace"})

\* A bundle that a client received, or that is cached, holds the state of the
\* block it names, or a state its provider made up: never the state of
\* another block at the same number (perform_state_bundle's hash check).
PinnedState ==
    \A b \in routeCache \cup delivered : b.state \in {b.block.h, b.prov}

\* Agreement, in the cache or in a reply, means a second provider and the true
\* state of the pinned block; the same holds for a Hunter reply.
AgreementMeansTruth ==
    /\ \A e \in verifyCache \cup {req[r].out : r \in {q \in Request : req[q].out \in Evidence}} :
          e.status = "agreed" => e.with # e.of.prov /\ e.of.state = e.of.block.h
    /\ \A c \in hunterCache : c.first # c.second /\ c.state = c.block.h

\* While a route is cached for a block no request reads it again from a
\* provider (the leader's second look in resolve_primary).
CachedIsNotReread ==
    \A r \in Request : Kind[r] = "primary" /\ req[r].pc \in {"multicall", "hashcheck", "insert"}
                          => CachedBundle(r) = {}

\* A request inside an admitted sequence finds a token for every call it
\* still has to make (admit_upstream_sequence); the Hunter read is not admitted.
AdmittedSequenceCompletes ==
    \A r \in Request : req[r].task # "hunter" /\ CallDue(r) => tokens > 0

\* A provider that failed or limited a loop is not asked again by that loop
\* (docs/RPC_BUDGET.md:97: "The same provider is not retried immediately"), even
\* when a paced read has meanwhile cleared the cooldown of its failure.
PickMovesOn ==
    \A r \in Request : LET p == req'[r].prov IN
        req[r].prov = None /\ p # None => p \notin req[r].failed
FailoverMovesOn == [][PickMovesOn]_vars

\* docs/RPC_BUDGET.md:97: Retry-After is "applied as provider cooldown"; no request
\* picks a provider inside the Retry-After of its last 429.
PickHonoursRetryAfter ==
    \A r \in Request : LET p == req'[r].prov IN req[r].prov = None /\ p # None => p \notin limited
RetryAfterHonoured == [][PickHonoursRetryAfter]_vars

\* Transaction, receipt and block of a source reply are of one block.
SourceInclusionCoherent ==
    \A r \in Request : "reads" \in DOMAIN req[r].out
                          => \A i \in 1..3 : req[r].out.reads[i] = req[r].out.reads[1]

\* The traces of a complete source reply are of the block it names.
TraceBoundToBlock ==
    \A r \in Request : Kind[r] = "trace" /\ "reads" \in DOMAIN req[r].out
                          => \A i \in 1..5 : req[r].out.reads[i] = req[r].out.reads[1]

\* At the head's number the route cache holds no bundle of another hash.
ReorgInvalidates ==
    head # None => \A b \in routeCache : b.block.n = head.snap.block.n => b.block.h = head.snap.block.h

\* Whoever waits for the head waits for a request that is refreshing it.
HeadFlightHasLeader == headFlight # None => Running(headFlight)

\* Every request is answered: no lost wake-up behind a leader that was dropped,
\* no wait in a circle for the operation lock.
Answered == \A r \in Request : Running(r) ~> At(r, "done")

=============================================================================
