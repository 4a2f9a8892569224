----------------------------- MODULE AaveGateway -----------------------------
(***************************************************************************)
(* The Aave endpoints of rpc-gateway/src/runtime.rs: the screens, the      *)
(* Exact read, the event tail, and the single and batched liquidation      *)
(* simulations.  Every read names a block by its number, so the state it   *)
(* returns is the one the provider serves at that number at that moment:   *)
(* view is the hash of the branch the provider is on, and a read remembers *)
(* the branch it saw.  Exact reads and batches run beside each other under *)
(* their permits and wait for call tokens up to a deadline; the others     *)
(* hold the operation lock and fail when there is no token.                *)
(***************************************************************************)
EXTENDS Naturals, Sequences, FiniteSets

CONSTANTS
    Request,       \* HTTP requests in service
    Kinds,         \* the endpoints in use
    Burst,         \* upstream_call_burst
    ExactPermits,  \* aave_exact_operation_permits
    ForkPermits,   \* aave_fork_operation_permits
    Window,        \* blocks of one tail answer, 256 in the code
    MaxItems,      \* simulations of a batch, at most 8 in the code
    MaxFinal,      \* bound on the finalized block number
    MaxFaults,     \* bound on failed calls, evictions and lagging heads
    MaxForks,      \* bound on the times the provider changes branch (at most 1)
    None

Branch == {"a", "b"}
Block == [n : 1..MaxFinal, h : Branch]
Resource == {"operation", "exact", "fork", "verify"}
Cached == {"static", "context"}

VARIABLES
    view,       \* external: the branch the provider serves
    final,      \* external: its finalized block number
    tokens,     \* upstream_budget
    verified,   \* chain_verified and multicall_verified: setup checks passed, in order
    held,       \* the operation lock, the two semaphores, the verification lock
    cache,      \* the two context caches: [of, pin, seen]
    req,        \* the requests: program counter, reads still to do, locals, reply
    cursor,     \* the hunter's TailNextBlock
    first,      \* history: the block after the hunter's first checkpoint
    fetched,    \* history: the blocks whose events the hunter has received
    faults, forks

world == <<view, final, forks>>
client == <<cursor, first, fetched>>
vars == <<world, client, tokens, verified, held, cache, req, faults>>

Idle == [pc |-> "idle", kind |-> None, from |-> 0, pin |-> None, todo |-> <<>>,
         seen |-> {}, ctx |-> {}, pending |-> FALSE, late |-> FALSE, lost |-> FALSE,
         out |-> None]

Running == {"lane", "admit", "verify", "setup", "run"}

Init ==
    /\ view = "a" /\ final = 1 /\ forks = 0 /\ faults = 0
    /\ tokens = Burst
    /\ verified \in {0, 2}
    /\ held = [x \in Resource |-> {}]
    /\ cache = {}
    /\ req = [o \in Request |-> Idle]
    /\ cursor = 0 /\ first = 0 /\ fetched = {}

\* The operation lock, the Exact and fork semaphores, the verification lock.
Free(x) ==
    Cardinality(held[x]) < CASE x = "exact" -> ExactPermits
                             [] x = "fork" -> ForkPermits
                             [] OTHER -> 1

Lane(k) == CASE k = "exact" -> "exact" [] k = "batch" -> "fork" [] OTHER -> "operation"
Paced(k) == k \in {"exact", "batch"}

\* The end of a request drops its guards and permits.
End(o, out) ==
    /\ held' = [x \in Resource |-> held[x] \ {o}]
    /\ req' = [req EXCEPT ![o] = [Idle EXCEPT !.pc = "done", !.kind = req[o].kind, !.from = req[o].from,
                                  !.out = [res |-> out, pin |-> req[o].pin, seen |-> req[o].seen,
                                           lost |-> req[o].lost]]]

-----------------------------------------------------------------------------
(* What each endpoint reads, in order. *)

RECURSIVE Items(_)
Items(n) == IF n = 0 THEN <<>> ELSE <<"call", "gas">> \o Items(n - 1)

ScreenReads == <<"head", "multicall">>
TailReads == <<"head", "logs">>
ExactReads == <<"head", "static", "account">>
SimulateReads == <<"block", "code", "config", "maximum", "call", "gas", "premium">>
BatchReads(items) == <<"pre", "context">> \o Items(items) \o <<"post">>

Reads(k, items) ==
    CASE k = "screen" -> ScreenReads
      [] k = "tail" -> TailReads
      [] k = "exact" -> ExactReads
      [] k = "simulate" -> SimulateReads
      [] k = "batch" -> BatchReads(items)

\* What a missing context costs: perform_aave_exact, aave_simulation_context.
StaticReads == <<"poolCode", "slot", "poolImplementationCode", "reserves">>
ExecutorReads == <<"executorCode", "packed", "maximumInput", "flashPremium">>
ContextReads(of) == IF of = "static" THEN StaticReads ELSE ExecutorReads

IsContextRead(x) == \E of \in Cached : \E i \in 1..4 : ContextReads(of)[i] = x

\* A request arrives; one the request budget refuses changes nothing.  A
\* simulation is pinned to a block an earlier Exact answer could name.
Submit(o) ==
    /\ req[o].pc = "idle"
    /\ \E k \in Kinds : \E items \in 1..MaxItems :
       \E pin \in [n : 1..final, h : {"a", view}] :
        /\ (k # "batch") => (items = 1)
        /\ (k \notin {"simulate", "batch"}) => (pin = [n |-> final, h |-> view])
        /\ (k = "tail") => (\A p \in Request : req[p].kind # "tail")
        /\ req' = [req EXCEPT ![o] =
                    [Idle EXCEPT !.pc = "lane", !.kind = k, !.todo = Reads(k, items),
                                 !.from = IF k = "tail" THEN cursor ELSE 0,
                                 !.pin = IF k \in {"simulate", "batch"} THEN pin ELSE None]]
    /\ UNCHANGED <<world, client, tokens, verified, held, cache, faults>>

\* The lane of the endpoint, then the named provider, which may be cooling
\* down.  A batch whose deadline passed in the queue is refused.
Acquire(o) ==
    /\ req[o].pc = "lane"
    /\ Free(Lane(req[o].kind))
    /\ IF req[o].kind = "batch" /\ req[o].late
       THEN End(o, "invalid")
       ELSE /\ held' = [held EXCEPT ![Lane(req[o].kind)] = @ \cup {o}]
            /\ req' = [req EXCEPT ![o].pc = IF req[o].kind = "screen" THEN "admit" ELSE "verify"]
    /\ UNCHANGED <<world, client, tokens, verified, cache, faults>>

reserve_named_provider_none(o) ==
    /\ req[o].pc = (IF req[o].kind = "screen" THEN "admit" ELSE "verify")
    /\ faults < MaxFaults
    /\ faults' = faults + 1
    /\ End(o, "unavailable")
    /\ UNCHANGED <<world, client, tokens, verified, cache>>

\* provider_setup_call_count and admit_upstream_sequence: the tokens are
\* counted, not taken.
admit_upstream_sequence(o) ==
    /\ req[o].pc = "admit"
    /\ IF tokens >= (2 - verified) + 2
       THEN /\ req' = [req EXCEPT ![o].pc = "verify"]
            /\ UNCHANGED held
       ELSE End(o, "budget")
    /\ UNCHANGED <<world, client, tokens, verified, cache, faults>>

\* ensure_provider_verified and its paced twin: one check at a time.
TakeVerification(o) ==
    /\ req[o].pc = "verify"
    /\ Free("verify")
    /\ held' = [held EXCEPT !["verify"] = @ \cup {o}]
    /\ req' = [req EXCEPT ![o].pc = "setup"]
    /\ UNCHANGED <<world, client, tokens, verified, cache, faults>>

\* The probe of the next missing check; none is needed once both passed.
ensure_provider_verified(o) ==
    /\ req[o].pc = "setup"
    /\ IF verified = 2
       THEN /\ held' = [held EXCEPT !["verify"] = @ \ {o}]
            /\ req' = [req EXCEPT ![o].pc = "run"]
            /\ UNCHANGED <<tokens, verified>>
       ELSE /\ tokens > 0
            /\ tokens' = tokens - 1
            /\ verified' = verified + 1
            /\ UNCHANGED <<held, req>>
    /\ UNCHANGED <<world, client, cache, faults>>

-----------------------------------------------------------------------------
(* The reads. *)

Calling(o) ==
    /\ req[o].pc = "run"
    /\ req[o].todo # <<>>
    /\ Head(req[o].todo) \notin Cached

Entry(of, pin) == {c \in cache : c.of = of /\ c.pin = pin}

\* Mutant: a batch with a cached context does not verify its pin again.
Lookup_Trusting(o) ==
    /\ req[o].pc = "run"
    /\ req[o].todo # <<>>
    /\ Head(req[o].todo) \in Cached
    /\ LET of == Head(req[o].todo)
           rest == Tail(req[o].todo)
           hit == Entry(of, req[o].pin)
       IN req' = [req EXCEPT ![o].todo = IF hit = {} THEN ContextReads(of) \o rest
                                         ELSE IF of = "context" THEN SubSeq(rest, 1, Len(rest) - 1)
                                         ELSE rest,
                             ![o].pending = (hit = {}),
                             ![o].seen = @ \cup UNION {c.seen : c \in hit}]
    /\ UNCHANGED <<world, client, tokens, verified, held, cache, faults>>

\* aave_exact_static_context_cache and aave_simulation_context_cache, keyed by
\* provider, block number, hash and state root.
Lookup(o) ==
    /\ req[o].pc = "run"
    /\ req[o].todo # <<>>
    /\ Head(req[o].todo) \in Cached
    /\ LET of == Head(req[o].todo)
           rest == Tail(req[o].todo)
           hit == Entry(of, req[o].pin)
       IN req' = [req EXCEPT ![o].todo = IF hit = {} THEN ContextReads(of) \o rest ELSE rest,
                             ![o].pending = (hit = {}),
                             ![o].seen = @ \cup UNION {c.seen : c \in hit}]
    /\ UNCHANGED <<world, client, tokens, verified, held, cache, faults>>

\* A block read by number is compared with the pin: verify_aave_simulation_pin,
\* the first read of perform_aave_simulation, the last of perform_aave_exact.
IsPinCheck(x) == x \in {"block", "pre", "post", "final"}

\* After the account multicall: the eMode and quote multicalls when the account
\* has a category and a liquidation, and the closing pin check.
ExactRest(emode, quotes) ==
    (IF emode THEN <<"emode">> ELSE <<>>) \o (IF quotes THEN <<"quotes">> ELSE <<>>) \o <<"final">>

\* resolve_aave_tail: nothing to read at the checkpoint.
AtCheckpoint(o) == req[o].from = 0 \/ req[o].from = final + 1

\* recorded_call and paced_recorded_call with an answer.
Read(o) ==
    /\ Calling(o)
    /\ tokens > 0
    /\ tokens' = tokens - 1
    /\ LET r == req[o]
           x == Head(r.todo)
           rest == Tail(r.todo)
           at == IF r.kind = "tail" /\ AtCheckpoint(o) THEN <<>> ELSE rest
       IN \/ /\ x = "head"
             /\ IF r.kind = "tail" /\ ~AtCheckpoint(o) /\ r.from > final
                THEN End(o, "invalid")
                ELSE /\ req' = [req EXCEPT ![o].todo = at, ![o].pin = [n |-> final, h |-> view]]
                     /\ UNCHANGED held
          \/ /\ IsPinCheck(x)
             /\ IF view # r.pin.h
                THEN End(o, "disagreement")
                ELSE /\ req' = [req EXCEPT ![o].todo = rest]
                     /\ UNCHANGED held
          \/ /\ x = "account"
             /\ \E emode, quotes \in BOOLEAN :
                  req' = [req EXCEPT ![o].todo = ExactRest(emode, quotes), ![o].seen = @ \cup {view}]
             /\ UNCHANGED held
          \/ /\ x # "head" /\ x # "account" /\ ~IsPinCheck(x)
             /\ req' = [req EXCEPT ![o].todo = rest, ![o].seen = @ \cup {view},
                                   ![o].ctx = IF IsContextRead(x) THEN @ \cup {view} ELSE @]
             /\ UNCHANGED held
    /\ UNCHANGED <<world, client, verified, cache, faults>>

\* simulate_aave_batch_item failed: its result carries the error and the batch
\* goes on, after aave_pause_state_under_override when the call reverted
\* without a reason.
ItemFails(o, why, probe) ==
    LET todo == req[o].todo
        rest == IF Head(todo) = "call" THEN Tail(Tail(todo)) ELSE Tail(todo)
    IN /\ req' = [req EXCEPT ![o].todo = IF probe THEN <<"pause">> \o rest ELSE rest,
                             ![o].lost = @ \/ (why = "budget" /\ Head(todo) # "pause")]
       /\ UNCHANGED held

Fails(o, why) ==
    IF req[o].pc = "run" /\ req[o].kind = "batch" /\ Head(req[o].todo) \in {"call", "gas", "pause"}
    THEN \E probe \in {FALSE, why = "reverted"} : ItemFails(o, why, probe)
    ELSE End(o, why)

\* The provider fails a call, answers something the gateway refuses, or
\* reverts an eth_call.
ReadFails(o) ==
    /\ Calling(o) \/ (req[o].pc = "setup" /\ verified < 2)
    /\ tokens > 0 /\ faults < MaxFaults
    /\ tokens' = tokens - 1
    /\ faults' = faults + 1
    /\ \/ Fails(o, "failed")
       \/ /\ req[o].pc = "run" /\ Head(req[o].todo) \in {"call", "gas"}
          /\ Fails(o, "reverted")
    /\ UNCHANGED <<world, client, verified, cache>>

\* upstream_call fails without a token; paced_upstream_call sleeps and looks
\* again until its deadline.
OutOfTokens(o) ==
    /\ Calling(o) \/ (req[o].pc = "setup" /\ verified < 2)
    /\ tokens = 0
    /\ Paced(req[o].kind) => req[o].late
    /\ Fails(o, "budget")
    /\ UNCHANGED <<world, client, tokens, verified, cache, faults>>

\* After the last read the pending context is inserted; an insert under an
\* existing key replaces the entry.
Remember(o) ==
    LET of == IF req[o].kind = "exact" THEN "static" ELSE "context"
    IN /\ req[o].pc = "run" /\ req[o].todo = <<>>
       /\ req[o].pending
       /\ cache' = (cache \ Entry(of, req[o].pin))
                     \cup {[of |-> of, pin |-> req[o].pin, seen |-> req[o].ctx]}
       /\ req' = [req EXCEPT ![o].pending = FALSE]
       /\ UNCHANGED held

InsertContext(o) ==
    /\ Remember(o)
    /\ UNCHANGED <<world, client, tokens, verified, faults>>

\* mark_provider_success and the response.
Complete(o) ==
    /\ req[o].pc = "run" /\ req[o].todo = <<>>
    /\ ~req[o].pending
    /\ End(o, "answer")
    /\ UNCHANGED <<world, client, tokens, verified, cache, faults>>

\* tokio::time::timeout in main.rs drops the request at an await.
Timeout(o) ==
    /\ req[o].pc \in Running
    /\ faults < MaxFaults
    /\ faults' = faults + 1
    /\ End(o, "unavailable")
    /\ UNCHANGED <<world, client, tokens, verified, cache>>

-----------------------------------------------------------------------------
(* The tail: what the answer covers, and what the hunter makes of it. *)

MinOf(a, b) == IF a < b THEN a ELSE b

\* resolve_aave_tail: an empty window after the finalized block, or the next
\* blocks up to it.
TailWindow(from, f) ==
    IF from = 0 \/ from = f + 1 THEN [from |-> f + 1, to |-> f, next |-> f + 1]
    ELSE LET to == MinOf(from + Window - 1, f) IN [from |-> from, to |-> to, next |-> to + 1]

\* AaveTailResponse::validate.
TailValid(from, w, f) ==
    /\ w.next = w.to + 1
    /\ w.to <= f
    /\ IF from = 0 THEN w.from = f + 1 /\ w.to = f
       ELSE /\ w.from = from
            /\ \/ w.from = f + 1 /\ w.to = f
               \/ w.to >= w.from /\ w.to - w.from < Window

\* Mutant: the log filter starts after the requested block.
TailLogs_Open(w) == (w.from + 1)..w.to

\* aave_tail_logs: the filter is inclusive at both ends.  Its blocks are final,
\* and every node of the provider is taken to have them.
TailLogs(w) == w.from..w.to

\* pollTail: events are applied and the cursor follows the answer.
PollTail(o) ==
    LET f == req[o].out.pin.n
        w == TailWindow(req[o].from, f)
    IN IF req[o].out.res = "answer" /\ TailValid(req[o].from, w, f)
       THEN /\ cursor' = w.next
            /\ first' = IF req[o].from = 0 THEN w.next ELSE first
            /\ fetched' = fetched \cup TailLogs(w)
       ELSE UNCHANGED client

\* The client has its reply and may ask again.
Reply(o) ==
    /\ req[o].pc = "done"
    /\ IF req[o].kind = "tail" THEN PollTail(o) ELSE UNCHANGED client
    /\ req' = [req EXCEPT ![o] = Idle]
    /\ UNCHANGED <<world, tokens, verified, held, cache, faults>>

-----------------------------------------------------------------------------
(* Time and the provider. *)

Refill ==
    /\ tokens < Burst
    /\ tokens' = tokens + 1
    /\ UNCHANGED <<world, client, verified, held, cache, req, faults>>

\* The pacing deadline of an Exact read starts with its permit, a batch's is
\* in the request.
Late(o) ==
    /\ Paced(req[o].kind) /\ ~req[o].late
    /\ req[o].pc \in IF req[o].kind = "batch" THEN Running ELSE Running \ {"lane"}
    /\ req' = [req EXCEPT ![o].late = TRUE]
    /\ UNCHANGED <<world, client, tokens, verified, held, cache, faults>>

\* TtlCache: an entry expires or gives way to a newer one.
Expire ==
    /\ faults < MaxFaults
    /\ faults' = faults + 1
    /\ \E c \in cache : cache' = cache \ {c}
    /\ UNCHANGED <<world, client, tokens, verified, held, req>>

\* The provider is on another branch from here on.
Fork ==
    /\ forks < MaxForks
    /\ forks' = forks + 1
    /\ view' = "b"
    /\ UNCHANGED <<final, client, tokens, verified, held, cache, req, faults>>

\* A block is finalized, or the next answer comes from a node that lags.
Finalize ==
    /\ \/ /\ final < MaxFinal
          /\ final' = final + 1
          /\ UNCHANGED faults
       \/ /\ final > 1 /\ faults < MaxFaults
          /\ final' = final - 1
          /\ faults' = faults + 1
    /\ UNCHANGED <<view, forks, client, tokens, verified, held, cache, req>>

Step(o) ==
    \/ Acquire(o) \/ admit_upstream_sequence(o) \/ TakeVerification(o)
    \/ ensure_provider_verified(o) \/ Lookup(o) \/ Read(o) \/ OutOfTokens(o)
    \/ InsertContext(o) \/ Complete(o) \/ Reply(o)

Next ==
    \/ \E o \in Request : \/ Submit(o) \/ Step(o) \/ Late(o)
                          \/ ReadFails(o) \/ reserve_named_provider_none(o) \/ Timeout(o)
    \/ Refill \/ Expire \/ Fork \/ Finalize

Spec == Init /\ [][Next]_vars

\* tokio's locks and semaphores serve their waiters in order, a task that can
\* run does, and time passes: deadlines and refills come.
Fairness ==
    /\ \A o \in Request : /\ SF_vars(Acquire(o)) /\ SF_vars(TakeVerification(o))
                          /\ WF_vars(admit_upstream_sequence(o))
                          /\ WF_vars(Lookup(o)) /\ WF_vars(InsertContext(o)) /\ WF_vars(Complete(o))
                          /\ WF_vars(ensure_provider_verified(o) \/ Read(o) \/ OutOfTokens(o))
                          /\ WF_vars(Reply(o)) /\ WF_vars(Late(o))
    /\ WF_vars(Refill)

FairSpec == Spec /\ Fairness
-----------------------------------------------------------------------------
(* Properties. *)

ReadName == {"head", "multicall", "logs", "static", "account", "emode", "quotes", "final", "block",
             "code", "config", "maximum", "call", "gas", "premium", "pre", "context", "post", "pause"}
              \cup UNION {{ContextReads(of)[i] : i \in 1..4} : of \in Cached}

\* The shape of the state; the locks and semaphores are never over their limit.
TypeOK ==
    /\ view \in Branch /\ final \in 1..MaxFinal
    /\ tokens \in 0..Burst /\ verified \in 0..2
    /\ \A x \in Resource : held[x] \subseteq Request /\ Cardinality(held[x]) <=
                            (CASE x = "exact" -> ExactPermits [] x = "fork" -> ForkPermits [] OTHER -> 1)
    /\ cache \subseteq [of : Cached, pin : Block, seen : SUBSET Branch]
    /\ \A o \in Request :
         /\ req[o].pc \in Running \cup {"idle", "done"}
         /\ \A i \in DOMAIN req[o].todo : req[o].todo[i] \in ReadName
         /\ req[o].seen \subseteq Branch /\ req[o].ctx \subseteq Branch
    /\ cursor \in 0..(MaxFinal + 1) /\ fetched \subseteq 1..MaxFinal

\* An Exact answer, and a batch answer with whatever context it took from the
\* cache, comes from the one state its block hash and state root name, though
\* every read in between asked by number while the provider could change branch
\* (the closing pin checks of perform_aave_exact and
\* simulate_aave_liquidations_batch).
AnswersAreOneState ==
    \A o \in Request :
        req[o].pc = "done" /\ req[o].kind \in {"exact", "batch"} /\ req[o].out.res = "answer"
            => req[o].out.seen \subseteq {req[o].out.pin.h}

\* A cached context was read entirely under the block and state root in its key,
\* so a later request pinned there reuses what it would have read itself.
ContextsMatchTheirKey == \A c \in cache : c.seen \subseteq {c.pin.h}

\* The hunter receives the events of every block from its first checkpoint to
\* its cursor, whatever answers were lost, refused or given by a lagging node.
TailHasNoGap == fetched = {n \in 1..MaxFinal : first # 0 /\ first <= n /\ n < cursor}

\* Every request gets its reply, also when other requests take every token:
\* paced_upstream_call gives up at its deadline and no lock is kept.
RequestsEnd == \A o \in Request : req[o].pc # "idle" ~> req[o].pc = "idle"

\* docs/RPC_BUDGET.md: later variants of a batch do not fail for their order.
LaterVariantsArePaced ==
    \A o \in Request :
        req[o].pc = "done" /\ req[o].kind = "batch" /\ req[o].out.res = "answer" => ~req[o].out.lost
=============================================================================
