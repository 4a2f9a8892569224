---------------------------- MODULE EngineRuntime ----------------------------
(***************************************************************************)
(* The Phoenix engine's delivery loop (phoenix-engine/src: runtime.rs,     *)
(* shadow_processor.rs, autonomous.rs, persistence.rs, runtime_state.rs,   *)
(* main.rs).  A delivery is looked up, evaluated, in autonomous mode       *)
(* turned into a candidate, classified in one transaction and only then    *)
(* acknowledged.  Every await may fail, the ack wait may pass, the process *)
(* may crash, and during a deployment two engines share the consumer.      *)
(***************************************************************************)
EXTENDS JetStream

CONSTANTS
    Engine,       \* processes that pull from the durable consumer
    Event,        \* engine inputs, by source_event_identity
    Kind,         \* Kind[e]: route, none, malformed or unsupported
    Route,        \* routes an event may affect
    Autonomous,   \* whether an AutonomousHunterProcessor is attached
    Batch,        \* ENGINE_PULL_BATCH
    MaxDeliver,   \* ENGINE_MAX_DELIVERIES, also the DependencyRetryPolicy; at least 2
    MaxBlock,     \* bound on the head of the chain
    MaxCopies,    \* bound on stored copies
    MaxFaults,    \* bound on failed calls
    MaxUnfit,     \* bound on records refused by validate_record
    MaxPings,     \* bound on failed probes of the monitors
    MaxCrashes,   \* bound on crashes
    MaxExpiries   \* bound on ack waits that pass while the delivery is held

VARIABLES
    stream,    \* PHOENIX_ENGINE_INPUT
    cls,       \* shadow_engine_classifications
    attempts,  \* shadow_engine_processing_attempts
    decisions, \* shadow_decisions, with their facts
    cands,     \* live_canary.autonomous_candidates
    head,      \* the chain's head as the gateway serves it
    eng,       \* engine -> its place in process_delivery
    termed,    \* history: events terminated on a store failure
    faults, unfit, pings, crashes, expiries

bounds == <<faults, unfit, pings, crashes, expiries>>
rows == <<cls, attempts, decisions>>
vars == <<stream, cls, attempts, decisions, cands, head, eng, termed, faults, unfit, pings, crashes, expiries>>

Classification == {"no_relevant_route", "candidate_generated", "candidate_rejected", "malformed_internal_event",
                   "unsupported_schema", "transient_dependency_failure", "dependency_exhausted",
                   "terminal_integrity_failure"}
\* EngineClassification::is_final.
is_final(c) == c \notin {"unclassified", "candidate_generated", "malformed_internal_event", "transient_dependency_failure"}

Flag == {"postgres", "schema", "nats", "fetching", "persistence", "acks", "gateway", "integrity"}
NewReadiness == {"persistence", "acks", "integrity"}
Ready(g) == eng[g].ready = Flag

NoDelivery == [q |-> 0, ev |-> CHOOSE e \in Event : TRUE, n |-> 0]
Result(c, act, R) == [cls |-> c, act |-> act, evals |-> R]
NoResult == Result("unclassified", "Ack", {})
Stopped == [pc |-> "down", batch |-> {}, cur |-> NoDelivery, res |-> NoResult, ready |-> {}]

\* RuntimeReadiness setters: losing a dependency clears what rests on it.
Lose(F, flag) ==
    F \ (CASE flag = "postgres" -> {"postgres", "schema", "persistence"}
           [] flag = "nats" -> {"nats", "fetching"}
           [] OTHER -> {flag})

Fault == /\ faults < MaxFaults
         /\ faults' = faults + 1
         /\ UNCHANGED <<unfit, pings, crashes, expiries>>

Charged(ok) == IF ok THEN UNCHANGED bounds ELSE Fault

Init ==
    /\ stream = EmptyStream
    /\ cls = [e \in Event |-> "unclassified"]
    /\ attempts = {}
    /\ decisions = {}
    /\ cands = {}
    /\ head = 1
    /\ eng = [g \in Engine |-> [Stopped EXCEPT !.pc = "start", !.ready = NewReadiness]]
    /\ termed = {}
    /\ faults = 0 /\ unfit = 0 /\ pings = 0 /\ crashes = 0 /\ expiries = 0

----------------------------------------------------------------------------
(* The world: the dispatcher, the chain, the ack wait, crashes.             *)

\* A row is published; once the duplicate window has passed, again.
Arrive(e) ==
    /\ stream.last < MaxCopies
    /\ stream' = PublishTo(ForgetId(stream, e), e)
    /\ UNCHANGED <<rows, cands, head, eng, termed, bounds>>

Mine ==
    /\ head < MaxBlock
    /\ head' = head + 1
    /\ UNCHANGED <<stream, rows, cands, eng, termed, bounds>>

Holder(q) == {g \in Engine : eng[g].cur.q = q \/ \E d \in eng[g].batch : d.q = q}

AckWaitPasses(q) ==
    /\ stream.msg[q].held
    /\ IF Holder(q) # {} THEN expiries < MaxExpiries /\ expiries' = expiries + 1 ELSE UNCHANGED expiries
    /\ stream' = ReturnTo(stream, q)
    /\ UNCHANGED <<rows, cands, head, eng, termed, faults, unfit, pings, crashes>>

Crash(g) ==
    /\ eng[g].pc # "down"
    /\ crashes < MaxCrashes
    /\ crashes' = crashes + 1
    /\ eng' = [eng EXCEPT ![g] = Stopped]
    /\ UNCHANGED <<stream, rows, cands, head, termed, faults, unfit, pings, expiries>>

Restart(g) ==
    /\ eng[g].pc = "down"
    /\ eng' = [eng EXCEPT ![g] = [Stopped EXCEPT !.pc = "start", !.ready = NewReadiness]]
    /\ UNCHANGED <<stream, rows, cands, head, termed, bounds>>

----------------------------------------------------------------------------
(* run_daemon: connections, monitors, and the ways out of the loop.         *)

\* connect_postgres_until_ready, and wait_for_store_recovery after a store
\* failure: ping and schema.
connect_postgres(g) ==
    /\ eng[g].pc \in {"start", "recover"}
    /\ \/ /\ eng' = [eng EXCEPT ![g].pc = "nats", ![g].ready = @ \cup {"postgres", "schema", "persistence"}]
          /\ UNCHANGED bounds
       \/ /\ Fault
          /\ \E f \in {"postgres", "schema"} : eng' = [eng EXCEPT ![g].ready = Lose(@, f)]
    /\ UNCHANGED <<stream, rows, cands, head, termed>>

connect_nats(g) ==
    /\ eng[g].pc = "nats"
    /\ \/ eng' = [eng EXCEPT ![g].pc = "fetch", ![g].ready = @ \cup {"nats"}] /\ UNCHANGED bounds
       \/ Fault /\ eng' = [eng EXCEPT ![g].ready = Lose(@, "nats")]
    /\ UNCHANGED <<stream, rows, cands, head, termed>>

\* consume_engine_messages returned: the rest of the batch is abandoned.
Leave(g, next, R) == eng' = [eng EXCEPT ![g] = [Stopped EXCEPT !.pc = next, !.ready = Lose(R, "nats")]]
Exit(g) == eng' = [eng EXCEPT ![g] = Stopped]

\* The probe that succeeds restores postgres and persistence, not schema.
monitor_database(g) ==
    /\ eng[g].pc \notin {"start", "down"}
    /\ \/ eng' = [eng EXCEPT ![g].ready = @ \cup {"postgres", "persistence"}] /\ UNCHANGED bounds
       \/ /\ pings < MaxPings
          /\ pings' = pings + 1
          /\ eng' = [eng EXCEPT ![g].ready = Lose(@, "postgres")]
          /\ UNCHANGED <<faults, unfit, crashes, expiries>>
    /\ UNCHANGED <<stream, rows, cands, head, termed>>

monitor_rpc_gateway(g) ==
    /\ eng[g].pc # "down"
    /\ \/ eng' = [eng EXCEPT ![g].ready = @ \cup {"gateway"}] /\ UNCHANGED bounds
       \/ /\ pings < MaxPings
          /\ pings' = pings + 1
          /\ eng' = [eng EXCEPT ![g].ready = Lose(@, "gateway")]
          /\ UNCHANGED <<faults, unfit, crashes, expiries>>
    /\ UNCHANGED <<stream, rows, cands, head, termed>>

fetch_batch(g) ==
    /\ eng[g].pc = "fetch"
    /\ eng[g].batch = {}
    /\ \/ \E Q \in SUBSET Deliverable(stream, MaxDeliver) :
            /\ Cardinality(Q) <= Batch
            /\ stream' = DeliverFrom(stream, Q)
            /\ eng' = [eng EXCEPT ![g].batch = {[q |-> q, ev |-> stream.msg[q].id, n |-> stream.msg[q].n + 1] : q \in Q},
                                  ![g].ready = @ \cup {"fetching"}]
            /\ UNCHANGED bounds
       \/ Fault /\ UNCHANGED stream /\ Leave(g, "nats", eng[g].ready)
    /\ UNCHANGED <<rows, cands, head, termed>>

----------------------------------------------------------------------------
(* process_delivery.                                                        *)

TakeDelivery(g) ==
    /\ eng[g].pc = "fetch"
    /\ \E d \in eng[g].batch : eng' = [eng EXCEPT ![g].batch = @ \ {d}, ![g].cur = d, ![g].pc = "lookup"]
    /\ UNCHANGED <<stream, rows, cands, head, termed, bounds>>

\* handle_store_failure: a lost connection leaves the delivery to its ack
\* wait; a configuration, schema or integrity error terminates it and stops
\* the process.
StoreFailed(g) == UNCHANGED <<stream, termed>> /\ Leave(g, "recover", Lose(eng[g].ready, "persistence"))

StoreIntegrity(g) ==
    LET d == eng[g].cur IN
    /\ stream' \in {stream, RemoveFrom(stream, d.q)}
    /\ termed' = termed \cup {d.ev}
    /\ Exit(g)

final_classification(g) ==
    /\ eng[g].pc = "lookup"
    /\ \/ /\ eng' = IF is_final(cls[eng[g].cur.ev])
                    THEN [eng EXCEPT ![g].pc = "ack", ![g].res = NoResult]
                    ELSE [eng EXCEPT ![g].pc = "evaluate"]
          /\ UNCHANGED <<stream, termed, bounds>>
       \/ Fault /\ StoreFailed(g)
    /\ UNCHANGED <<rows, cands, head>>

transient == Result("transient_dependency_failure", "Retry", {})
terminal == Result("terminal_integrity_failure", "Quarantine", {})
process_fatal == Result("terminal_integrity_failure", "ProcessFatal", {})
rejected(R) == Result("candidate_rejected", "Ack", R)

\* What becomes of a result: exhausted retries are converted before the
\* classification is persisted.
Judged(d, r) ==
    IF r.act # "Retry" \/ d.n < MaxDeliver THEN [pc |-> "persist", res |-> r]
    ELSE IF r.cls = "transient_dependency_failure" THEN [pc |-> "context", res |-> r]
    ELSE [pc |-> "persist", res |-> terminal]

Continue(g, next) == eng' = [eng EXCEPT ![g].pc = next.pc, ![g].res = next.res]

\* ShadowProcessor::process on an origin that affects routes: the routes
\* evaluated with an opportunity, and whether one is verified profitable.
Evaluated == {rejected(R) : R \in SUBSET Route}

process(g) ==
    LET d == eng[g].cur
        Decided(r) == Continue(g, Judged(d, r))
    IN
    /\ eng[g].pc = "evaluate"
    /\ \/ Kind[d.ev] = "malformed" /\ Decided(Result("malformed_internal_event", "Retry", {})) /\ UNCHANGED bounds
       \/ Kind[d.ev] = "unsupported" /\ Decided(Result("unsupported_schema", "Quarantine", {})) /\ UNCHANGED bounds
       \/ Kind[d.ev] = "none" /\ Decided(Result("no_relevant_route", "Ack", {})) /\ UNCHANGED bounds
       \/ Kind[d.ev] = "route" /\ (\E r \in Evaluated : Decided(r)) /\ UNCHANGED bounds
       \/ /\ Kind[d.ev] = "route"
          /\ Autonomous
          /\ \E r \in Evaluated : r.evals # {} /\ Continue(g, [pc |-> "materialize", res |-> r])
          /\ UNCHANGED bounds
       \/ Kind[d.ev] = "route" /\ Fault /\ (\E r \in {transient, terminal} : Decided(r))
    /\ UNCHANGED <<stream, rows, cands, head, termed>>

\* AutonomousHunterProcessor::process_inner: pool state at the head, the
\* hunter, and the insert of the candidate.  The unique index on event, block
\* and route is not the conflict target: a second insert is a process failure.
materialize(g) ==
    LET d == eng[g].cur
        Decided(r) == Continue(g, Judged(d, r))
    IN
    /\ eng[g].pc = "materialize"
    /\ \/ Decided(eng[g].res) /\ UNCHANGED <<cands, bounds>>
       \/ \E rt \in eng[g].res.evals :
            LET c == [ev |-> d.ev, block |-> head, route |-> rt] IN
            \/ /\ c \notin cands
               /\ cands' = cands \cup {c}
               /\ Decided([eng[g].res EXCEPT !.cls = "candidate_generated"])
               /\ UNCHANGED bounds
            \/ /\ c \in cands
               /\ Decided(process_fatal)
               /\ UNCHANGED <<cands, bounds>>
            \/ /\ Fault
               /\ cands' \in {cands, cands \cup {c}}
               /\ Decided(transient)
       \/ Fault /\ Decided(terminal) /\ UNCHANGED cands
    /\ UNCHANGED <<stream, rows, head, termed>>

First(e) == {a \in attempts : a.ev = e /\ \A b \in attempts : b.ev = e => a.n <= b.n}

\* dependency_failure_context and dependency_exhausted_result.
dependency_failure_context(g) ==
    LET e == eng[g].cur.ev IN
    /\ eng[g].pc = "context"
    /\ \/ /\ \A a \in First(e) : a.cls = "transient_dependency_failure"
          /\ Continue(g, [pc |-> "persist", res |-> Result("dependency_exhausted", "Ack", {})])
          /\ UNCHANGED <<stream, termed, bounds>>
       \/ /\ \E a \in First(e) : a.cls # "transient_dependency_failure"
          /\ StoreIntegrity(g)
          /\ UNCHANGED bounds
       \/ Fault /\ StoreFailed(g)
    /\ UNCHANGED <<rows, cands, head>>

\* The transaction of persist_classification: the attempt is kept if its
\* delivery number is new, the classification replaced, the decisions added.
Write(d, r) ==
    /\ attempts' = IF \E a \in attempts : a.ev = d.ev /\ a.n = d.n THEN attempts
                   ELSE attempts \cup {[ev |-> d.ev, n |-> d.n, cls |-> r.cls]}
    /\ cls' = [cls EXCEPT ![d.ev] = r.cls]
    /\ decisions' = decisions \cup {<<d.ev, rt>> : rt \in r.evals}

Conflicts(d, r) == \E rt \in r.evals : <<d.ev, rt>> \in decisions

\* Mutant: of a final classification only the decisions are kept.
persist_classification_Reclassifies(g) ==
    LET d == eng[g].cur
        r == eng[g].res
    IN
    /\ eng[g].pc = "persist"
    /\ IF is_final(cls[d.ev]) THEN cls' = [cls EXCEPT ![d.ev] = r.cls] /\ UNCHANGED <<attempts, decisions>>
       ELSE ~Conflicts(d, r) /\ Write(d, r)
    /\ eng' = [eng EXCEPT ![g].pc = "ack"]
    /\ UNCHANGED <<stream, termed, cands, head, bounds>>

\* Mutant: a lost commit is acknowledged.
persist_classification_AcksLost(g) ==
    LET d == eng[g].cur IN
    /\ eng[g].pc = "persist"
    /\ ~is_final(cls[d.ev])
    /\ ~Conflicts(d, eng[g].res)
    /\ \/ Write(d, eng[g].res) /\ UNCHANGED bounds
       \/ UNCHANGED rows /\ Fault
    /\ eng' = [eng EXCEPT ![g].pc = "ack"]
    /\ UNCHANGED <<stream, termed, cands, head>>

persist_classification(g) ==
    LET d == eng[g].cur
        r == eng[g].res
        acked == [eng EXCEPT ![g].pc = "ack", ![g].ready = @ \cup {"persistence"}]
    IN
    /\ eng[g].pc = "persist"
    /\ \/ /\ is_final(cls[d.ev])
          /\ eng' = [acked EXCEPT ![g].res = NoResult]
          /\ UNCHANGED <<rows, stream, termed, bounds>>
       \/ /\ ~is_final(cls[d.ev])
          /\ ~Conflicts(d, r)
          /\ Write(d, r)
          /\ \/ eng' = acked /\ UNCHANGED <<stream, termed, bounds>>
             \/ Fault /\ StoreFailed(g)
       \/ ~is_final(cls[d.ev]) /\ Conflicts(d, r) /\ StoreIntegrity(g) /\ UNCHANGED <<rows, bounds>>
       \/ Fault /\ StoreFailed(g) /\ UNCHANGED rows
       \/ /\ unfit < MaxUnfit
          /\ unfit' = unfit + 1
          /\ StoreIntegrity(g)
          /\ UNCHANGED <<rows, faults, pings, crashes, expiries>>
    /\ UNCHANGED <<cands, head>>

\* acknowledge: ack, nak or term; its failure ends the loop, a fatal result
\* ends the process.
acknowledge(g) ==
    LET d == eng[g].cur
        r == eng[g].res
        done == IF r.act = "Retry" THEN ReturnTo(stream, d.q) ELSE RemoveFrom(stream, d.q)
    IN
    /\ eng[g].pc = "ack"
    /\ \E o \in AckOutcome(stream, d.q, done) :
         /\ stream' = o.stream
         /\ Charged(o.ok)
         /\ IF r.act = "ProcessFatal" THEN Exit(g)
            ELSE IF o.ok
            THEN eng' = [eng EXCEPT ![g].pc = "fetch", ![g].cur = NoDelivery, ![g].res = NoResult, ![g].ready = @ \cup {"acks"}]
            ELSE Leave(g, "nats", Lose(eng[g].ready, "acks"))
    /\ UNCHANGED <<rows, cands, head, termed>>

Consume(g) ==
    \/ fetch_batch(g) \/ TakeDelivery(g) \/ final_classification(g) \/ process(g) \/ materialize(g)
    \/ dependency_failure_context(g) \/ persist_classification(g) \/ acknowledge(g)

Run(g) == connect_postgres(g) \/ connect_nats(g) \/ Consume(g) \/ Restart(g)
Monitor(g) == monitor_database(g) \/ monitor_rpc_gateway(g)

Next ==
    \/ \E e \in Event : Arrive(e)
    \/ Mine
    \/ \E q \in DOMAIN stream.msg : AckWaitPasses(q)
    \/ \E g \in Engine : Run(g) \/ Monitor(g) \/ Crash(g)

Spec == Init /\ [][Next]_vars

\* Each engine keeps running and is restarted, its fetch returns what is
\* deliverable, the monitors probe, the ack wait of an abandoned delivery
\* passes.
Fetches(g) == fetch_batch(g) /\ eng'[g].batch # {}
FairSpec ==
    /\ Spec
    /\ \A g \in Engine : /\ WF_vars(Run(g)) /\ SF_vars(Fetches(g))
                         /\ WF_vars(monitor_database(g) /\ UNCHANGED pings)
                         /\ WF_vars(monitor_rpc_gateway(g) /\ UNCHANGED pings)
    /\ \A e \in Event : WF_vars(Arrive(e))
    /\ \A q \in 1..MaxCopies : WF_vars(q \in DOMAIN stream.msg /\ AckWaitPasses(q))

----------------------------------------------------------------------------
(* Properties.                                                              *)

TypeOK ==
    /\ StreamOK(stream, Event)
    /\ cls \in [Event -> Classification \cup {"unclassified"}]
    /\ \A a \in attempts : a.ev \in Event /\ a.n \in 1..MaxDeliver /\ a.cls \in Classification
    /\ decisions \subseteq Event \X Route
    /\ \A c \in cands : c.ev \in Event /\ c.block \in 1..MaxBlock /\ c.route \in Route
    /\ \A g \in Engine :
         /\ eng[g].pc \in {"down", "start", "recover", "nats", "fetch", "lookup", "evaluate", "materialize", "context", "persist", "ack"}
         /\ eng[g].ready \subseteq Flag
         /\ eng[g].res.act \in {"Ack", "Retry", "Quarantine", "ProcessFatal"}

\* A delivery leaves the stream only when its event has a classification row,
\* except one the engine terminates because the store refused it.
RemovedIsClassified ==
    \A e \in stream.ever : Queued(stream, e) \/ cls[e] # "unclassified" \/ e \in termed

\* An event classified as candidate_generated has its candidate: the insert
\* comes first and a lost reply is not taken for success.
GeneratedHasCandidate ==
    \A e \in Event : cls[e] = "candidate_generated" => \E c \in cands : c.ev = e

\* A final classification is never replaced: not by a redelivery, a second
\* copy or another engine that evaluated the same event at the same time.
FinalStays == \A e \in Event : is_final(cls[e]) => cls'[e] = cls[e]
FinalIsForever == [][FinalStays]_vars

\* An event's decisions are written by one commit and stay as they are.
NoSecondDecision ==
    \A e \in Event : (\E rt \in Route : <<e, rt>> \in decisions)
       => \A rt \in Route : <<e, rt>> \in decisions' => <<e, rt>> \in decisions
DecidedOnce == [][NoSecondDecision]_vars

\* The decision record: a redelivery of an event whose decisions are
\* committed finds its classification and is not evaluated again.
CommittedIsNotReevaluated ==
    \A g \in Engine : eng[g].pc \in {"evaluate", "materialize", "context", "persist"}
      => \A rt \in Route : <<eng[g].cur.ev, rt>> \notin decisions

\* An event classified as exhausted or as an integrity failure, whose record
\* says that no execution request was created, has no candidate from which
\* the materializer creates one.
QuarantinedHasNoCandidate ==
    \A c \in cands : cls[c.ev] \notin {"dependency_exhausted", "terminal_integrity_failure"}

\* Exhaustion is the outcome of the delivery limit, after an attempt that
\* really was a transient failure whenever an earlier attempt is on record.
ExhaustedAtTheLimit ==
    \A e \in Event : cls[e] = "dependency_exhausted" =>
      /\ \A a \in First(e) : a.cls \in {"transient_dependency_failure", "dependency_exhausted"}
      /\ \E a \in attempts : a.ev = e /\ a.n >= MaxDeliver

\* Every event that arrives gets a final classification.
EventuallyFinal == \A e \in Event : e \in stream.ever ~> is_final(cls[e])

\* The decision record: an engine that crashes before its commit leaves the
\* message to be delivered again.
UnclassifiedIsRedelivered ==
    \A q \in Abandoned(stream, MaxDeliver) : cls[stream.msg[q].id] # "unclassified"

\* The runbook: an engine that has initialised is ready; once calls and
\* probes succeed again it does not stay unready.
ReadyAgain == \A g \in Engine : <>[]Ready(g)
==============================================================================
