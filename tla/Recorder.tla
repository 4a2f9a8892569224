------------------------------ MODULE Recorder -------------------------------
(***************************************************************************)
(* The recorder (recorder/src): it drains PHOENIX_FEED_TX in batches,      *)
(* classifies every message, counts it in the ingress buffer, writes the   *)
(* relevant ones with their engine outbox rows in one transaction, and     *)
(* acknowledges only then.  Beside the consumer run the flush of the       *)
(* ingress buffer, the database monitor and the NATS callbacks; they meet  *)
(* in the buffer and in the readiness flags.  The process may crash at any *)
(* await and starts again with nothing but the database and the stream.    *)
(***************************************************************************)
EXTENDS JetStream

CONSTANTS
    Event,        \* normalized transactions, by engine_event_identity
    Kind,         \* Kind[e]: relevant, filtered, interesting or malformed
    Batch,        \* RECORDER_BATCH_MAX_SIZE
    MaxDeliver,   \* CONSUMER_MAX_DELIVERIES
    AckThreshold, \* ACK_FAILURE_READINESS_THRESHOLD
    MaxKeys,      \* MAX_AGGREGATE_KEYS
    SampleLimit,  \* max_samples_per_detail_per_day
    MaxCopies,    \* bound on stored copies of the feed
    MaxFaults,    \* bound on failed calls
    MaxCrashes,   \* bound on crashes
    MaxExpiries,  \* bound on ack waits that pass while the delivery is held
    MaxStops,     \* bound on termination signals
    NewRow        \* an outbox row as the insert leaves it

Flag == {"alive", "postgres", "schema", "jetstream", "stream", "consumer", "fetching",
         "persistence", "acks", "integrity"}

VARIABLES
    feed,     \* PHOENIX_FEED_TX
    rec,      \* the consumer: pc, classified and unclassified deliveries, failures, stop signal
    ingress,  \* IngressBuffer: events counted per class, samples held
    flush,    \* the flush task: idle, writing with its batch, or ended; lost is history
    ready,    \* Readiness
    raw,      \* origin_transactions and feed_events
    outbox,   \* engine_outbox: event -> row
    daily,    \* money_path_ingress_daily and money_path_ingress_samples
    faults, crashes, expiries, stops

Relevant == {e \in Event : Kind[e] = "relevant"}
Class == {"relevant", "filtered", "interesting"}
Delivery == [q : Nat, ev : Event, n : Nat]
NoCounts == [count |-> [c \in Class |-> 0], samples |-> {}]
NewReadiness == [f \in Flag |-> f \in {"alive", "persistence", "acks", "integrity"}]
Stopped == [pc |-> "down", todo |-> {}, rel |-> {}, fil |-> {}, acks |-> 0, failed |-> FALSE, stop |-> FALSE]

bounds == <<faults, crashes, expiries, stops>>
rows == <<raw, outbox>>
telemetry == <<ingress, flush, daily>>
vars == <<feed, rec, ingress, flush, ready, raw, outbox, daily, faults, crashes, expiries, stops>>

Fault == /\ faults < MaxFaults
         /\ faults' = faults + 1
         /\ UNCHANGED <<crashes, expiries, stops>>

\* A call that fails is charged to the fault bound.
Charged(ok) == IF ok THEN UNCHANGED bounds ELSE Fault

\* Readiness setters: losing PostgreSQL unverifies the schema, losing
\* JetStream or the consumer stops the fetching.
SetFlags(r, F, value) ==
    [f \in Flag |->
       IF f \in F THEN value
       ELSE IF ~value /\ f = "schema" /\ "postgres" \in F THEN FALSE
       ELSE IF ~value /\ f = "fetching" /\ F \cap {"jetstream", "consumer"} # {} THEN FALSE
       ELSE r[f]]

Ready == \A f \in Flag : ready[f]

\* AckHealthTracker::observe.
Observe(n, ok) == IF ok THEN 0 ELSE n + 1
ObserveFlag(r, n, ok) ==
    IF ok THEN SetFlags(r, {"acks"}, TRUE)
    ELSE IF n + 1 >= AckThreshold THEN SetFlags(r, {"acks"}, FALSE) ELSE r

----------------------------------------------------------------------------
(* Start, connections and the end of the process (main.rs run_daemon).      *)

Init ==
    /\ feed = EmptyStream
    /\ rec = [Stopped EXCEPT !.pc = "start"]
    /\ ingress = NoCounts
    /\ flush = [pc |-> "idle", batch |-> NoCounts, lost |-> FALSE]
    /\ ready = NewReadiness
    /\ raw = {}
    /\ outbox = [e \in {} |-> NewRow]
    /\ daily = NoCounts
    /\ faults = 0 /\ crashes = 0 /\ expiries = 0 /\ stops = 0

\* The feed ingestor stores a normalized transaction; a publication it
\* repeats after the duplicate window is a second copy.
Ingest(e) ==
    /\ feed.last < MaxCopies
    /\ \/ e \notin feed.recent /\ feed' = PublishTo(feed, e)
       \/ e \in feed.recent /\ feed' = PublishTo(ForgetId(feed, e), e)
    /\ UNCHANGED <<rec, telemetry, ready, rows, bounds>>

connect_postgres_until_ready ==
    /\ rec.pc = "start"
    /\ \/ /\ ready' = SetFlags(ready, {"postgres", "schema"}, TRUE)
          /\ rec' = [rec EXCEPT !.pc = "nats"]
          /\ UNCHANGED bounds
       \/ /\ Fault
          /\ \E f \in {"postgres", "schema"} : ready' = SetFlags(ready, {f}, FALSE)
          /\ UNCHANGED rec
    /\ UNCHANGED <<feed, telemetry, rows>>

NatsFlags == {"jetstream", "stream", "consumer"}

ensure_durable_pipeline ==
    /\ rec.pc = "nats"
    /\ ~rec.stop
    /\ \/ /\ ready' = SetFlags(ready, NatsFlags, TRUE)
          /\ rec' = [rec EXCEPT !.pc = "fetch", !.acks = 0]
          /\ UNCHANGED bounds
       \/ /\ Fault
          /\ ready' = SetFlags(ready, NatsFlags \cup {"fetching"}, FALSE)
          /\ UNCHANGED rec
    /\ UNCHANGED <<feed, telemetry, rows>>

\* Leaving the consumer loop: mark_nats_disconnected, then connect again or end.
Leave(next) ==
    /\ rec' = [Stopped EXCEPT !.pc = next, !.stop = rec.stop \/ next = "ending"]
    /\ ready' = SetFlags(ready, NatsFlags \cup {"fetching"}, FALSE)

Signal ==
    /\ rec.pc \notin {"down", "ending"}
    /\ ~rec.stop
    /\ stops < MaxStops
    /\ stops' = stops + 1
    /\ rec' = [rec EXCEPT !.stop = TRUE]
    /\ UNCHANGED <<feed, telemetry, ready, rows, faults, crashes, expiries>>

\* The loop sees the signal while it connects, fetches or waits to retry.
SeesStop ==
    /\ rec.stop
    /\ rec.pc \in {"start", "nats", "fetch"} \/ (rec.pc = "persist" /\ rec.failed)
    /\ Leave("ending")
    /\ UNCHANGED <<feed, telemetry, rows, bounds>>

\* run_daemon joins the flush task before it returns.
ProcessEnds ==
    /\ rec.pc = "ending"
    /\ flush.pc = "ended"
    /\ rec' = Stopped
    /\ ingress' = NoCounts
    /\ flush' = [flush EXCEPT !.lost = @ \/ ingress # NoCounts]
    /\ ready' = [ready EXCEPT !["alive"] = FALSE]
    /\ UNCHANGED <<feed, daily, rows, bounds>>

Crash ==
    /\ rec.pc # "down"
    /\ crashes < MaxCrashes
    /\ crashes' = crashes + 1
    /\ rec' = Stopped
    /\ ingress' = NoCounts
    /\ flush' = [flush EXCEPT !.pc = "ended", !.batch = NoCounts,
                               !.lost = @ \/ ingress # NoCounts \/ flush.batch # NoCounts]
    /\ ready' = [ready EXCEPT !["alive"] = FALSE]
    /\ UNCHANGED <<feed, daily, rows, faults, expiries, stops>>

Restart ==
    /\ rec.pc = "down"
    /\ rec' = [Stopped EXCEPT !.pc = "start"]
    /\ flush' = [flush EXCEPT !.pc = "idle"]
    /\ ready' = NewReadiness
    /\ UNCHANGED <<feed, ingress, daily, rows, bounds>>

----------------------------------------------------------------------------
(* consume_durable_messages and process_delivery_batch.                     *)

Deliveries(Q) == {[q |-> q, ev |-> feed.msg[q].id, n |-> feed.msg[q].n + 1] : q \in Q}

\* Fetching and refreshing the consumer state; a failure of either drops
\* what was already fetched.
fetch_batch ==
    /\ rec.pc = "fetch"
    /\ ~rec.stop
    /\ \E Q \in SUBSET Deliverable(feed, MaxDeliver) :
         /\ Q # {} /\ Cardinality(Q) <= Batch
         /\ feed' = DeliverFrom(feed, Q)
         /\ \/ /\ rec' = [rec EXCEPT !.pc = "classify", !.todo = Deliveries(Q)]
               /\ ready' = SetFlags(ready, {"fetching", "consumer"}, TRUE)
               /\ UNCHANGED bounds
            \/ Fault /\ Leave("nats")
    /\ UNCHANGED <<telemetry, rows>>

\* IngressBuffer::record: a class over the key bound is an invariant failure;
\* an unsupported interesting input leaves a sample while there is room.
KeyFits(c) == ingress.count[c] > 0
              \/ Cardinality({k \in Class : ingress.count[k] > 0}) < MaxKeys
Recorded(b, e, sampled) ==
    [count |-> [b.count EXCEPT ![Kind[e]] = @ + 1],
     samples |-> IF sampled /\ Cardinality(b.samples) < SampleLimit THEN b.samples \cup {e} ELSE b.samples]

ClassifyValid(d) ==
    /\ Kind[d.ev] \in Class
    /\ \/ /\ KeyFits(Kind[d.ev])
          /\ \E sampled \in BOOLEAN :
               /\ sampled => Kind[d.ev] = "interesting"
               /\ ingress' = Recorded(ingress, d.ev, sampled)
          /\ rec' = [rec EXCEPT !.todo = @ \ {d},
                                !.rel = IF d.ev \in Relevant THEN @ \cup {d} ELSE @,
                                !.fil = IF d.ev \in Relevant THEN @ ELSE @ \cup {d}]
          /\ UNCHANGED <<ready, bounds>>
       \/ /\ \/ ~KeyFits(Kind[d.ev]) /\ UNCHANGED bounds
             \/ Fault
          /\ rec' = [Stopped EXCEPT !.pc = "ending", !.stop = TRUE]
          /\ ready' = SetFlags(SetFlags(ready, {"integrity"}, FALSE), NatsFlags \cup {"fetching"}, FALSE)
          /\ UNCHANGED ingress
    /\ UNCHANGED <<feed, flush, daily, rows>>

\* A payload that does not decode is nak'ed, on its last delivery terminated.
ClassifyMalformed(d) ==
    /\ Kind[d.ev] = "malformed"
    /\ LET last == d.n >= MaxDeliver
           next == IF last THEN RemoveFrom(feed, d.q) ELSE ReturnTo(feed, d.q)
       IN \E o \in AckOutcome(feed, d.q, next) :
            /\ feed' = o.stream
            /\ Charged(o.ok)
            /\ rec' = [rec EXCEPT !.todo = @ \ {d}, !.acks = Observe(@, o.ok)]
            /\ LET observed == ObserveFlag(ready, rec.acks, o.ok)
               IN ready' = IF last THEN SetFlags(observed, {"integrity"}, FALSE) ELSE observed
    /\ UNCHANGED <<telemetry, rows>>

Classify ==
    /\ rec.pc = "classify"
    /\ \E d \in rec.todo : ClassifyValid(d) \/ ClassifyMalformed(d)

Classified ==
    /\ rec.pc = "classify"
    /\ rec.todo = {}
    /\ rec' = [rec EXCEPT !.pc = "filtered"]
    /\ UNCHANGED <<feed, telemetry, ready, rows, bounds>>

AckDelivery(d, field) ==
    /\ \E o \in AckOutcome(feed, d.q, RemoveFrom(feed, d.q)) :
         /\ feed' = o.stream
         /\ Charged(o.ok)
         /\ rec' = [rec EXCEPT ![field] = @ \ {d}, !.acks = Observe(@, o.ok)]
         /\ ready' = ObserveFlag(ready, rec.acks, o.ok)
    /\ UNCHANGED <<telemetry, rows>>

acknowledge_filtered ==
    /\ rec.pc = "filtered"
    /\ \E d \in rec.fil : AckDelivery(d, "fil")

FilteredAcked ==
    /\ rec.pc = "filtered"
    /\ rec.fil = {}
    /\ rec' = [rec EXCEPT !.pc = IF rec.rel = {} THEN "fetch" ELSE "persist"]
    /\ UNCHANGED <<feed, telemetry, ready, rows, bounds>>

\* The one transaction of persist_batch: conflicting rows stay as they are.
Commit(E) ==
    /\ raw' = raw \cup E
    /\ outbox' = [e \in DOMAIN outbox \cup E |-> IF e \in DOMAIN outbox THEN outbox[e] ELSE NewRow]

\* progress() of every delivery of a batch, observed one by one: the last k fail.
ProgressAcks(k) == IF k < Cardinality(rec.rel) THEN k ELSE rec.acks + k
ProgressFlag(r, k) ==
    IF ProgressAcks(k) >= AckThreshold THEN SetFlags(r, {"acks"}, FALSE)
    ELSE IF k < Cardinality(rec.rel) THEN SetFlags(r, {"acks"}, TRUE) ELSE r

\* persist_batch_with_retry: a failed attempt, or one whose commit was not
\* confirmed, is reported unready, signals progress and is tried again.
persist_batch ==
    /\ rec.pc = "persist"
    /\ LET E == {d.ev : d \in rec.rel}
       IN \/ /\ Commit(E)
             /\ rec' = [rec EXCEPT !.pc = "ack", !.failed = FALSE]
             /\ ready' = SetFlags(ready, {"postgres", "persistence"}, TRUE)
             /\ UNCHANGED bounds
          \/ /\ Fault
             /\ Commit(E) \/ UNCHANGED rows
             /\ \E k \in 0..Cardinality(rec.rel) :
                  /\ rec' = [rec EXCEPT !.failed = TRUE, !.acks = ProgressAcks(k)]
                  /\ ready' = ProgressFlag(SetFlags(ready, {"postgres", "persistence"}, FALSE), k)
    /\ UNCHANGED <<feed, telemetry>>

AckRelevant ==
    /\ rec.pc = "ack"
    /\ \E d \in rec.rel : AckDelivery(d, "rel")

BatchEnds ==
    /\ rec.pc = "ack"
    /\ rec.rel = {}
    /\ IF rec.stop THEN Leave("ending")
       ELSE rec' = [rec EXCEPT !.pc = "fetch"] /\ UNCHANGED ready
    /\ UNCHANGED <<feed, telemetry, rows, bounds>>

----------------------------------------------------------------------------
(* flush_ingress_evidence.                                                  *)

Total(b) == b.count["relevant"] + b.count["filtered"] + b.count["interesting"]

\* The interval, the event bound or the final flush after the signal.
FlushTake ==
    /\ flush.pc = "idle"
    /\ rec.pc \notin {"down", "start"}
    /\ IF Total(ingress) > 0
       THEN /\ flush' = [flush EXCEPT !.pc = IF rec.stop THEN "final" ELSE "writing", !.batch = ingress]
            /\ ingress' = NoCounts
       ELSE /\ rec.stop
            /\ flush' = [flush EXCEPT !.pc = "ended"]
            /\ UNCHANGED ingress
    /\ UNCHANGED <<feed, rec, ready, rows, daily, bounds>>

Added(a, b) == [c \in Class |-> a[c] + b[c]]

\* As many of the new samples as the limit leaves room for.
Fitting(new, held) ==
    LET room == SampleLimit - Cardinality(held)
    IN {S \in SUBSET new : Cardinality(S) = IF Cardinality(new) <= room THEN Cardinality(new) ELSE room}

\* persist_aggregates adds; persist_sample skips a fingerprint it has and
\* stops at the limit.
FlushCommit ==
    \E S \in Fitting(flush.batch.samples \ daily.samples, daily.samples) :
      daily' = [count |-> Added(daily.count, flush.batch.count), samples |-> daily.samples \cup S]

\* IngressBuffer::restore: refused over the key bound, when the batch is gone
\* and bounded_sample_failure says so.
Refused == Cardinality({c \in Class : ingress.count[c] + flush.batch.count[c] > 0}) > MaxKeys
\* Mutant: a failed flush drops its batch.
Restored_Dropped == {ingress}

Restored ==
    IF Refused THEN {ingress}
    ELSE {[count |-> Added(ingress.count, flush.batch.count), samples |-> ingress.samples \cup S] :
            S \in Fitting(flush.batch.samples \ ingress.samples, ingress.samples)}

FlushWrite ==
    /\ flush.pc \in {"writing", "final"}
    /\ LET next == IF flush.pc = "final" THEN "ended" ELSE "idle"
       IN \/ /\ FlushCommit
             /\ flush' = [flush EXCEPT !.pc = next, !.batch = NoCounts]
             /\ UNCHANGED <<ingress, bounds>>
          \/ /\ Fault
             /\ FlushCommit \/ UNCHANGED daily
             /\ ingress' \in Restored
             /\ flush' = [pc |-> next, batch |-> NoCounts, lost |-> flush.lost \/ Refused]
    /\ UNCHANGED <<feed, rec, ready, rows>>

----------------------------------------------------------------------------
(* monitor_database, the NATS callbacks, and the stream's ack wait.          *)

monitor_database ==
    /\ rec.pc \notin {"down", "start"}
    /\ ~rec.stop
    /\ \/ ready' = SetFlags(ready, {"postgres", "schema"}, TRUE) /\ UNCHANGED bounds
       \/ Fault /\ \E f \in {"postgres", "schema"} : ready' = SetFlags(ready, {f}, FALSE)
    /\ ready' # ready
    /\ UNCHANGED <<feed, rec, telemetry, rows>>

nats_event ==
    /\ rec.pc \notin {"down", "start", "nats"}
    /\ \/ /\ Fault
          /\ \E f \in {"jetstream", "fetching"} : ready' = SetFlags(ready, {f}, FALSE)
       \/ /\ ~ready["jetstream"]
          /\ ready' = SetFlags(ready, {"jetstream"}, TRUE)
          /\ UNCHANGED bounds
    /\ UNCHANGED <<feed, rec, telemetry, rows>>

Held == {d.q : d \in rec.todo \cup rec.rel \cup rec.fil}

\* A delivery nobody holds returns when its ack wait passes; so does one held
\* for longer than the wait.
AckWaitPasses(q) ==
    /\ feed.msg[q].held
    /\ IF q \in Held
       THEN /\ expiries < MaxExpiries
            /\ expiries' = expiries + 1
            /\ UNCHANGED <<faults, crashes, stops>>
       ELSE UNCHANGED bounds
    /\ feed' = ReturnTo(feed, q)
    /\ UNCHANGED <<rec, telemetry, ready, rows>>

ConsumerStep ==
    \/ connect_postgres_until_ready \/ ensure_durable_pipeline
    \/ SeesStop \/ ProcessEnds \/ Restart
    \/ fetch_batch \/ Classify \/ Classified
    \/ acknowledge_filtered \/ FilteredAcked
    \/ persist_batch \/ AckRelevant \/ BatchEnds

Next ==
    \/ \E e \in Event : Ingest(e)
    \/ ConsumerStep
    \/ Signal \/ Crash
    \/ FlushTake \/ FlushWrite
    \/ monitor_database \/ nats_event
    \/ \E q \in DOMAIN feed.msg : AckWaitPasses(q)

Spec == Init /\ [][Next]_vars

\* The process is scheduled, restarted by its supervisor, and the stream
\* redelivers; faults, crashes and signals are never forced.
Fairness ==
    /\ WF_vars(ConsumerStep)
    /\ WF_vars(FlushTake \/ FlushWrite)
    /\ WF_vars(\E q \in DOMAIN feed.msg : q \notin Held /\ AckWaitPasses(q))

FairSpec == Spec /\ Fairness
----------------------------------------------------------------------------
(* Properties.                                                              *)

\* State the recorder can hold.
TypeOK ==
    /\ StreamOK(feed, Event)
    /\ rec.todo \cup rec.rel \cup rec.fil \subseteq Delivery
    /\ rec.pc \in {"start", "nats", "fetch", "classify", "filtered", "persist", "ack", "ending", "down"}
    /\ ready \in [Flag -> BOOLEAN]
    /\ raw \subseteq Relevant
    /\ DOMAIN outbox \subseteq Relevant

\* A relevant message that has left PHOENIX_FEED_TX is in the database with
\* its outbox row: process_delivery_batch acknowledges after the commit,
\* whatever crashed, expired or was delivered twice in between.
AckedIsRecorded ==
    \A e \in Relevant : e \in feed.ever /\ ~Queued(feed, e) => e \in raw /\ e \in DOMAIN outbox

\* The recorder does not report itself ready while a batch waits for a failed
\* transaction to be repeated, nor after an integrity loss: the monitor's
\* pings and the NATS callbacks never mask either.
ReadyIsHonest ==
    Ready => ~rec.failed /\ rec.pc \in {"fetch", "classify", "filtered", "persist", "ack"}

\* Every acknowledged message is still counted: in the buffer, in the flush
\* under way or in the daily table, unless a process ended with a buffer
\* it had not flushed or a refused restore was reported.  The flush runs beside the consumer, and its
\* transaction may fail after or before the commit.
CountsKept ==
    ~flush.lost =>
      \A c \in Class :
        Cardinality({e \in Event : Kind[e] = c /\ e \in feed.ever /\ ~Queued(feed, e)})
          <= ingress.count[c] + flush.batch.count[c] + daily.count[c]

\* money_path_ingress_samples never exceeds the per-detail limit, whatever is
\* flushed twice.
SamplesBounded == Cardinality(daily.samples) <= SampleLimit /\ Cardinality(ingress.samples) <= SampleLimit

\* A relevant message in the feed is eventually recorded, as long as crashes,
\* faults and late acknowledgements do not use up its deliveries.
EventuallyRecorded == \A e \in Relevant : (e \in feed.ever) ~> (e \in DOMAIN outbox)

\* docs/RECORDER_DURABLE_DELIVERY.md:46: a crash or a failed acknowledgement
\* causes replay, so no relevant message is abandoned unrecorded.
UnrecordedIsReplayed ==
    \A q \in Abandoned(feed, MaxDeliver) : feed.msg[q].id \in Relevant => feed.msg[q].id \in DOMAIN outbox
==============================================================================
